------------------------------- MODULE Shell -------------------------------
(***************************************************************************)
(* cmd.c, with the loop of main.c: how a line is run by the shell and the  *)
(* processes it forks, what passes through pipes, and what comes back.     *)
(***************************************************************************)
EXTENDS Integers, Sequences, FiniteSets, SequencesExt

CONSTANTS
    Lines,      \* the trees that parse_line makes of the lines typed
    MaxLines,   \* bound on their number
    Names,      \* of variables; "cwd" stands for the working directory
    Cap,        \* how much a pipe holds
    Pids, Pipes \* numbers for processes, 1 is the shell, and for pipes

ASSUME NumbersAssumption == 1 \in Pids /\ 0 \notin Pipes

SHELL_EXIT == -100

VARIABLES
    proc,       \* proc[p]: a process, see Shell0 and Program
    level,      \* level[x]: how much is in pipe x
    line, lines,\* the line being run, how many there were
    before      \* variables when it was typed

vars == <<proc, level, line, lines, before>>

(***************************************************************************)
(* A command c has an op: seq, par, nz (||), z (&&) and pipe with cmd1 and *)
(* cmd2, or one of the simple ones: exit, cd (dir, ok), set (name, expand, *)
(* string) and prog: a program that reads so much, writes so much and      *)
(* exits with a status, with its input or output redirected or not.        *)
(***************************************************************************)
Frame(c) == [c |-> c, at |-> "start", kids |-> <<>>, pipe |-> 0]

\* in and out are pipes, 0 for others; held, the other ends that are open.
Free == [kind |-> "free", stack |-> <<>>, ret |-> 0, in |-> 0, out |-> 0,
         held |-> {}, env |-> [n \in Names |-> ""], reads |-> 0, writes |-> 0]

Init ==
    /\ proc = [p \in Pids |-> IF p = 1 THEN [Free EXCEPT !.kind = "prompt"]
                              ELSE Free]
    /\ level = [x \in Pipes |-> 0]
    /\ line = <<>> /\ lines = 0
    /\ before = proc[1].env

Running(p) == proc[p].kind \in {"shell", "prog"}
Holds(p, x, e) ==
    \/ <<x, e>> \in proc[p].held
    \/ e = "r" /\ proc[p].in = x
    \/ e = "w" /\ proc[p].out = x
Open(x, e) == \E p \in Pids : Holds(p, x, e)

\* read_line and parse_line, at the prompt.
Type(c) ==
    /\ proc[1].kind = "prompt" /\ lines < MaxLines
    /\ proc' = [proc EXCEPT ![1].kind = "shell", ![1].stack = <<Frame(c)>>,
                            ![1].ret = 0]
    /\ line' = c /\ lines' = lines + 1 /\ before' = proc[1].env
    /\ UNCHANGED level

-----------------------------------------------------------------------------
(* Processes that run parse_command.                                       *)

Top(p) == Last(proc[p].stack)
At(p, place) == proc[p].kind = "shell" /\ Top(p).at = place

\* The status that wait gets after exit(n), which keeps one byte.
Exited(n) == (n % 256) * 256

Ended(status) == [Free EXCEPT !.kind = "zombie", !.ret = status]

\* parse_command returns r: to the command around, to the prompt, or, in a
\* child, to exit(r).
Returned(p, pr, r) ==
    IF Len(pr.stack) > 1 THEN [pr EXCEPT !.stack = Front(@), !.ret = r]
    ELSE IF p # 1 THEN Ended(Exited(r))
    ELSE [pr EXCEPT !.stack = <<>>, !.ret = r,
                    !.kind = IF r = SHELL_EXIT THEN "left" ELSE "prompt"]

WithTop(pr, top) == [pr EXCEPT !.stack = Append(Front(@), top)]
Moved(pr, place) == WithTop(pr, [Last(pr.stack) EXCEPT !.at = place])
Call(pr, place, c) == [Moved(pr, place) EXCEPT !.stack = Append(@, Frame(c))]

\* A free process number, of which Pids bounds the number, takes what fork copies.
Fork(p, child, parent) ==
    LET q == CHOOSE q \in Pids : proc[q].kind = "free"
    IN  /\ \E r \in Pids : proc[r].kind = "free"
        /\ proc' = [proc EXCEPT ![q] = child,
               ![p] = WithTop(parent, [Last(parent.stack) EXCEPT !.kids = Append(@, q)])]

\* The child's copy of the shell, which is to run c.
Child(p, c) == [proc[p] EXCEPT !.stack = <<Frame(c)>>]

\* get_word, of one part.
get_word(c, env) == IF c.expand THEN env[c.string] ELSE c.string

\* exit, quit, cd and assignments are done by the process itself.
Builtin(p) ==
    LET c == Top(p).c
        pr == proc[p]
    IN  /\ At(p, "start")
        /\ \/ c.op = "exit" /\ proc' = [proc EXCEPT ![p] = Returned(p, pr, SHELL_EXIT)]
           \/ c.op = "cd" /\ proc' = [proc EXCEPT ![p] =
                IF c.ok THEN Returned(p, [pr EXCEPT !.env["cwd"] = c.dir], 0)
                ELSE Returned(p, pr, 1)]
           \/ c.op = "set" /\ proc' = [proc EXCEPT ![p] =
                Returned(p, [pr EXCEPT !.env[c.name] = get_word(c, pr.env)], 0)]
        /\ UNCHANGED <<level, line, lines, before>>

\* Any other command is a program, in a child of its own.
Exec(p) ==
    LET c == Top(p).c
        pr == proc[p]
        Redirected(file, x) == IF file THEN 0 ELSE x
    IN  /\ At(p, "start") /\ c.op = "prog"
        /\ Fork(p, [pr EXCEPT !.kind = "prog", !.ret = c.status,
                              !.reads = c.reads, !.writes = c.writes,
                              !.in = Redirected(c.in, @),
                              !.out = Redirected(c.out, @)],
                Moved(pr, "wait2"))
        /\ UNCHANGED <<level, line, lines, before>>

First(p) ==
    /\ At(p, "start") /\ Top(p).c.op \in {"seq", "nz", "z"}
    /\ proc' = [proc EXCEPT ![p] = Call(@, "second", Top(p).c.cmd1)]
    /\ UNCHANGED <<level, line, lines, before>>

\* A slip parse_command could have: the two conditionals are exchanged.
BadGoesOn(op, ret) == op = "seq" \/ (op = "nz" /\ ret = 0) \/ (op = "z" /\ ret # 0)
GoesOn(op, ret) == op = "seq" \/ (op = "nz" /\ ret # 0) \/ (op = "z" /\ ret = 0)

Second(p) ==
    LET pr == proc[p]
    IN  /\ At(p, "second")
        /\ proc' = [proc EXCEPT ![p] =
                       IF GoesOn(Top(p).c.op, pr.ret)
                       THEN Call(pr, "last", Top(p).c.cmd2)
                       ELSE Returned(p, pr, pr.ret)]
        /\ UNCHANGED <<level, line, lines, before>>

Third(p) ==
    /\ At(p, "last")
    /\ proc' = [proc EXCEPT ![p] = Returned(p, @, proc[p].ret)]
    /\ UNCHANGED <<level, line, lines, before>>

\* pipe, if there is one, and the first child: it writes into the pipe and
\* keeps the end to read from.  Pipes bounds the number of open ones.
Unused(x) == ~Open(x, "r") /\ ~Open(x, "w")
Fork1(p) ==
    LET c == Top(p).c
        x == IF c.op = "par" THEN 0 ELSE CHOOSE x \in Pipes : Unused(x)
        child == Child(p, c.cmd1)
        parent == WithTop(proc[p], [Top(p) EXCEPT !.at = "fork2", !.pipe = x])
    IN  /\ At(p, "start") /\ c.op \in {"par", "pipe"}
        /\ c.op = "pipe" => \E y \in Pipes : Unused(y)
        /\ IF x = 0 THEN Fork(p, child, parent) /\ UNCHANGED level
           ELSE /\ Fork(p, [child EXCEPT !.out = x, !.held = @ \cup {<<x, "r">>}],
                        [parent EXCEPT !.held = @ \cup {<<x, "r">>, <<x, "w">>}])
                /\ level' = [level EXCEPT ![x] = 0]
        /\ UNCHANGED <<line, lines, before>>

\* Slips run_on_pipe could have: the parent closes its ends after both forks
\* only, or leaves the one to read from open.
BadClosed(x) == {}
BadRest(x) == {}
\* What the parent closes before the second fork, and after it.
Closed(x) == {<<x, "w">>}
Rest(x) == {<<x, "r">>, <<x, "w">>}

\* The second child, which reads from the pipe; the parent closes its ends.
Fork2(p) ==
    LET x == Top(p).pipe
        held == proc[p].held \ Closed(x)
        child == Child(p, Top(p).c.cmd2)
        parent == Moved(proc[p], "wait1")
    IN  /\ At(p, "fork2")
        /\ IF x = 0 THEN Fork(p, child, parent)
           ELSE Fork(p, [child EXCEPT !.in = x, !.held = held \ {<<x, "r">>}],
                     [parent EXCEPT !.held = held \ Rest(x)])
        /\ UNCHANGED <<level, line, lines, before>>

Reap(p, q, pr) == proc' = [proc EXCEPT ![q] = Free, ![p] = pr]

Wait1(p) ==
    LET q == Head(Top(p).kids)
    IN  /\ At(p, "wait1") /\ proc[q].kind = "zombie"
        /\ Reap(p, q, Moved(proc[p], "wait2"))
        /\ UNCHANGED <<level, line, lines, before>>

\* The last child's status, as wait has it; but a pipe and parallel commands
\* return a bool.
Wait2(p) ==
    LET q == Last(Top(p).kids)
        status == proc[q].ret
    IN  /\ At(p, "wait2") /\ proc[q].kind = "zombie"
        /\ Reap(p, q, Returned(p, proc[p],
                         IF Top(p).c.op = "prog" THEN status
                         ELSE IF status = 0 THEN 0 ELSE 1))
        /\ UNCHANGED <<level, line, lines, before>>

-----------------------------------------------------------------------------
(* Programs.                                                               *)

\* A program reads `reads` units, or what there is until the end if that is
\* All, and then writes.
All == 99

Read(p) ==
    LET x == proc[p].in
    IN  /\ proc[p].kind = "prog" /\ proc[p].reads > 0
        /\ \/ /\ x # 0 /\ level[x] > 0
              /\ level' = [level EXCEPT ![x] = @ - 1]
              /\ proc' = [proc EXCEPT ![p].reads = IF @ = All THEN @ ELSE @ - 1]
           \/ /\ ~(x # 0 /\ (level[x] > 0 \/ Open(x, "w")))
              /\ proc' = [proc EXCEPT ![p].reads = 0]
              /\ UNCHANGED level
        /\ UNCHANGED <<line, lines, before>>

\* No write finds its pipe without a reader: the left side of a pipe and all
\* it forks keep the end to read from, so none is ended by SIGPIPE.
Write(p) ==
    LET x == proc[p].out
    IN  /\ proc[p].kind = "prog" /\ proc[p].reads = 0 /\ proc[p].writes > 0
        /\ \/ /\ x # 0 /\ level[x] < Cap
              /\ level' = [level EXCEPT ![x] = @ + 1]
              /\ proc' = [proc EXCEPT ![p].writes = @ - 1]
           \/ /\ x = 0
              /\ proc' = [proc EXCEPT ![p].writes = 0]
              /\ UNCHANGED level
        /\ UNCHANGED <<line, lines, before>>

Exit(p) ==
    /\ proc[p].kind = "prog" /\ proc[p].reads = 0 /\ proc[p].writes = 0
    /\ proc' = [proc EXCEPT ![p] = Ended(Exited(proc[p].ret))]
    /\ UNCHANGED <<level, line, lines, before>>

Step(p) ==
    \/ Builtin(p) \/ Exec(p) \/ First(p) \/ Second(p) \/ Third(p)
    \/ Fork1(p) \/ Fork2(p) \/ Wait1(p) \/ Wait2(p)
    \/ Read(p) \/ Write(p) \/ Exit(p)

Next == (\E c \in Lines : Type(c)) \/ \E p \in Pids : Step(p)

Spec == Init /\ [][Next]_vars
\* Every process runs on.
FairSpec == Spec /\ \A p \in Pids : WF_vars(Step(p))
-----------------------------------------------------------------------------
(* Properties.                                                             *)

AtRest == proc[1].kind \in {"prompt", "left"}

\* At the prompt no child is left, running or unreaped, and every end of every
\* pipe is closed, so a long session runs out of neither.
EndsClosed ==
    AtRest => /\ \A p \in Pids \ {1} : proc[p].kind = "free"
              /\ \A x \in Pipes, e \in {"r", "w"} : ~Open(x, e)

\* A program writes into a full pipe that nobody has as its input: the end to
\* read from is kept open on the left of the pipe only (yes | head).
Stuck(p) ==
    /\ proc[p].kind = "prog" /\ proc[p].reads = 0 /\ proc[p].writes > 0
    /\ proc[p].out # 0 /\ level[proc[p].out] = Cap
    /\ \A q \in Pids : Running(q) => proc[q].in # proc[p].out

\* Every line comes back to the prompt, unless a program is stuck so: nobody
\* waits for the end of a pipe that the shell itself keeps open.
Completion == (proc[1].kind = "shell") ~> (AtRest \/ \E p \in Pids : Stuck(p))
=============================================================================
