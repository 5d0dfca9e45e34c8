------------------------------- MODULE Lambda -------------------------------
(***************************************************************************)
(* Lambda.hs, Binding.hs and the loop of main.hs: terms are reduced step   *)
(* by step, to a normal form or for ever, with macros bound by earlier     *)
(* lines. A term is <<"var", x>>, <<"macro", m>>, <<"app", e1, e2>> or     *)
(* <<"abs", x, e>>; Haskell stops where a pattern is missing.              *)
(***************************************************************************)
EXTENDS Integers, Sequences, FiniteSets, SequencesExt

CONSTANTS
    Alphabet,   \* the names that newVar tries, as many as can be needed
    Evals,      \* terms that are typed,
    Macros,     \* names and terms that they are bound to
    Bindings,
    defaultContext,
    MaxSteps    \* bound on the steps of one term

VARIABLES
    ctx,        \* the term of every macro, <<>> for none
    step,       \* "normal" or "applicative"
    state,      \* "prompt", "reducing", "hangs" in newVar for ever, "died"
    term,       \* the term being reduced
    steps       \* how often it was

vars == <<ctx, step, state, term, steps>>

NoTerm == <<"var", "x">>

\* The interpreter takes normalCtx; applicativeCtx is there as well.
Init ==
    /\ ctx = defaultContext /\ step \in {"normal", "applicative"}
    /\ state = "prompt" /\ term = NoTerm /\ steps = 0

-----------------------------------------------------------------------------
RECURSIVE freeVars(_)
freeVars(e) ==
    CASE e[1] = "var" -> {e[2]}
      [] e[1] = "app" -> freeVars(e[2]) \cup freeVars(e[3])
      [] e[1] = "abs" -> freeVars(e[3]) \ {e[2]}

\* The first name that is not taken.
newVar(taken) == Alphabet[SelectInSeq(Alphabet, LAMBDA x : x \notin taken)]

RECURSIVE isNormalForm(_)
isNormalForm(e) ==
    CASE e[1] = "var" -> TRUE
      [] e[1] = "app" -> e[2][1] # "abs" /\ isNormalForm(e[2]) /\ isNormalForm(e[3])
      [] e[1] = "abs" -> isNormalForm(e[3])

\* Every occurrence of a name changed, also where it is bound.
RECURSIVE changeVar(_, _, _)
changeVar(e, old, new) ==
    LET Name(x) == IF x = old THEN new ELSE x
    IN  CASE e[1] = "var" -> <<"var", Name(e[2])>>
          [] e[1] = "app" -> <<"app", changeVar(e[2], old, new), changeVar(e[3], old, new)>>
          [] e[1] = "abs" -> <<"abs", Name(e[2]), changeVar(e[3], old, new)>>

\* A slip reduce could have: only the name itself is looked for.
BadCaught(x, name, e) == x = name /\ x \in freeVars(e)
\* Whether the binder x would catch a variable of e.
Caught(x, name, e) == x \in freeVars(e)

\* reduce gives the abstraction another name again and again; if it comes
\* back to one that it had, it never ends.
Hang == <<"hang">>
RECURSIVE Renamed(_, _, _, _)
Renamed(abs, name, e, had) ==
    LET new == newVar(freeVars(abs[3]))
    IN  IF ~Caught(abs[2], name, e) THEN abs
        ELSE IF new \in had THEN Hang
        ELSE Renamed(changeVar(abs, abs[2], new), name, e, had \cup {new})

RECURSIVE Hangs(_)
Hangs(e) == \/ e[1] = "hang"
            \/ e[1] = "app" /\ (Hangs(e[2]) \/ Hangs(e[3]))
            \/ e[1] = "abs" /\ Hangs(e[3])

\* e1 with e2 for name.
RECURSIVE reduce(_, _, _)
reduce(name, e1, e2) ==
    CASE e1[1] = "var" -> IF e1[2] = name THEN e2 ELSE e1
      [] e1[1] = "app" -> <<"app", reduce(name, e1[2], e2), reduce(name, e1[3], e2)>>
      [] e1[1] = "abs" ->
            LET abs == Renamed(e1, name, e2, {e1[2]})
            IN  IF abs = Hang \/ abs[2] = name THEN abs
                ELSE <<"abs", abs[2], reduce(name, abs[3], e2)>>

\* normalStep and applicativeStep, which differ in the argument of a redex.
RECURSIVE Step(_, _)
Step(by, e) ==
    CASE e[1] = "var" -> e
      [] e[1] = "abs" -> <<"abs", e[2], Step(by, e[3])>>
      [] e[1] = "app" ->
            IF e[2][1] = "abs" /\ (by = "normal" \/ isNormalForm(e[3]))
            THEN reduce(e[2][2], e[2][3], e[3])
            ELSE IF e[2][1] = "abs" \/ isNormalForm(e[2])
            THEN <<"app", e[2], Step(by, e[3])>>
            ELSE <<"app", Step(by, e[2]), e[3]>>

-----------------------------------------------------------------------------
RECURSIVE MacrosOf(_)
MacrosOf(e) == CASE e[1] = "macro" -> {e[2]}
                 [] e[1] = "app" -> MacrosOf(e[2]) \cup MacrosOf(e[3])
                 [] e[1] = "abs" -> MacrosOf(e[3])
                 [] OTHER -> {}

\* Macros become what they are bound to, and that stays as it is.
RECURSIVE changeMacro(_)
changeMacro(e) ==
    CASE e[1] = "macro" -> ctx[e[2]]
      [] e[1] = "app" -> <<"app", changeMacro(e[2]), changeMacro(e[3])>>
      [] e[1] = "abs" -> <<"abs", e[2], changeMacro(e[3])>>
      [] OTHER -> e

Bind(m, e) ==
    /\ state = "prompt"
    /\ ctx' = [ctx EXCEPT ![m] = e]
    /\ UNCHANGED <<step, state, term, steps>>

\* The command :r.
Restore ==
    /\ state = "prompt" /\ ctx' = defaultContext
    /\ UNCHANGED <<step, state, term, steps>>

\* An unbound macro gives an error; isNormalForm has no case for the macros
\* that are left after changeMacro.
Eval(e) ==
    /\ state = "prompt" /\ \A m \in MacrosOf(e) : ctx[m] # <<>>
    /\ term' = changeMacro(e) /\ steps' = 0
    /\ state' = IF MacrosOf(changeMacro(e)) = {} THEN "reducing" ELSE "died"
    /\ UNCHANGED <<ctx, step>>

\* aux_simplify.
Reduce ==
    /\ state = "reducing" /\ ~isNormalForm(term) /\ steps < MaxSteps
    /\ term' = Step(step, term) /\ steps' = steps + 1
    /\ state' = IF Hangs(Step(step, term)) THEN "hangs" ELSE "reducing"
    /\ UNCHANGED <<ctx, step>>

\* The steps are printed and the prompt comes back.
Show ==
    /\ state = "reducing" /\ isNormalForm(term)
    /\ state' = "prompt" /\ term' = NoTerm /\ steps' = 0
    /\ UNCHANGED <<ctx, step>>

Next ==
    \/ \E m \in Macros, e \in Bindings : Bind(m, e)
    \/ \E e \in Evals : Eval(e)
    \/ Restore \/ Reduce \/ Show

Spec == Init /\ [][Next]_vars

-----------------------------------------------------------------------------
(* Terms without names for what is bound, and beta reduction on them.      *)

RECURSIVE Nameless(_, _)
Nameless(e, binders) ==
    CASE e[1] = "var" ->
            LET n == SelectInSeq(binders, LAMBDA x : x = e[2])
            IN  IF n = 0 THEN <<"free", e[2]>> ELSE <<"bound", n>>
      [] e[1] = "app" -> <<"app", Nameless(e[2], binders), Nameless(e[3], binders)>>
      [] e[1] = "abs" -> <<"abs", Nameless(e[3], <<e[2]>> \o binders)>>

\* e with the indices from n on moved by k.
RECURSIVE Moved(_, _, _)
Moved(e, n, k) ==
    CASE e[1] = "bound" -> IF e[2] >= n THEN <<"bound", e[2] + k>> ELSE e
      [] e[1] = "free"  -> e
      [] e[1] = "app"   -> <<"app", Moved(e[2], n, k), Moved(e[3], n, k)>>
      [] e[1] = "abs"   -> <<"abs", Moved(e[2], n + 1, k)>>

RECURSIVE With(_, _, _)
With(e, n, a) ==
    CASE e[1] = "bound" -> IF e[2] = n THEN Moved(a, 1, n - 1)
                           ELSE IF e[2] > n THEN <<"bound", e[2] - 1>> ELSE e
      [] e[1] = "free"  -> e
      [] e[1] = "app"   -> <<"app", With(e[2], n, a), With(e[3], n, a)>>
      [] e[1] = "abs"   -> <<"abs", With(e[2], n + 1, a)>>

\* What one step of beta reduction anywhere in e can give.
RECURSIVE Reducts(_)
Reducts(e) ==
    CASE e[1] \in {"bound", "free"} -> {}
      [] e[1] = "abs" -> {<<"abs", f>> : f \in Reducts(e[2])}
      [] e[1] = "app" ->
            {<<"app", f, e[3]>> : f \in Reducts(e[2])}
            \cup {<<"app", e[2], f>> : f \in Reducts(e[3])}
            \cup IF e[2][1] = "abs" THEN {With(e[2][2], 1, e[3])} ELSE {}

RECURSIVE Names(_)
Names(e) == IF e[1] = "app" THEN Names(e[2]) \cup Names(e[3])
            ELSE {e[2]} \cup IF e[1] = "abs" THEN Names(e[3]) ELSE {}

RECURSIVE Bodies(_)
Bodies(e) == CASE e[1] = "app" -> Bodies(e[2]) \cup Bodies(e[3])
               [] e[1] = "abs" -> {e[3]} \cup Bodies(e[3])
               [] OTHER -> {}

\* Each step of either strategy is a step of beta reduction, whatever names
\* meet, and no renaming goes on for ever, as long as what newVar gives, which
\* looks at the free variables of one body alone, is new to the whole term.
Sound ==
    [][Reduce /\ (\A body \in Bodies(term) : newVar(freeVars(body)) \notin Names(term)) =>
          /\ state' # "hangs"
          /\ Nameless(term', <<>>) \in Reducts(Nameless(term, <<>>))]_vars
=============================================================================
