------------------------------ MODULE MCLambda ------------------------------
(***************************************************************************)
(* All terms of depth three over two names, some with the name that newVar *)
(* tries first, and some with macros.                                      *)
(***************************************************************************)
EXTENDS Lambda

Var(x) == <<"var", x>>
App(e1, e2) == <<"app", e1, e2>>
Abs(x, e) == <<"abs", x, e>>

Larger(S) == S \cup {App(e1, e2) : e1 \in S, e2 \in S} \cup {Abs(x, e) : x \in {"x", "y"}, e \in S}
Small == Larger({Var("x"), Var("y")})
M(m) == <<"macro", m>>

TheEvals ==
    Larger(Larger(Small))
    \cup {App(Abs("x", Abs("y", App(Var("x"), Var("y")))), App(Var("a"), Var("y"))),
          App(Abs("x", Abs("y", Var("x"))), App(Var("a"), Var("y"))),
          App(Abs("x", Abs("y", Abs("a", App(Var("x"), Var("y"))))), Var("y")),
          App(M("A"), Var("y")), App(App(M("A"), Var("y")), M("A")), M("A"), App(M("B"), M("A"))}
TheMacros == {"A", "B"}
TheBindings == {App(M("A"), Var("x"))}
TheContext == [m \in TheMacros |-> IF m = "A" THEN Abs("x", Abs("y", Var("x"))) ELSE <<>>]
TheAlphabet == <<"a", "b", "c", "d", "e">>
=============================================================================
