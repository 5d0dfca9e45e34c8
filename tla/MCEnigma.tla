------------------------------ MODULE MCEnigma ------------------------------
(* Four letters, two wirings, settings and notches that meet, and a text   *)
(* long enough for every rotor to step.                                    *)
EXTENDS Enigma, TLC

Row(a, b, c, d) == (0 :> a) @@ (1 :> b) @@ (2 :> c) @@ (3 :> d)
Three(a, b, c) == (0 :> a) @@ (1 :> b) @@ (2 :> c)
InOrder == Row(0, 1, 2, 3)

TheWirings ==
    { (0 :> InOrder) @@ (1 :> Row(1, 3, 0, 2)) @@ (2 :> InOrder) @@ (3 :> Row(2, 0, 1, 3))
      @@ (4 :> InOrder) @@ (5 :> Row(3, 1, 0, 2)) @@ (6 :> InOrder) @@ (7 :> Row(1, 0, 3, 2))
      @@ (8 :> InOrder) @@ (9 :> Row(3, 1, 2, 0)),
      (0 :> Row(2, 1, 3, 0)) @@ (1 :> Row(0, 3, 1, 2)) @@ (2 :> Row(3, 2, 1, 0))
      @@ (3 :> Row(0, 2, 1, 3)) @@ (4 :> Row(1, 2, 3, 0)) @@ (5 :> Row(2, 0, 3, 1))
      @@ (6 :> Row(3, 0, 1, 2)) @@ (7 :> Row(1, 2, 3, 0)) @@ (8 :> Row(1, 3, 2, 0)) @@ (9 :> InOrder) }
TheKeys == { Three(0, 0, 0), Three(1, 2, 3), Three(3, 1, 0), Three(2, 3, 3) }
ThePlains == { <<0, 0, 1, 2, 3, 3>>, <<3>> }
=============================================================================
