------------------------------ MODULE MCWire ------------------------------
(***************************************************************************)
(* All subscriptions and topics of up to three levels, "u" and "up", which *)
(* starts with it.  A byte has 4 values.                                   *)
(***************************************************************************)
EXTENDS Wire

MCLevels == {"u", "up"}
MCStartsWith == {<<a, a>> : a \in MCLevels} \cup {<<"u", "up">>}
UpTo3(S) == UNION {[1 .. n -> S] : n \in 1 .. 3}
MCPatterns == UpTo3(MCLevels \cup {"+", "*"})
MCTopics == UpTo3(MCLevels)
=============================================================================
