----------------------------- MODULE MCBroker -----------------------------
(***************************************************************************)
(* Two clients, two subscriptions and two topics; the levels are "u", "up",*)
(* which starts with it, and "v".                                          *)
(***************************************************************************)
EXTENDS Broker

MCLevels == {"u", "up", "v"}
MCStartsWith == {<<a, a>> : a \in MCLevels} \cup {<<"u", "up">>}
UpTo3(S) == UNION {[1 .. n -> S] : n \in 1 .. 3}
MCPatterns == UpTo3(MCLevels \cup {"+", "*"})
MCTopics == UpTo3(MCLevels)

MCWanted == {<<"u", "+">>}
MCSent == {<<"up", "v">>}
=============================================================================
