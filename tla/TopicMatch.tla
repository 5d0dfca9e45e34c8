---------------------------- MODULE TopicMatch ----------------------------
(***************************************************************************)
(* check_topic (server.cpp): does a subscription match a topic?  Both are  *)
(* sequences of levels, what stands between two '/'.                       *)
(***************************************************************************)
EXTENDS Integers, Sequences

CONSTANTS
    Levels,     \* the levels of topics
    Plus, Star, \* levels of a subscription that start with '+' and with '*'
    StartsWith,   \* <<a, b>>: level b starts with the text of level a
    Patterns,   \* subscriptions
    Topics      \* topics of datagrams

ASSUME LevelsAssumption ==
    /\ Plus # Star /\ {Plus, Star} \cap Levels = {}
    /\ StartsWith \subseteq Levels \X Levels
    /\ \A a \in Levels : <<a, a>> \in StartsWith
    /\ Patterns \subseteq Seq(Levels \cup {Plus, Star})
    /\ Topics \subseteq Seq(Levels)

\* strncmp over the length of the subscription's level.  The last level still
\* has the line's newline, now a 0, and so is compared to its end.
Fits(p, j, level) ==
    IF j = Len(p) THEN p[j] = level ELSE <<p[j], level>> \in StartsWith

\* A slip check_topic could have: a level that fits leaves star as it was.
BadNextLevel(p, level, s) ==
    LET j == s.j + 1 IN
    IF s.over \/ s.j = Len(p) THEN [s EXCEPT !.over = TRUE]
    ELSE IF p[j] = Plus \/ Fits(p, j, level) THEN [s EXCEPT !.j = j]
    ELSE IF p[j] = Star THEN [s EXCEPT !.j = j, !.star = TRUE]
    ELSE [s EXCEPT !.over = ~s.star]

\* The turn of the loop for one level of the topic, with j levels of p used
\* up.  After a '*' it looks for the first level that fits.  The loop is over
\* before the topic is when p is used up, or when it breaks.
NextLevel(p, level, s) ==
    LET j == s.j + 1 IN
    IF s.over \/ s.j = Len(p) THEN [s EXCEPT !.over = TRUE]
    ELSE IF p[j] = Plus THEN [s EXCEPT !.j = j]
    ELSE IF p[j] = Star THEN [s EXCEPT !.j = j, !.star = TRUE]
    ELSE IF Fits(p, j, level) THEN [s EXCEPT !.j = j, !.star = FALSE]
    ELSE [s EXCEPT !.over = ~s.star]

\* The loop over the levels of topic t, and what it concludes.
Matches(p, t) ==
    LET at[i \in 0 .. Len(t)] ==
            IF i = 0 THEN [j |-> 0, star |-> FALSE, over |-> FALSE]
            ELSE NextLevel(p, t[i], at[i - 1])
        last == at[Len(t)]
    IN  (~last.over /\ last.j = Len(p)) \/ last.star

\* check_topic: some subscription of the list matches.
CheckTopic(t, subscribed) ==
    \E s \in 1 .. Len(subscribed) : Matches(subscribed[s], t)

-----------------------------------------------------------------------------
(* The reference: the levels can be laid side by side, '+' beside one and  *)
(* '*' beside one or more.                                                 *)

Aligned(p, t) ==
    \E cut \in [0 .. Len(p) -> 0 .. Len(t)] :
        /\ cut[0] = 0 /\ cut[Len(p)] = Len(t)
        /\ \A j \in 1 .. Len(p) :
              IF p[j] = Star THEN cut[j] > cut[j - 1]
              ELSE /\ cut[j] = cut[j - 1] + 1
                   /\ p[j] = Plus \/ Fits(p, j, t[cut[j]])

\* The first j levels of p, of which the last is a wildcard after a '*', cover t.
Pending(p, j, t) ==
    /\ \E s \in 1 .. j : p[s] = Star /\ \A k \in s .. j : p[k] \in {Plus, Star}
    /\ Aligned(SubSeq(p, 1, j), t)

(***************************************************************************)
(* check_topic agrees with the reference but in two ways.  A topic that    *)
(* ends while the level after a '*' is still looked for, and is nowhere,   *)
(* matches; and of several places where it fits only the first is tried.   *)
(***************************************************************************)
Agrees(p, t) ==
    /\ Matches(p, t) /\ ~Aligned(p, t) =>
          \E j \in 1 .. Len(p) - 1 :
             /\ Pending(p, j, t)
             /\ \A a \in 1 .. Len(t) :
                   Fits(p, j + 1, t[a]) => ~Pending(p, j, SubSeq(t, 1, a - 1))
    /\ Aligned(p, t) /\ ~Matches(p, t) =>
          \E j \in 1 .. Len(p) - 1, a, b \in 1 .. Len(t) :
             /\ a < b /\ Fits(p, j + 1, t[a]) /\ Fits(p, j + 1, t[b])
             /\ Pending(p, j, SubSeq(t, 1, a - 1))
=============================================================================
