---------------------------- MODULE MCMapReduce ----------------------------
(***************************************************************************)
(* A small alphabet of two letters, 1 and 2, with two characters above it, *)
(* so that two reducers are as many as the counters stand and a third one  *)
(* makes them overflow.                                                    *)
(***************************************************************************)
EXTENDS MapReduce

MCLetterOf == [w \in Words |-> IF w = "za" THEN 2 ELSE 1]
MCRank == [w \in Words |-> CASE w = "ab" -> 1 [] w = "ac" -> 2 [] OTHER -> 3]

\* File 3 is the largest and has all the words; "ac" is in more files than
\* "ab", so that the order by number of files is not the alphabetical one.
MCContents == [f \in FileIds |-> CASE f = 1 -> {"ac"} [] f = 2 -> {"za"}
                                   [] OTHER -> {"ab", "ac", "za"}]
MCSize == [f \in FileIds |-> IF f = 3 THEN 20 ELSE 10]
=============================================================================
