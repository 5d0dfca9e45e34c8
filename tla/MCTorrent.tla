----------------------------- MODULE MCTorrent -----------------------------
(* Small swarms for TLC.  File "a" has two segments, any other file one.   *)
EXTENDS Torrent

MCSegs == [f \in Files |-> IF f = "a" THEN 2 ELSE 1]

\* Rank 1 has both files, rank 2 b; rank 2 wants a, and rank 3 b, then a.
ChainOwn == [c \in Clients |-> CASE c = 1 -> {"a", "b"} [] c = 2 -> {"b"}
                                 [] OTHER -> {}]
ChainWish == [c \in Clients |-> CASE c = 1 -> <<>> [] c = 2 -> <<"a">>
                                  [] OTHER -> <<"b", "a">>]
=============================================================================
