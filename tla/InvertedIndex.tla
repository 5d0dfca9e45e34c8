--------------------------- MODULE InvertedIndex ---------------------------
(***************************************************************************)
(* What the map-reduce program promises, with no threads: each letter's    *)
(* file is written once, with the right contents.                          *)
(***************************************************************************)
EXTENDS WordIndex

CONSTANT NotWritten
VARIABLE out    \* out[l]: the contents of <l>.txt

Init == out = [l \in Letters |-> NotWritten]

WriteLetter(l) ==
    /\ out[l] = NotWritten
    /\ out'[l] # NotWritten
    /\ out' = [out EXCEPT ![l] = out'[l]]
    /\ IsIndex(l, out'[l])

Next == \E l \in Letters : WriteLetter(l)

Spec == Init /\ [][Next]_out
=============================================================================
