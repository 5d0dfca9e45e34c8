------------------------------- MODULE Swarm -------------------------------
(***************************************************************************)
(* What a BitTorrent-like swarm promises, with no tracker, no slots and no *)
(* messages: a client turns to one client at a time and copies a segment   *)
(* only from that one, which has it and is not itself; it never loses one; *)
(* and it writes out a wished file only when it has every segment.         *)
(* Torrent.tla is shown to implement this module.                          *)
(***************************************************************************)
EXTENDS Naturals

CONSTANTS
    Clients,    \* the ranks that run peer()
    Files,      \* file names
    Segs,       \* number of segments of each file
    Own         \* the files each client has at the start

VARIABLES
    have,       \* have[c][f]: the segments of f that c holds
    output,     \* output[c]: the files c has written to disk
    peer        \* peer[c]: the client that c has turned to, 0 for none yet

vars == <<have, output, peer>>

Segments(f) == 0 .. Segs[f] - 1

Init ==
    /\ have = [c \in Clients |->
                  [f \in Files |-> IF f \in Own[c] THEN Segments(f) ELSE {}]]
    /\ output = [c \in Clients |-> {}]
    /\ peer = [c \in Clients |-> 0]

\* c turns to p, perhaps to itself, which is of no use to it.
TurnTo(c, p) ==
    /\ peer' = [peer EXCEPT ![c] = p]
    /\ UNCHANGED <<have, output>>

\* c copies segment s of f.
Copy(c, f, s) ==
    /\ peer[c] \in Clients \ {c}
    /\ s \in have[peer[c]][f] \ have[c][f]
    /\ have' = [have EXCEPT ![c][f] = @ \cup {s}]
    /\ UNCHANGED <<output, peer>>

\* c writes out file f, which is complete and was not there at the start.
WriteOut(c, f) ==
    /\ have[c][f] = Segments(f)
    /\ f \notin Own[c] \cup output[c]
    /\ output' = [output EXCEPT ![c] = @ \cup {f}]
    /\ UNCHANGED <<have, peer>>

Next ==
    \E c \in Clients :
        \/ \E p \in Clients : TurnTo(c, p)
        \/ \E f \in Files :
              \/ \E s \in Segments(f) : Copy(c, f, s)
              \/ WriteOut(c, f)

Spec == Init /\ [][Next]_vars
=============================================================================
