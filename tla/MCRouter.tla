------------------------------ MODULE MCRouter ------------------------------
(* Small routing tables and packets for Router.tla. *)
EXTENDS Router

CONSTANTS a, b

MCRouterIp == [i \in {0, 1} |-> i]

\* A default route, a short one, and longer ones of which two are the same.
MCRTable ==
    << [prefix |-> 0, len |-> 0, hop |-> a],
       [prefix |-> 4, len |-> 2, hop |-> a],
       [prefix |-> 8, len |-> 3, hop |-> a],
       [prefix |-> 8, len |-> 4, hop |-> b],
       [prefix |-> 8, len |-> 3, hop |-> b],
       [prefix |-> 12, len |-> 3, hop |-> b] >>

Good(n, dst, ttl, rest) ==
    [id |-> n, in |-> 0, dst |-> dst, ttl |-> ttl, rest |-> rest,
     check |-> Checksum(ttl, rest)]

\* Two for a, two for b, one of each with the checksum at the edge.
TwoHops == {Good(1, 9, 3, 4), Good(2, 9, 4, Word - 3),
            Good(3, 8, 5, 1), Good(4, 12, 2, Word - 1)}

\* A wrong checksum, one for the router, no usable route, an expired TTL.
Others == {[Good(5, 9, 3, 4) EXCEPT !.check = (@ + 1) % Word],
           Good(6, 0, 3, 2), Good(7, 5, 3, 2), Good(8, 8, 1, 2)}

AllPackets == TwoHops \cup Others

\* Both hosts ask for the router, or one of them for the other.
ForTheRouter == {[src |-> a, ip |-> Own], [src |-> b, ip |-> Own]}
ForAnother == {[src |-> b, ip |-> a]}
=============================================================================
