------------------------------- MODULE Router -------------------------------
(***************************************************************************)
(* Router Implementation/router.c.  One loop receives a frame and handles  *)
(* it to the end, so that each kind of frame is one action.  A packet      *)
(* whose next hop has no known MAC address waits in one queue for all next *)
(* hops while an ARP request for it is on the wire; an ARP reply releases  *)
(* the head of that queue.                                                 *)
(*                                                                         *)
(* The links may delay, reorder and lose ARP messages, and a host may send *)
(* a reply that nobody asked for.  A host's name stands for its IP address *)
(* and for its MAC address.  Masks are contiguous: their order as integers *)
(* is that of their lengths, in network byte order too.                    *)
(***************************************************************************)
EXTENDS Integers, Sequences, FiniteSets

CONSTANTS
    Hosts,          \* the neighbours: next hops, and senders of ARP requests
    RouterIp,       \* RouterIp[i]: get_interface_ip(i), as a packet's address
    Own,            \* the same as the target of an ARP request, and its MAC
    Unset,          \* the target MAC of an ARP request, which is not known
    Bits,           \* width of an address, 32 in the code
    RTable,         \* rtable: records [prefix, len, hop]
    Before,         \* length of the longest mask that is not above the word
                    \* in memory that rtable[-1].mask reads (16 with glibc on
                    \* 64 bits: the size field of malloc's chunk)
    Word,           \* UINT16_MAX
    Packets,        \* records [id, in, dst, ttl, rest, check]
    MaxReceived,    \* bound: packets received
    Questions,      \* records [src, ip]: ARP requests that hosts send
    MaxLost,        \* bound: ARP messages lost
    Announcers      \* hosts that send a reply nobody asked for

\* struct route_table_entry
Route == [prefix : Nat, len : 0 .. Bits, hop : Hosts]

ASSUME RouterAssumption ==
    /\ Bits \in Nat /\ Word \in Nat \ {0} /\ Before \in 0 .. Bits
    /\ RTable \in Seq(Route)
    /\ IsFiniteSet(Packets)
    /\ \A p \in Packets : p.dst \in Nat /\ p.in \in DOMAIN RouterIp
                          /\ p.ttl \in Nat /\ p.rest \in Nat \ {0}
                          /\ p.check \in 0 .. Word
    /\ Questions \subseteq [src : Hosts, ip : Hosts \cup {Own}]
    /\ Announcers \subseteq Hosts /\ IsFiniteSet(Announcers)
    /\ MaxLost \in Nat /\ MaxReceived \in Nat

VARIABLES
    arp,        \* mac_entry: records [ip, mac]
    que,        \* que: the packets that wait, their TTL already decremented
    \* the links
    arriving,   \* packets not yet received
    requests,   \* packets whose ARP request is on the wire
    replies,    \* packets whose ARP request was answered, the answer on the wire
    lost,       \* packets whose ARP request or answer was lost
    asking,     \* requests of hosts not yet received
    announcing, \* unasked replies not yet received
    answers,    \* the router's replies to hosts
    sent,       \* packets forwarded: records [pkt, mac]
    returned,   \* ICMP messages: records [pkt, type]
    \* history
    mixed       \* a packet was queued behind one for another next hop

links == <<arriving, requests, replies, lost, asking, announcing, answers,
           sent, returned>>
vars == <<arp, que, links, mixed>>

-----------------------------------------------------------------------------
(* The header *)

\* The one's complement sum of words with the sum n, not all of them zero.
OnesSum(n) == ((n - 1) % Word) + 1

\* checksum(): of a header with that TTL, whose other words have the sum rest.
Checksum(ttl, rest) == Word - OnesSum(ttl + rest)

\* The comparison at line 200.
Verified(p) == p.check = Checksum(p.ttl, p.rest)

\* Line 225, in the int arithmetic of C, stored in 16 bits; n is the new TTL.
Not(x) == -x - 1
BadNewCheck(check, n) == check
NewCheck(check, n) == (Not(Not(check) + Not(n + 1) + n) - 1) % (Word + 1)

-----------------------------------------------------------------------------
(* Routes and MAC addresses *)

\* ip & mask, for a mask of n ones.
Masked(ip, n) == ip - (ip % 2^(Bits - n))
Matches(ip, e) == Masked(ip, e.len) = e.prefix

\* get_best_route: the best index after i entries, 0 for none.  The comparison
\* with the best so far reads rtable[-1] as long as there is none.
LenAt(i) == IF i = 0 THEN Before ELSE RTable[i].len
BadBetter(ip, i, best) == Matches(ip, RTable[i])
Better(ip, i, best) == Matches(ip, RTable[i]) /\ RTable[i].len > LenAt(best)
Scan(ip) ==
    LET idx[i \in 0 .. Len(RTable)] ==
            IF i = 0 THEN 0
            ELSE IF Better(ip, i, idx[i - 1]) THEN i ELSE idx[i - 1]
    IN  idx
BestRoute(ip) == Scan(ip)[Len(RTable)]

Hop(p) == RTable[BestRoute(p.dst)].hop

\* get_mac_entry: the first entry for ip, or none.
Known(ip) == \E i \in 1 .. Len(arp) : arp[i].ip = ip
BadMacOf(ip) == arp[Len(arp)].mac
MacOf(ip) == arp[CHOOSE i \in 1 .. Len(arp) :
                    arp[i].ip = ip /\ \A j \in 1 .. i - 1 : arp[j].ip # ip].mac

\* The entry for the sender of a reply that releases packet p.
BadEntry(p, h) == [ip |-> Hop(p), mac |-> h]
Entry(p, h) == [ip |-> h, mac |-> h]

\* queue_deq
BadRest(q) == q
Rest(q) == Tail(q)

\* ip_hdr->daddr == inet_addr(get_interface_ip(interface))
ForRouter(p) == p.dst = RouterIp[p.in]

-----------------------------------------------------------------------------
Init ==
    /\ arp = <<>>
    /\ que = <<>>
    /\ arriving = Packets
    /\ requests = {}
    /\ replies = {}
    /\ lost = {}
    /\ asking = Questions
    /\ announcing = Announcers
    /\ answers = {}
    /\ sent = {}
    /\ returned = {}
    /\ mixed = FALSE

-----------------------------------------------------------------------------
(* ip_request.  The test of the destination MAC at line 291 is never true,  *)
(* so that every IP packet comes here.                                      *)

Receive(p) ==
    /\ p \in arriving
    /\ Cardinality(Packets \ arriving) < MaxReceived
    /\ arriving' = arriving \ {p}

\* A wrong checksum.
Drop(p) ==
    /\ Receive(p)
    /\ ~Verified(p)
    /\ UNCHANGED <<arp, que, requests, replies, lost, asking, announcing,
                   answers, sent, returned, mixed>>

\* icmp_custom_reply: back over the interface it came from.
Icmp(p, type) == [pkt |-> p, type |-> type]

\* An echo reply (0), "unreachable" (3) or "time exceeded" (11).
Return(p) ==
    /\ Receive(p)
    /\ Verified(p)
    /\ \/ /\ ForRouter(p)
          /\ returned' = returned \cup {Icmp(p, 0)}
       \/ /\ ~ForRouter(p) /\ BestRoute(p.dst) = 0
          /\ returned' = returned \cup {Icmp(p, 3)}
       \/ /\ ~ForRouter(p) /\ BestRoute(p.dst) # 0 /\ p.ttl <= 1
          /\ returned' = returned \cup {Icmp(p, 11)}
    /\ UNCHANGED <<arp, que, requests, replies, lost, asking, announcing,
                   answers, sent, mixed>>

Routed(p) == Verified(p) /\ ~ForRouter(p) /\ BestRoute(p.dst) # 0 /\ p.ttl > 1

\* The next hop's MAC is known.
Forward(p) ==
    /\ Receive(p)
    /\ Routed(p)
    /\ Known(Hop(p))
    /\ sent' = sent \cup {[pkt |-> p, mac |-> MacOf(Hop(p))]}
    /\ UNCHANGED <<arp, que, requests, replies, lost, asking, announcing,
                   answers, returned, mixed>>

\* It is not: queue_enq and create_arp_request, also if one for that next
\* hop is on the wire already.
BadAsked(p) == IF \E i \in 1 .. Len(que) : Hop(que[i]) = Hop(p)
               THEN requests ELSE requests \cup {p}
Asked(p) == requests \cup {p}

Enqueue(p) ==
    /\ Receive(p)
    /\ Routed(p)
    /\ ~Known(Hop(p))
    /\ que' = Append(que, p)
    /\ requests' = Asked(p)
    /\ mixed' = (mixed \/ \E i \in 1 .. Len(que) : Hop(que[i]) # Hop(p))
    /\ UNCHANGED <<arp, replies, lost, asking, announcing, answers, sent,
                   returned>>

-----------------------------------------------------------------------------
(* arp_reply *)

(***************************************************************************)
(* A reply from h: continue_after_arp.  With an empty queue nothing        *)
(* happens; otherwise h enters the table, as a second entry perhaps, and   *)
(* the packet that waits longest leaves for h, whoever it was queued for.  *)
(***************************************************************************)
Continue(h) ==
    IF que = <<>>
    THEN UNCHANGED <<arp, que, sent>>
    ELSE /\ arp' = Append(arp, Entry(Head(que), h))
         /\ sent' = sent \cup {[pkt |-> Head(que), mac |-> h]}
         /\ que' = Rest(que)

\* The answer to the request that was sent for packet p.
ReceiveReply(p) ==
    /\ p \in replies
    /\ replies' = replies \ {p}
    /\ Continue(Hop(p))
    /\ UNCHANGED <<arriving, requests, lost, asking, announcing, answers,
                   returned, mixed>>

\* A reply that nobody asked for.
ReceiveAnnouncement(h) ==
    /\ h \in announcing
    /\ announcing' = announcing \ {h}
    /\ Continue(h)
    /\ UNCHANGED <<arriving, requests, replies, lost, asking, answers,
                   returned, mixed>>

(***************************************************************************)
(* A request, for whatever address: the address that is asked for enters   *)
(* the table with the MAC of the host that asks, if it is not there, and   *)
(* the request goes back as a reply, its MAC addresses exchanged.          *)
(***************************************************************************)
ReceiveRequest(q) ==
    /\ q \in asking
    /\ asking' = asking \ {q}
    /\ arp' = IF Known(q.ip) THEN arp
              ELSE Append(arp, [ip |-> q.ip, mac |-> q.src])
    /\ answers' = answers \cup {[dst |-> q.src, ip |-> q.ip, mac |-> Unset]}
    /\ UNCHANGED <<que, arriving, requests, replies, lost, announcing, sent,
                   returned, mixed>>

-----------------------------------------------------------------------------
(* The neighbours and the links *)

Answer(p) ==
    /\ p \in requests
    /\ requests' = requests \ {p}
    /\ replies' = replies \cup {p}
    /\ UNCHANGED <<arp, que, arriving, lost, asking, announcing, answers,
                   sent, returned, mixed>>

Lose(p) ==
    /\ p \in requests \cup replies
    /\ Cardinality(lost) < MaxLost
    /\ requests' = requests \ {p}
    /\ replies' = replies \ {p}
    /\ lost' = lost \cup {p}
    /\ UNCHANGED <<arp, que, arriving, asking, announcing, answers, sent,
                   returned, mixed>>

-----------------------------------------------------------------------------
Packet(p) == Drop(p) \/ Return(p) \/ Forward(p) \/ Enqueue(p)

Next ==
    \/ \E p \in Packets : Packet(p) \/ ReceiveReply(p) \/ Answer(p) \/ Lose(p)
    \/ \E h \in Announcers : ReceiveAnnouncement(h)
    \/ \E q \in Questions : ReceiveRequest(q)

Spec == Init /\ [][Next]_vars

\* A neighbour answers a request, and the loop takes what has arrived.
FairSpec ==
    /\ Spec
    /\ \A p \in Packets : WF_vars(Answer(p)) /\ WF_vars(ReceiveReply(p))

-----------------------------------------------------------------------------
(* Properties *)

TypeOK ==
    /\ arp \in Seq([ip : Hosts \cup {Own}, mac : Hosts])
    /\ que \in Seq(Packets)
    /\ arriving \subseteq Packets
    /\ requests \subseteq Packets
    /\ replies \subseteq Packets
    /\ lost \subseteq Packets
    /\ asking \subseteq Questions
    /\ announcing \subseteq Announcers
    /\ answers \subseteq [dst : Hosts, ip : Hosts \cup {Own}, mac : {Unset}]
    /\ sent \subseteq [pkt : Packets, mac : Hosts]
    /\ returned \subseteq [pkt : Packets, type : {0, 3, 11}]
    /\ mixed \in BOOLEAN

Queued == {que[i] : i \in 1 .. Len(que)}
SentPackets == {f.pkt : f \in sent}
ReturnedPackets == {r.pkt : r \in returned}

(***************************************************************************)
(* A packet that was received and is a good one is in exactly one place:   *)
(* once in the queue, or forwarded to one neighbour, or answered by one    *)
(* ICMP message, through every order of packets and ARP messages.          *)
(***************************************************************************)
OnePlace ==
    /\ {p \in Packets \ arriving : Verified(p)} =
          Queued \cup SentPackets \cup ReturnedPackets
    /\ Queued \cap SentPackets = {}
    /\ (Queued \cup SentPackets) \cap ReturnedPackets = {}
    /\ Cardinality(Queued) = Len(que)
    /\ Cardinality(sent) = Cardinality(SentPackets)
    /\ Cardinality(returned) = Cardinality(ReturnedPackets)

(***************************************************************************)
(* The queue is never longer than the number of replies that may still     *)
(* come and of those that were lost: a packet stays behind for good only   *)
(* through a loss.  The two differ by at most the unasked replies.         *)
(***************************************************************************)
Outstanding == Cardinality(requests \cup replies \cup lost)
QueueAccounting ==
    /\ Len(que) <= Outstanding
    /\ Outstanding <= Len(que) + Cardinality(Announcers \ announcing)

(***************************************************************************)
(* An entry of the table that has the MAC of another host than the one it  *)
(* is for comes from a request of that other host, which asked for it: the *)
(* table itself stays right when replies release packets of other hops.    *)
(***************************************************************************)
LearnedRight ==
    \A i \in 1 .. Len(arp) :
        arp[i].mac = arp[i].ip
          \/ [src |-> arp[i].mac, ip |-> arp[i].ip] \in Questions \ asking

(***************************************************************************)
(* A packet goes to another host than its next hop only after packets for  *)
(* different next hops were in the queue together, after an unasked reply, *)
(* or after a host asked for that next hop itself; losses alone, with one  *)
(* next hop waited for, misdirect nothing.                                 *)
(***************************************************************************)
Overheard(h) == \E q \in Questions \ asking : q.ip = h
Disturbed(h) == mixed \/ announcing # Announcers \/ Overheard(h)
MisdirectedOnlyIf ==
    \A f \in sent : f.mac # Hop(f.pkt) => Disturbed(Hop(f.pkt))

(***************************************************************************)
(* The route of what is queued or forwarded is a match of greatest length, *)
(* the first of several; and "unreachable" is answered only if every match *)
(* is no longer than Before, so that rtable[-1] decides.                   *)
(***************************************************************************)
MatchesOf(p) == {i \in 1 .. Len(RTable) : Matches(p.dst, RTable[i])}
LongestMatch ==
    /\ \A p \in Queued \cup SentPackets :
          \E i \in MatchesOf(p) :
             /\ Hop(p) = RTable[i].hop
             /\ \A j \in MatchesOf(p) :
                   \/ RTable[j].len < RTable[i].len
                   \/ RTable[j].len = RTable[i].len /\ i <= j
    /\ \A r \in returned :
          r.type = 3 => \A i \in MatchesOf(r.pkt) : RTable[i].len <= Before

(***************************************************************************)
(* What is forwarded passes the next router's verification, unless its     *)
(* checksum, in the byte order of line 225, was Word - 1 on arrival: then  *)
(* it becomes Word, the other zero of the one's complement.                *)
(***************************************************************************)
CheckKept ==
    \A p \in SentPackets :
        NewCheck(p.check, p.ttl - 1) = Checksum(p.ttl - 1, p.rest)
          <=> p.check # Word - 1

\* As long as no ARP message is lost, the queue is empty again and again: every
\* packet leaves.
Drained == []<>(que = <<>> \/ lost # {})

\* The comment of ip_request at line 192: "responds to ip message, and sends it to next hop".
SentToNextHop == \A f \in sent : f.mac = Hop(f.pkt)

=============================================================================
