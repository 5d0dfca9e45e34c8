---------------------------- MODULE RouterProofs ----------------------------
(***************************************************************************)
(* Theorems about Router.tla, for any hosts, routing table, packets, word  *)
(* size and bounds.                                                        *)
(***************************************************************************)
EXTENDS Router, FiniteSetTheorems, WellFoundedInduction, TLAPS

(***************************************************************************)
(* Arithmetic                                                              *)
(***************************************************************************)

\* A set of positive integers up to n has a least element, if it has any.
LEMMA LeastElement ==
  ASSUME NEW n \in Nat, NEW S \in SUBSET (1 .. n), S # {}
  PROVE  \E i \in S : \A j \in S : i <= j
<1> DEFINE T == {1 .. i : i \in S}
<1>1. T # {} /\ T \subseteq FiniteSubsetsOf(1 .. n)
  <2>1. \A i \in S : 1 .. i \subseteq 1 .. n /\ IsFiniteSet(1 .. i)
    BY FS_Interval
  <2> QED
    BY <2>1 DEF FiniteSubsetsOf
<1>2. IsWellFoundedOn(StrictSubsetOrdering(1 .. n), FiniteSubsetsOf(1 .. n))
  BY FS_StrictSubsetOrderingWellFounded
<1>3. \E x \in T : \A y \in T : <<y, x>> \notin StrictSubsetOrdering(1 .. n)
  <2> HIDE DEF T
  <2> QED
    BY <1>1, <1>2, WFMin
<1>4. PICK i \in S :
        \A j \in S : <<1 .. j, 1 .. i>> \notin StrictSubsetOrdering(1 .. n)
  BY <1>3
<1>5. ASSUME NEW j \in S, j < i PROVE FALSE
  <2>1. 1 .. j \subseteq 1 .. i /\ 1 .. i # 1 .. j
    <3>1. i \in 1 .. i /\ i \notin 1 .. j
      BY <1>5
    <3>2. \A k \in 1 .. j : k \in 1 .. i
      BY <1>5
    <3> QED
      BY <3>1, <3>2
  <2>2. 1 .. j \subseteq 1 .. n /\ 1 .. i \subseteq 1 .. n
    OBVIOUS
  <2> QED
    BY <1>4, <2>1, <2>2 DEF StrictSubsetOrdering
<1> QED
  BY <1>5

\* There is a function that satisfies the recursion of get_best_route.
LEMMA ScanEquation ==
  ASSUME NEW ip
  PROVE  Scan(ip) = [i \in 0 .. Len(RTable) |->
                        IF i = 0 THEN 0
                        ELSE IF Better(ip, i, Scan(ip)[i - 1])
                             THEN i ELSE Scan(ip)[i - 1]]
<1> DEFINE Def(f, i) == IF i = 0 THEN 0
                        ELSE IF Better(ip, i, f[i - 1]) THEN i ELSE f[i - 1]
           Is(f, n) == f = [i \in 0 .. n |-> Def(f, i)]
<1> DEFINE N == Len(RTable)
           Bad == {n \in 1 .. N : ~ \E f : Is(f, n)}
<1>1. N \in Nat
  BY RouterAssumption
<1> HIDE DEF N
<1>2. \E f : Is(f, 0)
  <2>1. Is([i \in 0 .. 0 |-> 0], 0)
    OBVIOUS
  <2> QED
    BY <2>1
<1>3. ASSUME NEW n \in 1 .. N, \E f : Is(f, n - 1) PROVE \E f : Is(f, n)
  <2>1. PICK f : Is(f, n - 1)
    BY <1>3
  <2> DEFINE g == [i \in 0 .. n |-> IF i = n THEN Def(f, n) ELSE f[i]]
  <2>2. \A i \in 0 .. n - 1 : g[i] = f[i] /\ f[i] = Def(f, i)
    BY <2>1
  <2>3. ASSUME NEW i \in 0 .. n PROVE g[i] = Def(g, i)
    <3>1. i # 0 => i - 1 \in 0 .. n - 1 /\ g[i - 1] = f[i - 1]
      BY <2>2
    <3>2. Def(g, i) = Def(f, i)
      BY <3>1
    <3>3. g[i] = Def(f, i)
      <4> HIDE DEF Def
      <4>1. CASE i = n
        BY <4>1
      <4>2. CASE i # n
        <5>1. i \in 0 .. n - 1
          BY <4>2
        <5> QED
          BY <2>2, <5>1
      <4> QED
        BY <4>1, <4>2
    <3> QED
      BY <3>2, <3>3
  <2>4. Is(g, n)
    <3> HIDE DEF Def
    <3>1. g = [i \in 0 .. n |-> g[i]]
      OBVIOUS
    <3> QED
      BY <2>3, <3>1
  <2> QED
    BY <2>4
<1>4. Bad = {}
  <2> SUFFICES ASSUME Bad # {} PROVE FALSE
    OBVIOUS
  <2>1. Bad \subseteq 1 .. N
    OBVIOUS
  <2> HIDE DEF Bad
  <2>2. PICK n \in Bad : \A m \in Bad : n <= m
    BY <1>1, <2>1, LeastElement
  <2>3. n \in 1 .. N /\ n - 1 \notin Bad
    BY <2>1, <2>2
  <2> USE DEF Bad
  <2> HIDE DEF Is
  <2>4. \E f : Is(f, n - 1)
    <3>1. CASE n = 1
      BY <1>2, <3>1
    <3>2. CASE n # 1
      <4>1. n - 1 \in 1 .. N
        BY <1>1, <2>3, <3>2
      <4> QED
        BY <2>3, <4>1
    <3> QED
      BY <3>1, <3>2
  <2> QED
    BY <1>3, <2>2, <2>3, <2>4
<1>5. \E f : Is(f, N)
  <2> HIDE DEF Is
  <2>1. CASE N = 0
    BY <1>2, <2>1
  <2>2. CASE N # 0
    <3>1. N \in 1 .. N
      BY <1>1, <2>2
    <3> QED
      BY <1>4, <3>1
  <2> QED
    BY <2>1, <2>2
<1> QED
  BY <1>5 DEF Scan, N

\* The best index after n entries: a match longer than Before if there is one,
\* the longest of them, the first of the longest.
BestOf(ip, n, b) ==
    /\ b \in 0 .. n
    /\ b # 0 => Matches(ip, RTable[b]) /\ RTable[b].len > Before
    /\ \A j \in 1 .. n :
          Matches(ip, RTable[j]) /\ RTable[j].len > Before =>
             /\ b # 0
             /\ \/ RTable[j].len < RTable[b].len
                \/ RTable[j].len = RTable[b].len /\ b <= j

\* What the loop of get_best_route has found after n entries.
LEMMA ScanBest ==
  ASSUME NEW ip, NEW n \in 0 .. Len(RTable)
  PROVE  BestOf(ip, n, Scan(ip)[n])
<1> DEFINE N == Len(RTable)
           Bad == {k \in 1 .. N : ~ BestOf(ip, k, Scan(ip)[k])}
<1>1. N \in Nat /\ Before \in Nat /\ \A i \in 1 .. N : RTable[i].len \in Nat
  <2>1. Bits \in Nat /\ Before \in 0 .. Bits
        /\ RTable \in Seq(Route)
    BY RouterAssumption
  <2>2. \A i \in 1 .. N : RTable[i] \in Route
    BY <2>1
  <2>3. \A i \in 1 .. N : RTable[i].len \in 0 .. Bits
    BY <2>2 DEF Route
  <2>4. 0 .. Bits \subseteq Nat
    BY <2>1
  <2>5. N \in Nat
    BY <2>1
  <2> HIDE DEF N
  <2> QED
    BY <2>1, <2>3, <2>4, <2>5
<1>2. \A k \in 0 .. N :
        Scan(ip)[k] = IF k = 0 THEN 0
                      ELSE IF Better(ip, k, Scan(ip)[k - 1])
                           THEN k ELSE Scan(ip)[k - 1]
  BY ScanEquation
<1> HIDE DEF N
<1>3. BestOf(ip, 0, Scan(ip)[0])
  BY <1>1, <1>2 DEF BestOf
<1>4. ASSUME NEW k \in 1 .. N, BestOf(ip, k - 1, Scan(ip)[k - 1])
      PROVE  BestOf(ip, k, Scan(ip)[k])
  <2> DEFINE b == Scan(ip)[k - 1]
             c == Scan(ip)[k]
  <2>1. c = IF Better(ip, k, b) THEN k ELSE b
    BY <1>1, <1>2
  <2>2. BestOf(ip, k - 1, b)
    BY <1>4
  <2> HIDE DEF b, c
  <2>3. b \in 0 .. k - 1 /\ (b # 0 => RTable[b].len \in Nat)
        /\ RTable[k].len \in Nat /\ k \in 1 .. N
    BY <1>1, <2>2 DEF BestOf
  <2>4. \A j \in 1 .. k : j \in 1 .. k - 1 \/ j = k
    OBVIOUS
  <2>5. CASE Better(ip, k, b)
    <3>1. c = k /\ Matches(ip, RTable[k]) /\ RTable[k].len > LenAt(b)
      BY <2>1, <2>5 DEF Better
    <3>2. RTable[k].len > Before
      BY <1>1, <2>2, <2>3, <3>1 DEF BestOf, LenAt
    <3>3. ASSUME NEW j \in 1 .. k - 1, Matches(ip, RTable[j]),
                 RTable[j].len > Before
          PROVE  RTable[j].len < RTable[k].len
      BY <1>1, <2>2, <2>3, <3>1, <3>3 DEF BestOf, LenAt
    <3> QED
      BY <2>3, <2>4, <3>1, <3>2, <3>3 DEF BestOf, c
  <2>6. CASE ~ Better(ip, k, b)
    <3>1. c = b
      BY <2>1, <2>6
    <3>2. Matches(ip, RTable[k]) => RTable[k].len <= LenAt(b)
      BY <1>1, <2>3, <2>6 DEF Better, LenAt
    <3>3. Matches(ip, RTable[k]) /\ RTable[k].len > Before =>
             b # 0 /\ RTable[k].len <= RTable[b].len /\ b <= k
      BY <1>1, <2>3, <3>2 DEF LenAt
    <3> QED
      BY <2>2, <2>3, <2>4, <3>1, <3>3 DEF BestOf, c
  <2> QED
    BY <2>5, <2>6
<1>5. Bad = {}
  <2> SUFFICES ASSUME Bad # {} PROVE FALSE
    OBVIOUS
  <2>1. Bad \subseteq 1 .. N
    OBVIOUS
  <2> HIDE DEF Bad
  <2>2. PICK k \in Bad : \A m \in Bad : k <= m
    BY <1>1, <2>1, LeastElement
  <2>3. k \in 1 .. N /\ k - 1 \notin Bad
    BY <2>1, <2>2
  <2>4. BestOf(ip, k - 1, Scan(ip)[k - 1])
    <3>1. CASE k = 1
      BY <1>3, <3>1
    <3>2. CASE k # 1
      <4>1. k - 1 \in 1 .. N
        BY <1>1, <2>3, <3>2
      <4> QED
        BY <2>3, <4>1 DEF Bad
    <3> QED
      BY <3>1, <3>2
  <2> QED
    BY <1>4, <2>2, <2>3, <2>4 DEF Bad
<1> QED
  <2>1. CASE n = 0
    BY <1>3, <2>1
  <2>2. CASE n # 0
    BY <1>5, <2>2 DEF N
  <2> QED
    BY <2>1, <2>2

\* A route that is found is an entry of the table, and leads to a neighbour.
LEMMA HopType ==
  ASSUME NEW p \in Packets, BestRoute(p.dst) # 0
  PROVE  BestRoute(p.dst) \in 1 .. Len(RTable) /\ Hop(p) \in Hosts
<1>1. Len(RTable) \in 0 .. Len(RTable) /\ RTable \in Seq(Route)
  BY RouterAssumption
<1>2. BestRoute(p.dst) \in 0 .. Len(RTable)
  BY <1>1, ScanBest DEF BestOf, BestRoute
<1>3. BestRoute(p.dst) \in 1 .. Len(RTable)
  BY <1>2
<1>4. RTable[BestRoute(p.dst)] \in Route
  BY <1>1, <1>3
<1> QED
  BY <1>3, <1>4 DEF Hop, Route

-----------------------------------------------------------------------------
(* The inductive invariant *)

Pending == requests \cup replies \cup lost

\* An ARP request belongs to one packet that was received and needs a next
\* hop, and it or its answer is in one place; so do the queue and the links.
InFlight ==
    /\ Pending \cap arriving = {}
    /\ requests \cap replies = {}
    /\ requests \cap lost = {}
    /\ replies \cap lost = {}
    /\ \A p \in Pending \cup Queued \cup SentPackets : Routed(p)

BaseInv == TypeOK /\ InFlight

\* get_mac_entry finds the first entry for an address that has one.
LEMMA FirstEntry ==
  ASSUME TypeOK, NEW ip, Known(ip)
  PROVE  \E i \in 1 .. Len(arp) : arp[i].ip = ip /\ MacOf(ip) = arp[i].mac
<1> DEFINE S == {i \in 1 .. Len(arp) : arp[i].ip = ip}
<1>1. S # {} /\ S \in SUBSET (1 .. Len(arp)) /\ Len(arp) \in Nat
  BY DEF Known, TypeOK
<1> HIDE DEF S
<1>2. PICK i \in S : \A j \in S : i <= j
  BY <1>1, LeastElement
<1> USE DEF S
<1>3. i \in 1 .. Len(arp) /\ arp[i].ip = ip
      /\ \A j \in 1 .. i - 1 : arp[j].ip # ip
  <2>1. i \in 1 .. Len(arp) /\ arp[i].ip = ip
    BY <1>2
  <2>2. ASSUME NEW j \in 1 .. i - 1, arp[j].ip = ip PROVE FALSE
    <3>1. j \in S /\ j < i
      BY <2>1, <2>2
    <3> QED
      BY <1>2, <3>1
  <2> QED
    BY <2>1, <2>2
<1> QED
  BY <1>3 DEF MacOf

\* What a reply from h does, to the types.
LEMMA ContinueType ==
  ASSUME TypeOK, NEW h \in Hosts, Continue(h)
  PROVE  /\ arp' \in Seq([ip : Hosts \cup {Own}, mac : Hosts])
         /\ que' \in Seq(Packets)
         /\ sent' \subseteq [pkt : Packets, mac : Hosts]
<1>1. CASE que = <<>>
  BY <1>1 DEF Continue, TypeOK
<1>2. CASE que # <<>>
  <2>1. Head(que) \in Packets /\ Tail(que) \in Seq(Packets)
    BY <1>2 DEF TypeOK
  <2>2. Entry(Head(que), h) \in [ip : Hosts \cup {Own}, mac : Hosts]
    BY DEF Entry
  <2>3. arp' = Append(arp, Entry(Head(que), h))
        /\ sent' = sent \cup {[pkt |-> Head(que), mac |-> h]}
        /\ que' = Tail(que)
    BY <1>2 DEF Continue, Rest
  <2> DEFINE E == [ip : Hosts \cup {Own}, mac : Hosts]
  <2>4. arp \in Seq(E) /\ Entry(Head(que), h) \in E
    BY <2>2 DEF TypeOK
  <2> HIDE DEF E
  <2>5. Append(arp, Entry(Head(que), h)) \in Seq(E)
    BY <2>4
  <2> QED
    BY <2>1, <2>3, <2>5 DEF TypeOK, E
<1> QED
  BY <1>1, <1>2

\* Every step keeps the types.
LEMMA NextType == BaseInv /\ [Next]_vars => TypeOK'
<1> SUFFICES ASSUME TypeOK, InFlight, [Next]_vars PROVE TypeOK'
  BY DEF BaseInv
<1>1. ASSUME NEW p \in Packets, Drop(p) PROVE TypeOK'
  BY <1>1 DEF Drop, Receive, TypeOK
<1>2. ASSUME NEW p \in Packets, Return(p) PROVE TypeOK'
  BY <1>2 DEF Return, Icmp, Receive, TypeOK
<1>3. ASSUME NEW p \in Packets, Forward(p) PROVE TypeOK'
  <2>1. MacOf(Hop(p)) \in Hosts
    <3>1. PICK i \in 1 .. Len(arp) : MacOf(Hop(p)) = arp[i].mac
      BY <1>3, FirstEntry DEF Forward
    <3> DEFINE E == [ip : Hosts \cup {Own}, mac : Hosts]
    <3>2. arp \in Seq(E)
      BY DEF TypeOK
    <3> HIDE DEF E
    <3>3. arp[i] \in E
      BY <3>2
    <3> QED
      BY <3>1, <3>3 DEF E
  <2> QED
    BY <1>3, <2>1 DEF Forward, Receive, TypeOK
<1>4. ASSUME NEW p \in Packets, Enqueue(p) PROVE TypeOK'
  <2>1. que' \in Seq(Packets) /\ requests' \subseteq Packets /\ mixed' \in BOOLEAN
    BY <1>4 DEF Enqueue, Asked, TypeOK
  <2> QED
    BY <1>4, <2>1 DEF Enqueue, Receive, TypeOK
<1>5. ASSUME NEW p \in Packets, ReceiveReply(p) PROVE TypeOK'
  <2>1. Hop(p) \in Hosts
    BY <1>5, HopType DEF ReceiveReply, InFlight, Pending, Routed
  <2> QED
    BY <1>5, <2>1, ContinueType DEF ReceiveReply, TypeOK
<1>6. ASSUME NEW h \in Announcers, ReceiveAnnouncement(h) PROVE TypeOK'
  <2>1. h \in Hosts
    BY RouterAssumption
  <2> QED
    BY <1>6, <2>1, ContinueType DEF ReceiveAnnouncement, TypeOK
<1>7. ASSUME NEW q \in Questions, ReceiveRequest(q) PROVE TypeOK'
  <2>1. q.src \in Hosts /\ q.ip \in Hosts \cup {Own}
    BY RouterAssumption
  <2> DEFINE E == [ip : Hosts \cup {Own}, mac : Hosts]
  <2>2. arp \in Seq(E) /\ [ip |-> q.ip, mac |-> q.src] \in E
    BY <2>1 DEF TypeOK
  <2> HIDE DEF E
  <2>3. arp' \in Seq(E)
    BY <1>7, <2>2 DEF ReceiveRequest
  <2> USE DEF E
  <2>4. answers' \subseteq [dst : Hosts, ip : Hosts \cup {Own}, mac : {Unset}]
    BY <1>7, <2>1 DEF ReceiveRequest, TypeOK
  <2> QED
    BY <1>7, <2>3, <2>4 DEF ReceiveRequest, TypeOK
<1>8. ASSUME NEW p \in Packets, Answer(p) PROVE TypeOK'
  BY <1>8 DEF Answer, TypeOK
<1>9. ASSUME NEW p \in Packets, Lose(p) PROVE TypeOK'
  BY <1>9 DEF Lose, TypeOK
<1>10. CASE UNCHANGED vars
  BY <1>10 DEF vars, links, TypeOK
<1> QED
  BY <1>1, <1>2, <1>3, <1>4, <1>5, <1>6, <1>7, <1>8, <1>9, <1>10
     DEF Next, Packet

\* To forward p adds it to the packets that were forwarded.
LEMMA SendOne ==
  ASSUME NEW p, NEW m, sent' = sent \cup {[pkt |-> p, mac |-> m]}
  PROVE  SentPackets' = SentPackets \cup {p}
<1> DEFINE r == [pkt |-> p, mac |-> m]
<1>1. r.pkt = p /\ sent' = sent \cup {r}
  OBVIOUS
<1> HIDE DEF r
<1>2. {f.pkt : f \in sent'} = {f.pkt : f \in sent} \cup {r.pkt}
  BY <1>1
<1> QED
  BY <1>1, <1>2 DEF SentPackets

\* A reply moves packets from the queue to a link, and adds none.
LEMMA ContinueMoves ==
  ASSUME TypeOK, NEW h, Continue(h)
  PROVE  Queued' \cup SentPackets' \subseteq Queued \cup SentPackets
<1>1. CASE que = <<>>
  BY <1>1 DEF Continue, Queued, SentPackets
<1>2. CASE que # <<>>
  <2>1. que' = Tail(que) /\ sent' = sent \cup {[pkt |-> que[1], mac |-> h]}
    BY <1>2 DEF Continue, Rest, TypeOK
  <2>2. 1 \in 1 .. Len(que)
        /\ \A i \in 1 .. Len(que') : /\ i + 1 \in 1 .. Len(que)
                                    /\ que'[i] = que[i + 1]
    BY <1>2, <2>1 DEF TypeOK
  <2>3. que[1] \in Queued /\ Queued' \subseteq Queued
    BY <2>2 DEF Queued
  <2>4. SentPackets' = SentPackets \cup {que[1]}
    BY <2>1, SendOne
  <2> QED
    BY <2>3, <2>4
<1> QED
  BY <1>1, <1>2

\* Every step keeps InFlight.
LEMMA NextInFlight == BaseInv /\ [Next]_vars => InFlight'
<1> SUFFICES ASSUME TypeOK, InFlight, [Next]_vars PROVE InFlight'
  BY DEF BaseInv
<1> USE DEF InFlight, Pending
<1>1. ASSUME NEW p \in Packets, Drop(p) \/ Return(p) PROVE InFlight'
  BY <1>1 DEF Drop, Return, Receive, Queued, SentPackets
<1>2. ASSUME NEW p \in Packets, Forward(p) PROVE InFlight'
  <2>1. SentPackets' = SentPackets \cup {p} /\ Queued' = Queued /\ Routed(p)
    BY <1>2, SendOne DEF Forward, Queued
  <2>2. UNCHANGED <<requests, replies, lost>> /\ arriving' \subseteq arriving
    BY <1>2 DEF Forward, Receive
  <2> QED
    BY <2>1, <2>2
<1>3. ASSUME NEW p \in Packets, Enqueue(p) PROVE InFlight'
  <2>1. SentPackets' = SentPackets /\ Routed(p)
    BY <1>3 DEF Enqueue, SentPackets
  <2>2. Queued' \subseteq Queued \cup {p}
    BY <1>3 DEF Enqueue, Queued, TypeOK
  <2> QED
    BY <1>3, <2>1, <2>2 DEF Enqueue, Receive, Asked
<1>4. ASSUME NEW p \in Packets, ReceiveReply(p) PROVE InFlight'
  BY <1>4, ContinueMoves DEF ReceiveReply
<1>5. ASSUME NEW h \in Announcers, ReceiveAnnouncement(h) PROVE InFlight'
  BY <1>5, ContinueMoves DEF ReceiveAnnouncement
<1>6. ASSUME NEW q \in Questions, ReceiveRequest(q) PROVE InFlight'
  BY <1>6 DEF ReceiveRequest, Queued, SentPackets
<1>7. ASSUME NEW p \in Packets, Answer(p) \/ Lose(p) PROVE InFlight'
  BY <1>7 DEF Answer, Lose, Queued, SentPackets
<1>8. CASE UNCHANGED vars
  BY <1>8 DEF vars, links, Queued, SentPackets
<1> QED
  BY <1>1, <1>2, <1>3, <1>4, <1>5, <1>6, <1>7, <1>8 DEF Next, Packet

\* BaseInv is an invariant.
THEOREM BaseInvariant == Spec => []BaseInv
<1>1. Init => BaseInv
  <2> SUFFICES ASSUME Init PROVE TypeOK /\ InFlight
    BY DEF BaseInv
  <2>1. TypeOK
    <3>1. \A S : <<>> \in Seq(S)
      OBVIOUS
    <3>2. arp \in Seq([ip : Hosts \cup {Own}, mac : Hosts])
          /\ que \in Seq(Packets)
      BY <3>1 DEF Init
    <3> QED
      BY <3>2 DEF Init, TypeOK
  <2>2. InFlight
    BY DEF Init, InFlight, Pending, Queued, SentPackets
  <2> QED
    BY <2>1, <2>2
<1>2. BaseInv /\ [Next]_vars => BaseInv'
  BY NextType, NextInFlight DEF BaseInv
<1> QED
  BY <1>1, <1>2, PTL DEF Spec

\* Every variable has its type: no route, MAC address or queue entry is read
\* that is not there.
THEOREM TypeCorrect == Spec => []TypeOK
<1>1. BaseInv => TypeOK
  BY DEF BaseInv
<1> QED
  BY <1>1, BaseInvariant, PTL

-----------------------------------------------------------------------------
(* The queue and the ARP messages *)

QueueInv == BaseInv /\ QueueAccounting

\* What a reply does to the length of the queue.
LEMMA ContinueLen ==
  ASSUME TypeOK, NEW h, Continue(h)
  PROVE  Len(que') = IF que = <<>> THEN 0 ELSE Len(que) - 1
BY DEF TypeOK, Continue, Rest

\* Every step keeps QueueAccounting.
LEMMA NextQueue == QueueInv /\ BaseInv' /\ [Next]_vars => QueueAccounting'
<1> DEFINE A == Announcers \ announcing
<1> SUFFICES ASSUME TypeOK, InFlight, TypeOK', [Next]_vars,
                    Len(que) <= Cardinality(Pending),
                    Cardinality(Pending) <= Len(que) + Cardinality(A)
             PROVE  /\ Len(que') <= Cardinality(Pending')
                    /\ Cardinality(Pending') <= Len(que') + Cardinality(A')
  BY DEF QueueInv, BaseInv, QueueAccounting, Outstanding, Pending
<1>1. /\ IsFiniteSet(Pending) /\ Cardinality(Pending) \in Nat
      /\ IsFiniteSet(A) /\ Cardinality(A) \in Nat
      /\ Len(que) \in Nat
  <2>1. Pending \subseteq Packets /\ A \subseteq Announcers
    BY DEF Pending, TypeOK
  <2>2. IsFiniteSet(Pending) /\ IsFiniteSet(A)
    BY <2>1, RouterAssumption, FS_Subset
  <2> QED
    BY <2>2, FS_CardinalityType DEF TypeOK
<1>2. ASSUME Pending' = Pending, UNCHANGED <<que, announcing>>
      PROVE  /\ Len(que') <= Cardinality(Pending')
             /\ Cardinality(Pending') <= Len(que') + Cardinality(A')
  BY <1>2
<1>3. ASSUME NEW p \in Packets, Drop(p) \/ Return(p) \/ Forward(p)
      PROVE  Pending' = Pending /\ UNCHANGED <<que, announcing>>
  BY <1>3 DEF Drop, Return, Forward, Pending
<1>4. ASSUME NEW p \in Packets, Enqueue(p)
      PROVE  /\ Len(que') <= Cardinality(Pending')
             /\ Cardinality(Pending') <= Len(que') + Cardinality(A')
  <2>1. Pending' = Pending \cup {p} /\ p \notin Pending /\ A' = A
    BY <1>4 DEF Enqueue, Receive, Asked, Pending, InFlight
  <2>2. Cardinality(Pending') = Cardinality(Pending) + 1
    BY <1>1, <2>1, FS_AddElement
  <2>3. Len(que') = Len(que) + 1
    BY <1>4 DEF Enqueue, TypeOK
  <2> HIDE DEF A
  <2> QED
    BY <1>1, <2>1, <2>2, <2>3
<1>5. ASSUME NEW p \in Packets, ReceiveReply(p)
      PROVE  /\ Len(que') <= Cardinality(Pending')
             /\ Cardinality(Pending') <= Len(que') + Cardinality(A')
  <2>1. Pending' = Pending \ {p} /\ p \in Pending /\ A' = A
    BY <1>5 DEF ReceiveReply, Pending, InFlight
  <2>2. Cardinality(Pending') = Cardinality(Pending) - 1
    BY <1>1, <2>1, FS_RemoveElement
  <2>3. Len(que') = IF que = <<>> THEN 0 ELSE Len(que) - 1
    BY <1>5, ContinueLen DEF ReceiveReply
  <2>4. que = <<>> => Len(que) = 0
    OBVIOUS
  <2>5. Cardinality(Pending') \in Nat
    BY <1>1, <2>1, FS_RemoveElement, FS_CardinalityType
  <2> HIDE DEF A
  <2> QED
    BY <1>1, <2>1, <2>2, <2>3, <2>4, <2>5
<1>6. ASSUME NEW h \in Announcers, ReceiveAnnouncement(h)
      PROVE  /\ Len(que') <= Cardinality(Pending')
             /\ Cardinality(Pending') <= Len(que') + Cardinality(A')
  <2>1. Pending' = Pending /\ A' = A \cup {h} /\ h \notin A
    BY <1>6 DEF ReceiveAnnouncement, Pending
  <2>2. Cardinality(A') = Cardinality(A) + 1
    BY <1>1, <2>1, FS_AddElement
  <2>3. Len(que') = IF que = <<>> THEN 0 ELSE Len(que) - 1
    BY <1>6, ContinueLen DEF ReceiveAnnouncement
  <2>4. que = <<>> => Len(que) = 0
    OBVIOUS
  <2> HIDE DEF A
  <2> QED
    BY <1>1, <2>1, <2>2, <2>3, <2>4
<1>7. ASSUME NEW q \in Questions, ReceiveRequest(q)
      PROVE  Pending' = Pending /\ UNCHANGED <<que, announcing>>
  BY <1>7 DEF ReceiveRequest, Pending
<1>8. ASSUME NEW p \in Packets, Answer(p) \/ Lose(p)
      PROVE  Pending' = Pending /\ UNCHANGED <<que, announcing>>
  BY <1>8 DEF Answer, Lose, Pending
<1>9. CASE UNCHANGED vars
  BY <1>2, <1>9 DEF vars, links, Pending
<1> QED
  BY <1>2, <1>3, <1>4, <1>5, <1>6, <1>7, <1>8, <1>9 DEF Next, Packet

\* The queue is as long as the number of replies that are to come or were lost,
\* up to one for each unasked reply: no order of replies strands a packet.
THEOREM QueueTheorem == Spec => []QueueAccounting
<1>1. Init => QueueAccounting
  <2>1. Init => Outstanding = 0 /\ Len(que) = 0
                /\ Cardinality(Announcers \ announcing) = 0
    BY FS_EmptySet DEF Init, Outstanding
  <2> QED
    BY <2>1 DEF QueueAccounting
<1>2. QueueAccounting /\ BaseInv /\ BaseInv' /\ [Next]_vars => QueueAccounting'
  BY NextQueue DEF QueueInv
<1> QED
  BY <1>1, <1>2, BaseInvariant, PTL DEF Spec

-----------------------------------------------------------------------------
(* The table of MAC addresses *)

\* Every step keeps LearnedRight.
LEMMA NextLearned == BaseInv /\ LearnedRight /\ [Next]_vars => LearnedRight'
<1> SUFFICES ASSUME TypeOK, LearnedRight, [Next]_vars PROVE LearnedRight'
  BY DEF BaseInv
<1> DEFINE Right(e, Asked2) ==
      e.mac = e.ip \/ [src |-> e.mac, ip |-> e.ip] \in Asked2
<1>1. ASSUME arp' = arp, asking' \subseteq asking PROVE LearnedRight'
  BY <1>1 DEF LearnedRight
<1>2. ASSUME NEW e, arp' = Append(arp, e), asking' \subseteq asking,
             Right(e, Questions \ asking')
      PROVE  LearnedRight'
  <2>1. Len(arp') = Len(arp) + 1 /\ Len(arp) \in Nat
        /\ arp'[Len(arp) + 1] = e
        /\ \A i \in 1 .. Len(arp) : arp'[i] = arp[i]
    BY <1>2 DEF TypeOK
  <2>2. \A i \in 1 .. Len(arp') : i \in 1 .. Len(arp) \/ i = Len(arp) + 1
    BY <2>1
  <2> QED
    BY <1>2, <2>1, <2>2 DEF LearnedRight
<1>3. ASSUME NEW h, Continue(h), asking' = asking PROVE LearnedRight'
  <2>1. CASE que = <<>>
    BY <1>1, <1>3, <2>1 DEF Continue
  <2>2. CASE que # <<>>
    <3>1. arp' = Append(arp, [ip |-> h, mac |-> h])
      BY <1>3, <2>2 DEF Continue, Entry
    <3> QED
      BY <1>2, <1>3, <3>1
  <2> QED
    BY <2>1, <2>2
<1>4. ASSUME NEW p \in Packets, Packet(p) \/ Answer(p) \/ Lose(p)
      PROVE  LearnedRight'
  BY <1>1, <1>4 DEF Packet, Drop, Return, Forward, Enqueue, Answer, Lose
<1>5. ASSUME NEW p \in Packets, ReceiveReply(p) PROVE LearnedRight'
  BY <1>3, <1>5 DEF ReceiveReply
<1>6. ASSUME NEW h \in Announcers, ReceiveAnnouncement(h) PROVE LearnedRight'
  BY <1>3, <1>6 DEF ReceiveAnnouncement
<1>7. ASSUME NEW q \in Questions, ReceiveRequest(q) PROVE LearnedRight'
  <2>1. asking' = asking \ {q}
    BY <1>7 DEF ReceiveRequest
  <2>2. CASE Known(q.ip)
    BY <1>1, <1>7, <2>1, <2>2 DEF ReceiveRequest
  <2>3. CASE ~ Known(q.ip)
    <3> DEFINE e == [ip |-> q.ip, mac |-> q.src]
    <3>1. [src |-> e.mac, ip |-> e.ip] = q
      BY RouterAssumption
    <3>2. arp' = Append(arp, e)
      BY <1>7, <2>3 DEF ReceiveRequest
    <3> HIDE DEF e
    <3> QED
      BY <1>2, <2>1, <3>1, <3>2
  <2> QED
    BY <2>2, <2>3
<1>8. CASE UNCHANGED vars
  BY <1>1, <1>8 DEF vars, links
<1> QED
  BY <1>4, <1>5, <1>6, <1>7, <1>8 DEF Next

\* The MAC in an entry is that of the host the entry is for, or of one that
\* asked for that host: packets released for a wrong hop never spoil the table.
THEOREM LearnedTheorem == Spec => []LearnedRight
<1>1. Init => LearnedRight
  BY DEF Init, LearnedRight
<1> QED
  BY <1>1, NextLearned, BaseInvariant, PTL DEF Spec

-----------------------------------------------------------------------------
(* Where packets are sent *)

\* Until packets of different next hops meet in the queue, or a reply comes that
\* nobody asked for, the queue waits for one hop and every reply is from it.
SameHop ==
    ~ mixed /\ announcing = Announcers =>
       /\ \A i, j \in 1 .. Len(que) : Hop(que[i]) = Hop(que[j])
       /\ \A p \in requests \cup replies :
             que # <<>> /\ Hop(p) = Hop(Head(que))

\* Until then, the queue is longer than one if another reply is to come.
LEMMA LastReply ==
  ASSUME TypeOK, QueueAccounting, announcing = Announcers,
         NEW p \in replies, NEW o \in requests \cup replies, o # p
  PROVE  Len(que) > 1
<1>1. Cardinality({p, o}) = 2 /\ IsFiniteSet({p, o})
  <2>1. IsFiniteSet({p}) /\ Cardinality({p}) = 1 /\ {p, o} = {p} \cup {o}
    BY FS_Singleton
  <2> QED
    BY <2>1, FS_AddElement
<1>2. IsFiniteSet(Pending) /\ {p, o} \subseteq Pending
  <2>1. Pending \subseteq Packets
    BY DEF Pending, TypeOK
  <2> QED
    BY <2>1, RouterAssumption, FS_Subset DEF Pending
<1>3. Cardinality({p, o}) <= Cardinality(Pending)
  BY <1>1, <1>2, FS_Subset
<1>4. Cardinality(Announcers \ announcing) = 0
  BY FS_EmptySet
<1>5. Cardinality(Pending) <= Len(que) /\ Cardinality(Pending) \in Nat
  <2>1. Cardinality(Pending) \in Nat /\ Len(que) \in Nat
    BY <1>2, FS_CardinalityType DEF TypeOK
  <2> QED
    BY <1>4, <2>1 DEF QueueAccounting, Outstanding, Pending
<1> QED
  BY <1>1, <1>3, <1>5 DEF TypeOK

\* Every step keeps SameHop.
LEMMA NextSameHop ==
  BaseInv /\ QueueAccounting /\ SameHop /\ [Next]_vars => SameHop'
<1> SUFFICES ASSUME TypeOK, InFlight, QueueAccounting, SameHop, [Next]_vars,
                    ~ mixed', announcing' = Announcers
             PROVE  /\ \A i, j \in 1 .. Len(que') : Hop(que'[i]) = Hop(que'[j])
                    /\ \A p \in requests' \cup replies' :
                          que' # <<>> /\ Hop(p) = Hop(Head(que'))
  BY DEF BaseInv, SameHop, Hop, BestRoute, Scan
<1> DEFINE Alike(q, S) ==
      /\ \A i, j \in 1 .. Len(q) : Hop(q[i]) = Hop(q[j])
      /\ \A p \in S : q # <<>> /\ Hop(p) = Hop(Head(q))
<1>1. ASSUME ~ mixed, announcing = Announcers
      PROVE  Alike(que, requests \cup replies)
  BY <1>1 DEF SameHop
<1> SUFFICES Alike(que', requests' \cup replies')
  OBVIOUS
<1>2. ASSUME mixed' = mixed, announcing' = announcing, que' = que,
             requests' \cup replies' \subseteq requests \cup replies
      PROVE  Alike(que', requests' \cup replies')
  BY <1>1, <1>2
<1>3. ASSUME NEW p \in Packets, Enqueue(p)
      PROVE  Alike(que', requests' \cup replies')
  <2>1. /\ que' = Append(que, p) /\ requests' = requests \cup {p}
        /\ replies' = replies /\ announcing' = announcing
        /\ ~ mixed /\ \A i \in 1 .. Len(que) : Hop(que[i]) = Hop(p)
    BY <1>3 DEF Enqueue, Asked, TypeOK
  <2>2. Alike(que, requests \cup replies)
    BY <1>1, <2>1
  <2>3. Len(que) \in Nat /\ Len(que') = Len(que) + 1 /\ que' # <<>>
        /\ que'[Len(que) + 1] = p
        /\ \A i \in 1 .. Len(que) : que'[i] = que[i]
    BY <2>1 DEF TypeOK
  <2>4. \A i \in 1 .. Len(que') : Hop(que'[i]) = Hop(p)
    <3>1. \A i \in 1 .. Len(que') : i \in 1 .. Len(que) \/ i = Len(que) + 1
      BY <2>3
    <3> QED
      BY <2>1, <2>3, <3>1
  <2>5. Hop(Head(que')) = Hop(p)
    <3>1. 1 \in 1 .. Len(que') /\ Head(que') = que'[1]
      BY <2>1, <2>3
    <3> QED
      BY <2>4, <3>1
  <2>6. \A o \in requests \cup replies : Hop(o) = Hop(p)
    <3>1. que # <<>> => 1 \in 1 .. Len(que) /\ Head(que) = que[1]
      BY DEF TypeOK
    <3> QED
      BY <2>1, <2>2, <3>1
  <2> QED
    BY <2>1, <2>3, <2>4, <2>5, <2>6
<1>4. ASSUME NEW p \in Packets, ReceiveReply(p)
      PROVE  Alike(que', requests' \cup replies')
  <2>1. /\ p \in replies /\ replies' = replies \ {p} /\ requests' = requests
        /\ announcing = Announcers /\ ~ mixed /\ Continue(Hop(p))
        /\ p \notin requests
    BY <1>4 DEF ReceiveReply, InFlight
  <2>2. Alike(que, requests \cup replies)
    BY <1>1, <2>1
  <2>3. que # <<>> /\ que' = Tail(que)
    BY <2>1, <2>2 DEF Continue, Rest
  <2>4. /\ Len(que') = Len(que) - 1 /\ Len(que) \in Nat \ {0}
        /\ \A i \in 1 .. Len(que') :
              i + 1 \in 1 .. Len(que) /\ que'[i] = que[i + 1]
        /\ 1 \in 1 .. Len(que) /\ Head(que) = que[1]
    BY <2>3 DEF TypeOK
  <2>5. \A i, j \in 1 .. Len(que') : Hop(que'[i]) = Hop(que'[j])
    BY <2>2, <2>4
  <2>6. ASSUME NEW o \in requests' \cup replies'
        PROVE  que' # <<>> /\ Hop(o) = Hop(Head(que'))
    <3>1. o \in requests \cup replies /\ o # p
      BY <2>1, <2>6
    <3>2. Len(que) > 1
      BY <2>1, <3>1, LastReply
    <3>3. que' # <<>> /\ 1 \in 1 .. Len(que') /\ Head(que') = que'[1]
      <4>1. que' \in Seq(Packets) /\ Len(que') \in Nat \ {0}
        BY <2>3, <2>4, <3>2 DEF TypeOK
      <4> QED
        BY <4>1
    <3>4. Hop(Head(que')) = Hop(Head(que))
      BY <2>2, <2>4, <3>3
    <3> QED
      BY <2>2, <3>1, <3>3, <3>4
  <2> QED
    BY <2>5, <2>6
<1>5. ASSUME NEW h \in Announcers, ReceiveAnnouncement(h) PROVE FALSE
  BY <1>5 DEF ReceiveAnnouncement
<1>6. ASSUME NEW p \in Packets, Drop(p) \/ Return(p) \/ Forward(p)
      PROVE  Alike(que', requests' \cup replies')
  BY <1>2, <1>6 DEF Drop, Return, Forward
<1>7. ASSUME NEW p \in Packets, Answer(p) \/ Lose(p)
      PROVE  Alike(que', requests' \cup replies')
  BY <1>2, <1>7 DEF Answer, Lose
<1>8. ASSUME NEW q \in Questions, ReceiveRequest(q)
      PROVE  Alike(que', requests' \cup replies')
  BY <1>2, <1>8 DEF ReceiveRequest
<1>9. CASE UNCHANGED vars
  BY <1>2, <1>9 DEF vars, links
<1> HIDE DEF Alike
<1> QED
  BY <1>3, <1>4, <1>5, <1>6, <1>7, <1>8, <1>9 DEF Next, Packet

\* Every step keeps MisdirectedOnlyIf.
LEMMA NextMisdirected ==
  BaseInv /\ LearnedRight /\ SameHop /\ MisdirectedOnlyIf /\ [Next]_vars
     => MisdirectedOnlyIf'
<1> SUFFICES ASSUME TypeOK, InFlight, LearnedRight, SameHop, [Next]_vars,
                    MisdirectedOnlyIf,
                    NEW f \in sent', f.mac # Hop(f.pkt)
             PROVE  Disturbed(Hop(f.pkt))'
  BY DEF BaseInv, MisdirectedOnlyIf, Hop, BestRoute, Scan
<1>1. /\ mixed => mixed'
      /\ announcing' \subseteq announcing /\ asking' \subseteq asking
  <2>1. ASSUME NEW p \in Packets, Packet(p) PROVE <1>1!:
    <3>1. CASE Enqueue(p)
      BY <3>1 DEF Enqueue
    <3>2. CASE Drop(p) \/ Return(p) \/ Forward(p)
      BY <3>2 DEF Drop, Return, Forward
    <3> QED
      BY <2>1, <3>1, <3>2 DEF Packet
  <2>2. ASSUME NEW p \in Packets, ReceiveReply(p) \/ Answer(p) \/ Lose(p)
        PROVE  <1>1!:
    BY <2>2 DEF ReceiveReply, Answer, Lose
  <2>3. ASSUME NEW h \in Announcers, ReceiveAnnouncement(h) PROVE <1>1!:
    BY <2>3 DEF ReceiveAnnouncement
  <2>4. ASSUME NEW q \in Questions, ReceiveRequest(q) PROVE <1>1!:
    BY <2>4 DEF ReceiveRequest
  <2>5. CASE UNCHANGED vars
    BY <2>5 DEF vars, links
  <2> QED
    BY <2>1, <2>2, <2>3, <2>4, <2>5 DEF Next
<1>2. announcing \subseteq Announcers
  BY DEF TypeOK
<1>3. \A h : Disturbed(h) => Disturbed(h)'
  BY <1>1, <1>2 DEF Disturbed, Overheard
<1>4. CASE f \in sent
  BY <1>3, <1>4 DEF MisdirectedOnlyIf
<1>5. ASSUME NEW h, Continue(h), f \notin sent
      PROVE  que # <<>> /\ f.pkt = Head(que) /\ f.mac = h
  BY <1>5 DEF Continue
<1>6. ASSUME f \notin sent, NEW p \in Packets, Forward(p)
      PROVE  Disturbed(Hop(f.pkt))'
  <2>1. f.pkt = p /\ f.mac = MacOf(Hop(p)) /\ Known(Hop(p))
    BY <1>6 DEF Forward
  <2>2. PICK i \in 1 .. Len(arp) :
          arp[i].ip = Hop(p) /\ MacOf(Hop(p)) = arp[i].mac
    BY <2>1, FirstEntry
  <2>3. [src |-> f.mac, ip |-> Hop(f.pkt)] \in Questions \ asking
    BY <2>1, <2>2 DEF LearnedRight
  <2>4. Overheard(Hop(f.pkt))
    BY <2>3 DEF Overheard
  <2> QED
    BY <1>3, <2>4 DEF Disturbed
<1>7. ASSUME f \notin sent, NEW p \in Packets, ReceiveReply(p)
      PROVE  Disturbed(Hop(f.pkt))'
  <2>1. que # <<>> /\ f.pkt = Head(que) /\ f.mac = Hop(p) /\ p \in replies
    BY <1>5, <1>7 DEF ReceiveReply
  <2>2. mixed \/ announcing # Announcers
    BY <2>1 DEF SameHop
  <2> QED
    BY <1>3, <2>2 DEF Disturbed
<1>8. ASSUME NEW h \in Announcers, ReceiveAnnouncement(h)
      PROVE  Disturbed(Hop(f.pkt))'
  BY <1>8 DEF ReceiveAnnouncement, Disturbed
<1>9. ASSUME NEW p \in Packets,
             Drop(p) \/ Return(p) \/ Enqueue(p) \/ Answer(p) \/ Lose(p)
      PROVE  f \in sent
  BY <1>9 DEF Drop, Return, Enqueue, Answer, Lose
<1>10. ASSUME NEW q \in Questions, ReceiveRequest(q) PROVE f \in sent
  BY <1>10 DEF ReceiveRequest
<1>11. CASE UNCHANGED vars
  BY <1>4, <1>11 DEF vars, links
<1> QED
  BY <1>4, <1>6, <1>7, <1>8, <1>9, <1>10, <1>11 DEF Next, Packet

\* A packet leaves for another host than its next hop only after packets of
\* different next hops were queued together, after a reply that nobody asked for,
\* or after a host asked for that next hop: lost messages alone cannot do it.
THEOREM MisdirectedTheorem == Spec => []MisdirectedOnlyIf
<1>1. Init => SameHop /\ MisdirectedOnlyIf
  BY DEF Init, SameHop, MisdirectedOnlyIf
<1> QED
  BY <1>1, NextSameHop, NextMisdirected, BaseInvariant, QueueTheorem,
     LearnedTheorem, PTL DEF Spec

-----------------------------------------------------------------------------
(* Routes *)

\* "Unreachable" is answered where get_best_route finds nothing.
Unreachable == \A r \in returned : r.type = 3 => BestRoute(r.pkt.dst) = 0

\* Every step keeps Unreachable.
LEMMA NextUnreachable == Unreachable /\ [Next]_vars => Unreachable'
<1> SUFFICES ASSUME Unreachable, [Next]_vars PROVE Unreachable'
  OBVIOUS
<1>1. ASSUME returned' = returned PROVE Unreachable'
  BY <1>1 DEF Unreachable, BestRoute, Scan
<1>2. ASSUME NEW p \in Packets, Return(p) PROVE Unreachable'
  <2>1. ASSUME NEW r \in returned', r.type = 3, r \notin returned
        PROVE  BestRoute(r.pkt.dst) = 0
    <3>1. CASE r = [pkt |-> p, type |-> 3] /\ BestRoute(p.dst) = 0
      BY <3>1
    <3>2. CASE r = [pkt |-> p, type |-> 0] \/ r = [pkt |-> p, type |-> 11]
      BY <2>1, <3>2
    <3> QED
      BY <1>2, <2>1, <3>1, <3>2 DEF Return, Icmp
  <2> QED
    BY <2>1 DEF Unreachable
<1>3. ASSUME NEW p \in Packets,
             Drop(p) \/ Forward(p) \/ Enqueue(p) \/ ReceiveReply(p)
               \/ Answer(p) \/ Lose(p)
      PROVE  Unreachable'
  BY <1>1, <1>3 DEF Drop, Forward, Enqueue, ReceiveReply, Answer, Lose
<1>4. ASSUME NEW h \in Announcers, ReceiveAnnouncement(h) PROVE Unreachable'
  BY <1>1, <1>4 DEF ReceiveAnnouncement
<1>5. ASSUME NEW q \in Questions, ReceiveRequest(q) PROVE Unreachable'
  BY <1>1, <1>5 DEF ReceiveRequest
<1>6. CASE UNCHANGED vars
  BY <1>1, <1>6 DEF vars, links
<1> QED
  BY <1>2, <1>3, <1>4, <1>5, <1>6 DEF Next, Packet

\* The scan of the table gives LongestMatch, for tables of any length.
LEMMA LongestMatchHolds == BaseInv /\ Unreachable => LongestMatch
<1> SUFFICES ASSUME TypeOK, InFlight, Unreachable PROVE LongestMatch
  BY DEF BaseInv
<1>1. /\ Len(RTable) \in Nat /\ Before \in Nat
      /\ \A i \in 1 .. Len(RTable) : RTable[i].len \in Nat
  <2>1. Bits \in Nat /\ Before \in 0 .. Bits /\ RTable \in Seq(Route)
    BY RouterAssumption
  <2>2. \A i \in 1 .. Len(RTable) : RTable[i] \in Route
    BY <2>1
  <2>3. \A i \in 1 .. Len(RTable) : RTable[i].len \in 0 .. Bits
    BY <2>2 DEF Route
  <2> QED
    BY <2>1, <2>3
<1>2. \A ip : BestOf(ip, Len(RTable), BestRoute(ip))
  BY <1>1, ScanBest DEF BestRoute
<1>3. ASSUME NEW p \in Queued \cup SentPackets
      PROVE  \E i \in MatchesOf(p) :
                /\ Hop(p) = RTable[i].hop
                /\ \A j \in MatchesOf(p) :
                      \/ RTable[j].len < RTable[i].len
                      \/ RTable[j].len = RTable[i].len /\ i <= j
  <2> DEFINE b == BestRoute(p.dst)
  <2>1. b # 0 /\ BestOf(p.dst, Len(RTable), b) /\ Hop(p) = RTable[b].hop
    BY <1>2 DEF InFlight, Routed, Hop
  <2> HIDE DEF b
  <2>2. b \in MatchesOf(p) /\ RTable[b].len > Before
    BY <1>1, <2>1 DEF BestOf, MatchesOf
  <2>3. ASSUME NEW j \in MatchesOf(p)
        PROVE  \/ RTable[j].len < RTable[b].len
               \/ RTable[j].len = RTable[b].len /\ b <= j
    <3>1. j \in 1 .. Len(RTable) /\ Matches(p.dst, RTable[j])
      BY DEF MatchesOf
    <3>2. CASE RTable[j].len > Before
      BY <2>1, <3>1, <3>2 DEF BestOf
    <3>3. CASE ~ (RTable[j].len > Before)
      <4>1. RTable[j].len \in Nat /\ RTable[b].len \in Nat
        BY <1>1, <2>2, <3>1 DEF MatchesOf
      <4> QED
        BY <1>1, <2>2, <3>3, <4>1
    <3> QED
      BY <3>2, <3>3
  <2> QED
    BY <2>1, <2>2, <2>3
<1>4. ASSUME NEW r \in returned, r.type = 3, NEW i \in MatchesOf(r.pkt)
      PROVE  RTable[i].len <= Before
  <2>1. BestOf(r.pkt.dst, Len(RTable), 0)
    BY <1>2, <1>4 DEF Unreachable
  <2>2. i \in 1 .. Len(RTable) /\ Matches(r.pkt.dst, RTable[i])
    BY DEF MatchesOf
  <2> QED
    BY <1>1, <2>1, <2>2 DEF BestOf
<1> QED
  BY <1>3, <1>4 DEF LongestMatch

\* Packets follow a longest match, the first of several, and "unreachable" is
\* answered only if no match is longer than what rtable[-1] happens to hold.
THEOREM RouteTheorem == Spec => []LongestMatch
<1>1. Init => Unreachable
  BY DEF Init, Unreachable
<1> QED
  BY <1>1, NextUnreachable, LongestMatchHolds, BaseInvariant, PTL DEF Spec

-----------------------------------------------------------------------------
(* The checksum *)

\* Division with remainder.
LEMMA DivMod ==
  ASSUME NEW w \in Nat \ {0}, NEW n \in Nat
  PROVE  /\ n % w \in 0 .. w - 1
         /\ n \div w \in Int
         /\ n = w * (n \div w) + (n % w)
<1>1. n % w \in Int /\ n % w >= 0 /\ n % w < w
  OBVIOUS
<1>2. n \div w \in Int
  OBVIOUS
<1>3. n = w * (n \div w) + (n % w)
  OBVIOUS
<1> QED
  BY <1>1, <1>2, <1>3

\* A quotient with a larger remainder part cannot catch up.
LEMMA Farther ==
  ASSUME NEW w \in Nat \ {0}, NEW q \in Int, NEW p \in Int, q < p
  PROVE  w * p >= w * q + w
<1>1. PICK d \in Nat \ {0} : p = q + d
  <2> WITNESS p - q \in Nat \ {0}
  <2> QED
    OBVIOUS
<1>2. w * p = w * q + w * d
  BY <1>1
<1>3. w * d >= w
  OBVIOUS
<1> QED
  BY <1>2, <1>3

\* The remainder is unique.
LEMMA Unique ==
  ASSUME NEW w \in Nat \ {0}, NEW q \in Int, NEW p \in Int,
         NEW r \in 0 .. w - 1, NEW s \in 0 .. w - 1, w * q + r = w * p + s
  PROVE  r = s
<1>1. CASE q = p
  BY <1>1
<1>2. CASE q < p
  BY <1>2, Farther
<1>3. CASE p < q
  BY <1>3, Farther
<1> QED
  BY <1>1, <1>2, <1>3

\* The remainder of the next number.
LEMMA NextMod ==
  ASSUME NEW w \in Nat \ {0}, NEW n \in Nat
  PROVE  (n + 1) % w = IF n % w = w - 1 THEN 0 ELSE (n % w) + 1
<1> DEFINE q == n \div w
           r == n % w
           p == (n + 1) \div w
           s == (n + 1) % w
<1>1. r \in 0 .. w - 1 /\ q \in Int /\ n = w * q + r
  BY DivMod
<1>2. s \in 0 .. w - 1 /\ p \in Int /\ n + 1 = w * p + s
  BY DivMod
<1> HIDE DEF q, r, p, s
<1>3. CASE r = w - 1
  <2>1. w * (q + 1) + 0 = w * p + s
    <3>1. w * (q + 1) = w * q + w
      BY <1>1
    <3>2. w * q \in Int /\ w * p \in Int
      BY <1>1, <1>2
    <3> QED
      BY <1>1, <1>2, <1>3, <3>1, <3>2
  <2>2. s = 0
    BY <1>1, <1>2, <2>1, Unique
  <2> QED
    BY <1>1, <1>3, <2>2 DEF r, s
<1>4. CASE r # w - 1
  <2>1. w * q + (r + 1) = w * p + s /\ r + 1 \in 0 .. w - 1
    BY <1>1, <1>2, <1>4
  <2>2. s = r + 1
    BY <1>1, <1>2, <2>1, Unique
  <2> QED
    BY <1>1, <1>4, <2>2 DEF r, s
<1> QED
  BY <1>3, <1>4

\* The update of line 225 gives the checksum of the header with the smaller TTL,
\* unless the old checksum was Word - 1.
LEMMA UpdateCorrect ==
  ASSUME NEW ttl \in Nat \ {0}, NEW rest \in Nat \ {0},
         NEW check \in 0 .. Word, check = Checksum(ttl, rest)
  PROVE  NewCheck(check, ttl - 1) = Checksum(ttl - 1, rest)
            <=> check # Word - 1
<1>1. Word \in Nat \ {0}
  BY RouterAssumption
<1> DEFINE n == ttl + rest - 2
           m == n % Word
<1>2. n \in Nat /\ n + 1 = ttl + rest - 1
  OBVIOUS
<1> HIDE DEF n
<1>3. m \in 0 .. Word - 1
  BY <1>1, <1>2
<1>4. (n + 1) % Word = IF m = Word - 1 THEN 0 ELSE m + 1
  BY <1>1, <1>2, NextMod
<1>5. check = Word - (((n + 1) % Word) + 1)
  BY <1>2 DEF Checksum, OnesSum
<1>6. Checksum(ttl - 1, rest) = Word - (m + 1)
  <2>1. (ttl - 1) + rest - 1 = n
    BY DEF n
  <2> QED
    BY <2>1 DEF Checksum, OnesSum
<1>7. NewCheck(check, ttl - 1) = (check + 1) % (Word + 1)
  <2>1. Not(Not(check) + Not((ttl - 1) + 1) + (ttl - 1)) - 1 = check + 1
    BY <1>1 DEF Not
  <2> QED
    BY <2>1 DEF NewCheck
<1> HIDE DEF m
<1>8. (check + 1) % (Word + 1) = check + 1
  <2>1. check + 1 \in 0 .. (Word + 1) - 1 /\ Word + 1 \in Nat \ {0}
    BY <1>1, <1>3, <1>4, <1>5
  <2> QED
    BY <2>1
<1> QED
  BY <1>1, <1>3, <1>4, <1>5, <1>6, <1>7, <1>8

\* Whatever is forwarded passes the next verification, but for the headers whose
\* checksum was Word - 1, and those fail it.
THEOREM CheckTheorem == Spec => []CheckKept
<1>1. BaseInv => CheckKept
  <2> SUFFICES ASSUME BaseInv, NEW p \in SentPackets
               PROVE  NewCheck(p.check, p.ttl - 1) = Checksum(p.ttl - 1, p.rest)
                         <=> p.check # Word - 1
    BY DEF CheckKept
  <2>1. Routed(p) /\ p \in Packets
    BY DEF BaseInv, TypeOK, InFlight, SentPackets
  <2>2. /\ p.ttl \in Nat \ {0} /\ p.rest \in Nat \ {0} /\ p.check \in 0 .. Word
        /\ p.check = Checksum(p.ttl, p.rest)
    BY <2>1, RouterAssumption DEF Routed, Verified
  <2> QED
    BY <2>2, UpdateCorrect
<1> QED
  BY <1>1, BaseInvariant, PTL

-----------------------------------------------------------------------------
(* No packet is lost or sent twice *)

\* OnePlace, with injections for cardinalities.
PlaceInv ==
    /\ {p \in Packets \ arriving : Verified(p)} =
          Queued \cup SentPackets \cup ReturnedPackets
    /\ Queued \cap SentPackets = {}
    /\ (Queued \cup SentPackets) \cap ReturnedPackets = {}
    /\ \A i, j \in 1 .. Len(que) : que[i] = que[j] => i = j
    /\ \A f, g \in sent : f.pkt = g.pkt => f = g
    /\ \A r, s \in returned : r.pkt = s.pkt => r = s

\* One record for each packet: as many records as packets.
LEMMA OneRecordEach ==
  ASSUME NEW S, IsFiniteSet({f.pkt : f \in S}),
         \A f, g \in S : f.pkt = g.pkt => f = g
  PROVE  Cardinality(S) = Cardinality({f.pkt : f \in S})
<1> DEFINE P == {f.pkt : f \in S}
           h == [p \in P |-> CHOOSE f \in S : f.pkt = p]
<1>1. \A p \in P : h[p] \in S /\ h[p].pkt = p
  OBVIOUS
<1>2. h \in [P -> S]
  BY <1>1
<1>3. \A p, o \in P : h[p] = h[o] => p = o
  BY <1>1
<1>4. ASSUME NEW f \in S PROVE \E p \in P : h[p] = f
  <2>1. f.pkt \in P
    OBVIOUS
  <2>2. h[f.pkt] \in S /\ h[f.pkt].pkt = f.pkt
    BY <1>1, <2>1
  <2>3. h[f.pkt] = f
    <3> HIDE DEF h
    <3> QED
      BY <2>2
  <2> QED
    BY <2>1, <2>3
<1> HIDE DEF h
<1>5. h \in Bijection(P, S)
  <2> HIDE DEF P
  <2>1. h \in Injection(P, S)
    BY <1>2, <1>3 DEF Injection, IsInjective
  <2>2. h \in Surjection(P, S)
    BY <1>2, <1>4 DEF Surjection
  <2> QED
    BY <2>1, <2>2 DEF Bijection
<1>6. ExistsBijection(P, S)
  BY <1>5 DEF ExistsBijection
<1> QED
  BY <1>6, FS_Bijection

\* PlaceInv gives OnePlace.
LEMMA PlaceOnePlace == BaseInv /\ PlaceInv => OnePlace
<1> SUFFICES ASSUME TypeOK, PlaceInv PROVE OnePlace
  BY DEF BaseInv, PlaceInv
<1>1. \A S : S \subseteq Packets => IsFiniteSet(S)
  BY RouterAssumption, FS_Subset
<1>2. Queued \subseteq Packets
  BY DEF Queued, TypeOK
<1>3. SentPackets \subseteq Packets /\ ReturnedPackets \subseteq Packets
  BY DEF PlaceInv
<1>4. Cardinality(sent) = Cardinality(SentPackets)
  BY <1>1, <1>3, OneRecordEach DEF SentPackets, PlaceInv
<1>5. Cardinality(returned) = Cardinality(ReturnedPackets)
  BY <1>1, <1>3, OneRecordEach DEF ReturnedPackets, PlaceInv
<1>6. Cardinality(Queued) = Len(que)
  <2> DEFINE h == [i \in 1 .. Len(que) |-> que[i]]
  <2>1. h \in Bijection(1 .. Len(que), Queued)
    <3>1. h \in [1 .. Len(que) -> Queued]
          /\ \A x \in Queued : \E i \in 1 .. Len(que) : h[i] = x
      BY DEF Queued
    <3>2. \A i, j \in 1 .. Len(que) : h[i] = h[j] => i = j
      BY DEF PlaceInv
    <3> HIDE DEF h
    <3>3. h \in Injection(1 .. Len(que), Queued)
      BY <3>1, <3>2 DEF Injection, IsInjective
    <3>4. h \in Surjection(1 .. Len(que), Queued)
      BY <3>1 DEF Surjection
    <3> QED
      BY <3>3, <3>4 DEF Bijection
  <2>2. ExistsBijection(1 .. Len(que), Queued)
    BY <2>1 DEF ExistsBijection
  <2>3. Len(que) \in Nat
    BY DEF TypeOK
  <2>4. IsFiniteSet(1 .. Len(que)) /\ Cardinality(1 .. Len(que)) = Len(que)
    BY <2>3, FS_Interval
  <2> QED
    BY <2>2, <2>4, FS_Bijection
<1> QED
  BY <1>4, <1>5, <1>6 DEF OnePlace, PlaceInv

\* Where the packets are depends on four variables.
LEMMA PlaceFrame ==
  ASSUME PlaceInv, UNCHANGED <<arriving, que, sent, returned>>
  PROVE  PlaceInv'
<1>1. Queued' = Queued /\ SentPackets' = SentPackets
      /\ ReturnedPackets' = ReturnedPackets
  BY DEF Queued, SentPackets, ReturnedPackets
<1>2. {p \in Packets \ arriving' : Verified(p)} =
         {p \in Packets \ arriving : Verified(p)}
  OBVIOUS
<1>3. /\ \A i, j \in 1 .. Len(que') : que'[i] = que'[j] => i = j
      /\ \A f, g \in sent' : f.pkt = g.pkt => f = g
      /\ \A r, s \in returned' : r.pkt = s.pkt => r = s
  BY DEF PlaceInv
<1> QED
  BY <1>1, <1>2, <1>3 DEF PlaceInv

\* A reply moves the head of the queue to a link, and keeps PlaceInv.
LEMMA ContinuePlace ==
  ASSUME TypeOK, PlaceInv, NEW h, Continue(h), UNCHANGED <<arriving, returned>>
  PROVE  PlaceInv'
<1>1. CASE que = <<>>
  BY <1>1, PlaceFrame DEF Continue
<1>2. CASE que # <<>>
  <2>1. que' = Tail(que) /\ sent' = sent \cup {[pkt |-> que[1], mac |-> h]}
    BY <1>2 DEF Continue, Rest, TypeOK
  <2>2. /\ 1 \in 1 .. Len(que) /\ Len(que) \in Nat \ {0}
        /\ Len(que') = Len(que) - 1
        /\ \A i \in 1 .. Len(que') :
              i + 1 \in 1 .. Len(que) /\ que'[i] = que[i + 1]
    BY <1>2, <2>1 DEF TypeOK
  <2>3. SentPackets' = SentPackets \cup {que[1]}
    BY <2>1, SendOne
  <2>4. ReturnedPackets' = ReturnedPackets
    BY DEF ReturnedPackets
  <2>5. que[1] \in Queued /\ que[1] \notin Queued' /\ Queued' \subseteq Queued
    <3>1. que[1] \in Queued /\ Queued' \subseteq Queued
      BY <2>2 DEF Queued
    <3>2. \A i \in 1 .. Len(que') : que'[i] # que[1]
      BY <2>2 DEF PlaceInv
    <3> QED
      BY <3>1, <3>2 DEF Queued
  <2>6. Queued = Queued' \cup {que[1]}
    <3>1. ASSUME NEW i \in 1 .. Len(que), i # 1 PROVE que[i] \in Queued'
      <4>1. i - 1 \in 1 .. Len(que') /\ que'[i - 1] = que[i]
        BY <2>2, <3>1
      <4> QED
        BY <4>1 DEF Queued
    <3> QED
      BY <2>5, <3>1 DEF Queued
  <2>7. \A i, j \in 1 .. Len(que') : que'[i] = que'[j] => i = j
    BY <2>2 DEF PlaceInv
  <2>8. \A f, g \in sent' : f.pkt = g.pkt => f = g
    <3> DEFINE e == [pkt |-> que[1], mac |-> h]
    <3>1. sent' = sent \cup {e} /\ e.pkt = que[1]
      BY <2>1
    <3> HIDE DEF e
    <3>2. \A f \in sent : f.pkt # que[1]
      BY <2>5 DEF PlaceInv, SentPackets
    <3> QED
      BY <3>1, <3>2 DEF PlaceInv
  <2> QED
    BY <2>3, <2>4, <2>5, <2>6, <2>7, <2>8 DEF PlaceInv
<1> QED
  BY <1>1, <1>2

\* A packet that arrives is in no other place.
LEMMA Fresh ==
  ASSUME TypeOK, PlaceInv, NEW p \in Packets, Receive(p)
  PROVE  /\ p \notin Queued \cup SentPackets \cup ReturnedPackets
         /\ \A x \in Packets \ arriving' : x \in Packets \ arriving \/ x = p
         /\ Packets \ arriving' = (Packets \ arriving) \cup {p}
BY DEF PlaceInv, Receive

\* Every step keeps PlaceInv.
LEMMA NextPlace == BaseInv /\ PlaceInv /\ [Next]_vars => PlaceInv'
<1> SUFFICES ASSUME TypeOK, PlaceInv, [Next]_vars PROVE PlaceInv'
  BY DEF BaseInv
<1>0. ASSUME NEW p \in Packets, Receive(p), Verified(p)
      PROVE  {x \in Packets \ arriving' : Verified(x)} =
                {x \in Packets \ arriving : Verified(x)} \cup {p}
  BY <1>0, Fresh
<1>1. ASSUME NEW p \in Packets, Drop(p) PROVE PlaceInv'
  <2>1. {x \in Packets \ arriving' : Verified(x)} =
           {x \in Packets \ arriving : Verified(x)}
    BY <1>1, Fresh DEF Drop
  <2>2. UNCHANGED <<que, sent, returned>> /\ Queued' = Queued
        /\ SentPackets' = SentPackets /\ ReturnedPackets' = ReturnedPackets
    BY <1>1 DEF Drop, Queued, SentPackets, ReturnedPackets
  <2> QED
    BY <2>1, <2>2 DEF PlaceInv
<1>2. ASSUME NEW p \in Packets, Return(p) PROVE PlaceInv'
  <2>1. PICK t \in {0, 3, 11} :
          returned' = returned \cup {[pkt |-> p, type |-> t]}
    BY <1>2 DEF Return, Icmp
  <2> DEFINE e == [pkt |-> p, type |-> t]
  <2>2. returned' = returned \cup {e} /\ e.pkt = p
    BY <2>1
  <2> HIDE DEF e
  <2>3. ReturnedPackets' = ReturnedPackets \cup {p}
    <3>1. {r.pkt : r \in returned'} = {r.pkt : r \in returned} \cup {e.pkt}
      BY <2>2
    <3> QED
      BY <2>2, <3>1 DEF ReturnedPackets
  <2>4. UNCHANGED <<que, sent>> /\ Queued' = Queued
        /\ SentPackets' = SentPackets
    BY <1>2 DEF Return, Queued, SentPackets
  <2>5. p \notin Queued \cup SentPackets \cup ReturnedPackets
    BY <1>2, Fresh DEF Return
  <2>6. \A r, s \in returned' : r.pkt = s.pkt => r = s
    <3>1. \A r \in returned : r.pkt # p
      BY <2>5 DEF ReturnedPackets
    <3> QED
      BY <2>2, <3>1 DEF PlaceInv
  <2>7. {x \in Packets \ arriving' : Verified(x)} =
           {x \in Packets \ arriving : Verified(x)} \cup {p}
    BY <1>0, <1>2 DEF Return
  <2> QED
    BY <2>3, <2>4, <2>5, <2>6, <2>7 DEF PlaceInv
<1>3. ASSUME NEW p \in Packets, Forward(p) PROVE PlaceInv'
  <2> DEFINE e == [pkt |-> p, mac |-> MacOf(Hop(p))]
  <2>1. sent' = sent \cup {e} /\ e.pkt = p /\ SentPackets' = SentPackets \cup {p}
    BY <1>3, SendOne DEF Forward
  <2> HIDE DEF e
  <2>2. UNCHANGED <<que, returned>> /\ Queued' = Queued
        /\ ReturnedPackets' = ReturnedPackets
    BY <1>3 DEF Forward, Queued, ReturnedPackets
  <2>3. p \notin Queued \cup SentPackets \cup ReturnedPackets
    BY <1>3, Fresh DEF Forward
  <2>4. \A f, g \in sent' : f.pkt = g.pkt => f = g
    <3>1. \A f \in sent : f.pkt # p
      BY <2>3 DEF SentPackets
    <3> QED
      BY <2>1, <3>1 DEF PlaceInv
  <2>5. {x \in Packets \ arriving' : Verified(x)} =
           {x \in Packets \ arriving : Verified(x)} \cup {p}
    BY <1>0, <1>3 DEF Forward, Routed
  <2> QED
    BY <2>1, <2>2, <2>3, <2>4, <2>5 DEF PlaceInv
<1>4. ASSUME NEW p \in Packets, Enqueue(p) PROVE PlaceInv'
  <2>1. que' = Append(que, p) /\ UNCHANGED <<sent, returned>>
        /\ SentPackets' = SentPackets /\ ReturnedPackets' = ReturnedPackets
    BY <1>4 DEF Enqueue, SentPackets, ReturnedPackets
  <2>2. /\ Len(que) \in Nat /\ Len(que') = Len(que) + 1
        /\ que'[Len(que) + 1] = p
        /\ \A i \in 1 .. Len(que) : que'[i] = que[i]
        /\ \A i \in 1 .. Len(que') : i \in 1 .. Len(que) \/ i = Len(que) + 1
    BY <2>1 DEF TypeOK
  <2>3. Queued' = Queued \cup {p}
    <3>1. Len(que) + 1 \in 1 .. Len(que')
          /\ \A i \in 1 .. Len(que) : i \in 1 .. Len(que')
      BY <2>2
    <3> QED
      BY <2>2, <3>1 DEF Queued
  <2>4. p \notin Queued \cup SentPackets \cup ReturnedPackets
    BY <1>4, Fresh DEF Enqueue
  <2>5. \A i, j \in 1 .. Len(que') : que'[i] = que'[j] => i = j
    <3>1. \A i \in 1 .. Len(que) : que[i] # p
      BY <2>4 DEF Queued
    <3> QED
      BY <2>2, <3>1 DEF PlaceInv
  <2>6. {x \in Packets \ arriving' : Verified(x)} =
           {x \in Packets \ arriving : Verified(x)} \cup {p}
    BY <1>0, <1>4 DEF Enqueue, Routed
  <2> QED
    BY <2>1, <2>3, <2>4, <2>5, <2>6 DEF PlaceInv
<1>5. ASSUME NEW p \in Packets, ReceiveReply(p) PROVE PlaceInv'
  BY <1>5, ContinuePlace DEF ReceiveReply
<1>6. ASSUME NEW h \in Announcers, ReceiveAnnouncement(h) PROVE PlaceInv'
  BY <1>6, ContinuePlace DEF ReceiveAnnouncement
<1>7. ASSUME NEW q \in Questions, ReceiveRequest(q) PROVE PlaceInv'
  BY <1>7, PlaceFrame DEF ReceiveRequest
<1>8. ASSUME NEW p \in Packets, Answer(p) \/ Lose(p) PROVE PlaceInv'
  BY <1>8, PlaceFrame DEF Answer, Lose
<1>9. CASE UNCHANGED vars
  BY <1>9, PlaceFrame DEF vars, links
<1> QED
  BY <1>1, <1>2, <1>3, <1>4, <1>5, <1>6, <1>7, <1>8, <1>9 DEF Next, Packet

\* A good packet that was received is in exactly one place, and was sent or
\* answered at most once.
THEOREM OnePlaceTheorem == Spec => []OnePlace
<1>1. Init => PlaceInv
  <2> SUFFICES ASSUME Init PROVE PlaceInv
    OBVIOUS
  <2>1. Queued = {} /\ SentPackets = {} /\ ReturnedPackets = {} /\ Len(que) = 0
    BY DEF Init, Queued, SentPackets, ReturnedPackets
  <2> QED
    BY <2>1 DEF Init, PlaceInv
<1> QED
  BY <1>1, NextPlace, PlaceOnePlace, BaseInvariant, PTL DEF Spec
=============================================================================
