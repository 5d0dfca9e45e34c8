--------------------------- MODULE BrokerProofs ---------------------------
(***************************************************************************)
(* Theorems about Broker.tla, for any finite set of names, any             *)
(* subscriptions and topics, and any number of connections, requests and   *)
(* datagrams: the server's tables agree in the middle of a round, its      *)
(* reads do not wait, and it keeps what PubSub promises.  Then theorems    *)
(* about Wire.tla, for any sizes of bytes, datagrams and buffer, and about *)
(* TopicMatch.tla, for any subscriptions and topics.                       *)
(***************************************************************************)
EXTENDS Broker, Wire, FiniteSetTheorems, WellFoundedInduction, TLAPS

N == Cardinality(Ids)

\* The first three entries do not move.
Fixed ==
    /\ poll_fds[0].fd = stdinfd /\ poll_fds[1].fd = sockfd
    /\ poll_fds[2].fd = listenfd

\* A descriptor in use has an owner; a message waits only for who is there,
\* and a request only on a descriptor in use.
Held ==
    \A f \in Fds :
        /\ end[f] # "none" => owner[f] \in Ids
        /\ end[f] = "none" => inq[f] = <<>>
        /\ end[f] # "open" => out[f] = <<>>

IInv == TypeOK /\ Fixed /\ Held /\ TableAgrees /\ NeverWaits

-----------------------------------------------------------------------------
(* Numbers and lists.                                                      *)

LEMMA NType == N \in Nat
  BY IdsAssumption, FS_CardinalityType DEF N

LEMMA Descriptors ==
    /\ Fds = 5 .. 4 + N /\ N \in Nat
    /\ stdinfd \notin Fds /\ sockfd \notin Fds /\ listenfd \notin Fds /\ 0 \notin Fds
    /\ stdinfd # sockfd /\ sockfd # listenfd /\ stdinfd # listenfd
  BY NType DEF Fds, N, stdinfd, sockfd, listenfd

\* A nonempty set of numbers of 1 .. n has a least element.
LEMMA LeastElement ==
    ASSUME NEW n \in Nat, NEW S \in SUBSET (1 .. n), S # {}
    PROVE  \E x \in S : \A y \in S : x <= y
  <1> DEFINE T == {1 .. x : x \in S}
  <1>1. T # {} /\ T \subseteq FiniteSubsetsOf(1 .. n)
    <2>1. \A x \in S : 1 .. x \subseteq 1 .. n /\ IsFiniteSet(1 .. x)
      BY FS_Interval
    <2> QED BY <2>1 DEF FiniteSubsetsOf
  <1>2. IsWellFoundedOn(StrictSubsetOrdering(1 .. n), FiniteSubsetsOf(1 .. n))
    BY FS_StrictSubsetOrderingWellFounded
  <1>3. \E u \in T : \A v \in T : <<v, u>> \notin StrictSubsetOrdering(1 .. n)
    <2> HIDE DEF T
    <2> QED BY <1>1, <1>2, WFMin
  <1>4. PICK x \in S :
            \A y \in S : <<1 .. y, 1 .. x>> \notin StrictSubsetOrdering(1 .. n)
    BY <1>3
  <1>5. ASSUME NEW y \in S, y < x PROVE FALSE
    <2>1. 1 .. y \subseteq 1 .. x /\ 1 .. x # 1 .. y
      <3>1. x \in 1 .. x /\ x \notin 1 .. y
        BY <1>5
      <3>2. \A z \in 1 .. y : z \in 1 .. x
        BY <1>5
      <3> QED BY <3>1, <3>2
    <2>2. 1 .. y \in SUBSET (1 .. n) /\ 1 .. x \in SUBSET (1 .. n)
      OBVIOUS
    <2> QED BY <1>4, <2>1, <2>2 DEF StrictSubsetOrdering
  <1> QED BY <1>5

\* Erase removes the first occurrence, if there is one.
LEMMA EraseFirst ==
    ASSUME NEW S, NEW s \in Seq(S), NEW p
    PROVE  /\ Erase(s, p) \in Seq(S)
           /\ \/ Erase(s, p) = s /\ \A n \in 1 .. Len(s) : s[n] # p
              \/ \E n \in 1 .. Len(s) :
                    /\ s[n] = p /\ \A m \in 1 .. n - 1 : s[m] # p
                    /\ Erase(s, p) = SubSeq(s, 1, n - 1) \o SubSeq(s, n + 1, Len(s))
  <1> DEFINE First(n) == s[n] = p /\ \A m \in 1 .. n - 1 : s[m] # p
             x == CHOOSE n \in 1 .. Len(s) : First(n)
  <1>1. CASE \A n \in 1 .. Len(s) : s[n] # p
    BY <1>1 DEF Erase
  <1>2. CASE \E n \in 1 .. Len(s) : s[n] = p
    <2>1. Len(s) \in Nat
      OBVIOUS
    <2>2. \E n \in 1 .. Len(s) : First(n)
      <3> DEFINE W == {n \in 1 .. Len(s) : s[n] = p}
      <3>1. PICK n \in W : \A m \in W : n <= m
        BY <1>2, <2>1, LeastElement
      <3>2. \A m \in 1 .. n - 1 : m \in 1 .. Len(s) /\ ~(n <= m)
        BY <2>1
      <3> QED BY <3>1, <3>2
    <2>3. x \in 1 .. Len(s) /\ First(x)
      <3> HIDE DEF First
      <3> QED BY <2>2
    <2>4. Erase(s, p) = SubSeq(s, 1, x - 1) \o SubSeq(s, x + 1, Len(s))
      BY <1>2 DEF Erase
    <2> HIDE DEF x
    <2>5. SubSeq(s, 1, x - 1) \in Seq(S) /\ SubSeq(s, x + 1, Len(s)) \in Seq(S)
      BY <2>1, <2>3
    <2>6. Erase(s, p) \in Seq(S)
      BY <2>4, <2>5
    <2> QED BY <2>3, <2>4, <2>6
  <1> QED BY <1>1, <1>2

-----------------------------------------------------------------------------
(* The entries of the poll array.                                          *)

\* Two entries in use have different descriptors, and only one from the third
\* on has that of a connection, which has not ended for the server.
LEMMA Entries ==
    ASSUME TypeOK, Fixed, TableAgrees, NEW j \in 0 .. num_clients - 1
    PROVE  /\ j \in DOMAIN poll_fds
           /\ poll_fds[j].fd = stdinfd <=> j = 0
           /\ poll_fds[j].fd = sockfd <=> j = 1
           /\ poll_fds[j].fd = listenfd <=> j = 2
           /\ poll_fds[j].fd \in Fds <=> j \in Used
           /\ j \in Used => end[poll_fds[j].fd] # "none"
           /\ \A k \in 0 .. num_clients - 1 : poll_fds[j].fd = poll_fds[k].fd => j = k
  <1>1. num_clients \in 3 .. 3 + N /\ DOMAIN poll_fds = 0 .. 2 + N
    BY DEF TypeOK, N
  <1>2. \A k \in 0 .. num_clients - 1 : k = 0 \/ k = 1 \/ k = 2 \/ k \in Used
    BY <1>1, Descriptors DEF Used
  <1>3. \A k \in Used : poll_fds[k].fd \in Fds /\ end[poll_fds[k].fd] # "none"
    BY DEF TableAgrees
  <1>4. \A k, l \in Used : poll_fds[k].fd = poll_fds[l].fd => k = l
    BY DEF TableAgrees
  <1>5. 0 \notin Used /\ 1 \notin Used /\ 2 \notin Used
    BY DEF Used
  <1>6. j \in DOMAIN poll_fds
    BY <1>1, Descriptors
  <1> QED BY <1>2, <1>3, <1>4, <1>5, <1>6, Descriptors DEF Fixed

\* The name of a descriptor in use is its owner.
LEMMA KeyOwner ==
    ASSUME TableAgrees, Held, NEW f \in Fds, end[f] # "none"
    PROVE  KeyOf(f) = owner[f] /\ owner[f] \in Ids /\ id_client[owner[f]] = f
  <1>1. owner[f] \in Ids
    BY DEF Held
  <1>2. \A k \in Ids : id_client[k] = f <=> k = owner[f]
    BY DEF TableAgrees
  <1> QED BY <1>1, <1>2 DEF KeyOf

\* A name on line owns its descriptor.
LEMMA OwnerOf ==
    ASSUME TypeOK, TableAgrees, NEW k \in Ids, id_client[k] # 0
    PROVE  id_client[k] \in Fds /\ end[id_client[k]] # "none" /\ owner[id_client[k]] = k
  <1>1. id_client[k] \in Fds
    BY DEF TypeOK
  <1> QED BY <1>1 DEF TableAgrees

\* While a descriptor is free, so is a place in the poll array.
LEMMA Room ==
    ASSUME TypeOK, TableAgrees, NEW f \in Fds, end[f] = "none"
    PROVE  num_clients \in 3 .. 2 + N
  <1> DEFINE Free == Fds \ {f}
             g == [j \in Used |-> poll_fds[j].fd]
  <1>1. num_clients \in 3 .. 3 + N
    BY DEF TypeOK, N
  <1>2. g \in [Used -> Free] /\ \A j, k \in Used : g[j] = g[k] => j = k
    BY DEF TableAgrees
  <1>3. g \in Injection(Used, Free)
    BY <1>2 DEF Injection, IsInjective
  <1>4. IsFiniteSet(Free) /\ Cardinality(Free) = N - 1
    <2>1. IsFiniteSet(Fds) /\ Cardinality(Fds) = N
      <3>1. \A b \in Int : /\ IsFiniteSet(5 .. b)
                           /\ Cardinality(5 .. b) = IF 5 > b THEN 0 ELSE b - 5 + 1
        BY FS_Interval
      <3>2. 4 + N \in Int /\ (IF 5 > 4 + N THEN 0 ELSE 4 + N - 5 + 1) = N
        BY Descriptors
      <3>3. PICK b \in Int : b = 4 + N
        BY <3>2
      <3>4. IsFiniteSet(5 .. b) /\ Cardinality(5 .. b) = N
        <4>1. (IF 5 > b THEN 0 ELSE b - 5 + 1) = N
          BY <3>3, Descriptors
        <4> QED BY <3>1, <4>1
      <3>5. Fds = 5 .. b
        BY <3>3, Descriptors
      <3> QED BY <3>4, <3>5
    <2> QED BY <2>1, FS_RemoveElement
  <1> HIDE DEF g
  <1>5. Cardinality(Used) <= N - 1
    BY <1>3, <1>4, FS_Injection
  <1>6. Cardinality(Used) = num_clients - 3
    <2>1. num_clients - 1 \in Int
      BY <1>1, Descriptors
    <2>2. Cardinality(3 .. num_clients - 1)
            = IF 3 > num_clients - 1 THEN 0 ELSE num_clients - 1 - 3 + 1
      BY <2>1, FS_Interval
    <2> QED BY <1>1, <2>2, Descriptors DEF Used
  <1> QED BY <1>1, <1>5, <1>6, Descriptors

\* A request changes the subscriptions of one name as PubSub says.
LEMMA ApplyStep ==
    ASSUME TypeOK, NEW f, KeyOf(f) \in Ids, NEW r \in Requests, Apply(r, f)
    PROVE  /\ topic_subscribers' \in [Ids -> Seq(Wanted)]
           /\ topic_subscribers' =
                 [topic_subscribers EXCEPT ![KeyOf(f)] = topic_subscribers'[KeyOf(f)]]
           /\ Abstract!Follows(topic_subscribers'[KeyOf(f)],
                               topic_subscribers[KeyOf(f)], r)
  <1> DEFINE k == KeyOf(f)
             s == topic_subscribers[k]
             u == IF r.type = 1 THEN Append(s, r.topic) ELSE Erase(s, r.topic)
  <1>1. topic_subscribers \in [Ids -> Seq(Wanted)] /\ s \in Seq(Wanted)
    BY DEF TypeOK
  <1>2. r.topic \in Wanted
    BY DEF Requests
  <1>3. topic_subscribers' = [topic_subscribers EXCEPT ![k] = u]
    BY DEF Apply
  <1>4. u \in Seq(Wanted)
    <2>1. Erase(s, r.topic) \in Seq(Wanted)
      BY <1>1, EraseFirst
    <2> QED BY <1>1, <1>2, <2>1
  <1>5. topic_subscribers'[k] = u
    BY <1>1, <1>3
  <1>6. Abstract!Follows(u, s, r)
    <2>1. CASE r.type = 1
      BY <2>1 DEF Abstract!Follows
    <2>2. CASE r.type # 1
      <3>1. u = Erase(s, r.topic)
        BY <2>2
      <3> HIDE DEF u, s
      <3> QED BY <1>1, <2>2, <3>1, EraseFirst DEF Abstract!Follows, Abstract!Without
    <2> QED BY <2>1, <2>2
  <1> HIDE DEF u
  <1>7. topic_subscribers' \in [Ids -> Seq(Wanted)]
    BY <1>1, <1>3, <1>4
  <1> QED BY <1>3, <1>5, <1>6, <1>7

-----------------------------------------------------------------------------
(* The invariant.                                                          *)

LEMMA InitInv == Init => IInv
  <1> SUFFICES ASSUME Init PROVE IInv
    OBVIOUS
  <1> USE DEF Init
  <1>1. TypeOK
    <2>1. 3 \in 3 .. 3 + N /\ 3 \in 0 .. 3 + N
      BY Descriptors
    <2>2. poll_fds \in [0 .. 2 + N -> [fd : {stdinfd, sockfd, listenfd} \cup Fds,
                                      revents : BOOLEAN]]
      BY DEF Slot, N
    <2>3. <<>> \in Seq(Ids) /\ <<>> \in Seq(Wanted) /\ <<>> \in Seq(Requests)
          /\ <<>> \in Seq(Sent)
      OBVIOUS
    <2> QED BY <2>1, <2>2, <2>3 DEF TypeOK, N
  <1>2. Fixed
    BY Descriptors DEF Fixed, Slot, N
  <1>3. Held
    BY DEF Held
  <1>4. TableAgrees
    <2>1. Used = {}
      BY DEF Used
    <2> QED BY <2>1, Descriptors DEF TableAgrees
  <1>5. NeverWaits
    BY DEF NeverWaits
  <1> QED BY <1>1, <1>2, <1>3, <1>4, <1>5 DEF IInv

\* What happens outside adds to what can be read, and takes nothing away.
LEMMA WorldStep ==
    ASSUME IInv, World
    PROVE  IInv'
  <1>1. UNCHANGED <<server, owner>>
    BY DEF World, Connect, SendId, Read, Leave, Ask, Datagram, Console, link
  <1>2. UNCHANGED <<up, poll_fds, num_clients, i, id_client, topic_subscribers, owner>>
    BY <1>1 DEF server
  <1>3. TypeOK' /\ Held' /\ (\A f \in Fds : end'[f] = "none" <=> end[f] = "none")
        /\ (\A fd \in {stdinfd, sockfd, listenfd} \cup Fds : Readable(fd) => Readable(fd)')
    <2> USE DEF IInv
    <2>1. ASSUME NEW k \in Ids, Connect(k) PROVE <1>3
      <3>1. backlog' \in Seq(Ids) /\ backlog' # <<>>
        <4>1. backlog \in Seq(Ids)
          BY DEF TypeOK
        <4> QED BY <2>1, <4>1 DEF Connect
      <3>2. UNCHANGED <<inq, out, end, stdin, udp, named>>
        BY <2>1 DEF Connect, link
      <3> QED BY <1>2, <3>1, <3>2 DEF TypeOK, Held, Readable
    <2>2. CASE SendId
      <3>1. named' \in BOOLEAN /\ UNCHANGED <<inq, out, end, stdin, udp, backlog>>
        BY <2>2 DEF SendId, link
      <3> QED BY <1>2, <3>1 DEF TypeOK, Held, Readable
    <2>3. ASSUME NEW f \in Fds, Read(f) PROVE <1>3
      <3>1. out' = [out EXCEPT ![f] = Tail(@)] /\ out[f] # <<>>
            /\ UNCHANGED <<inq, end, stdin, udp, backlog, named>>
        BY <2>3 DEF Read, world
      <3>2. end[f] = "open"
        BY <3>1 DEF Held
      <3>3. out' \in [Fds -> Seq(Sent)]
        BY <3>1 DEF TypeOK
      <3>4. Held'
        BY <1>2, <3>1, <3>2 DEF TypeOK, Held
      <3> QED BY <1>2, <3>1, <3>3, <3>4 DEF TypeOK, Readable
    <2>4. ASSUME NEW f \in Fds, Leave(f) PROVE <1>3
      <3>1. /\ end[f] = "open"
            /\ end' = [end EXCEPT ![f] = IF out[f] = <<>> THEN "fin" ELSE "rst"]
            /\ out' = [out EXCEPT ![f] = <<>>]
            /\ UNCHANGED <<inq, stdin, udp, backlog, named>>
        BY <2>4 DEF Leave, world
      <3>2. out' \in [Fds -> Seq(Sent)]
            /\ end' \in [Fds -> {"none", "open", "fin", "rst", "eof"}]
        BY <3>1 DEF TypeOK
      <3>3. \A g \in Fds : /\ end'[g] = "none" <=> end[g] = "none"
                           /\ end[g] \in {"fin", "rst", "eof"} => end'[g] = end[g]
                           /\ end'[g] # "open" => out'[g] = <<>>
        BY <3>1 DEF TypeOK, Held
      <3>4. Held'
        BY <1>2, <3>1, <3>3 DEF TypeOK, Held
      <3>5. \A fd \in {stdinfd, sockfd, listenfd} \cup Fds : Readable(fd) => Readable(fd)'
        BY <3>1, <3>3 DEF Readable
      <3> QED BY <1>2, <3>1, <3>2, <3>3, <3>4, <3>5 DEF TypeOK
    <2>5. ASSUME NEW f \in Fds, NEW r \in Requests, Ask(f, r) PROVE <1>3
      <3>1. /\ end[f] = "open" /\ inq' = [inq EXCEPT ![f] = Append(@, r)]
            /\ UNCHANGED <<out, end, stdin, udp, backlog, named>>
        BY <2>5 DEF Ask, world
      <3>2. inq' \in [Fds -> Seq(Requests)] /\ inq'[f] # <<>>
        <4>1. inq \in [Fds -> Seq(Requests)]
          BY DEF TypeOK
        <4>2. Append(inq[f], r) \in Seq(Requests) /\ Append(inq[f], r) # <<>>
          BY <4>1
        <4> QED BY <3>1, <4>1, <4>2
      <3>3. \A g \in Fds : g # f => inq'[g] = inq[g]
        BY <3>1 DEF TypeOK
      <3>4. Held'
        BY <1>2, <3>1, <3>3 DEF Held
      <3>5. \A fd \in {stdinfd, sockfd, listenfd} \cup Fds : Readable(fd) => Readable(fd)'
        BY <3>1, <3>2, <3>3 DEF Readable
      <3> QED BY <1>2, <3>1, <3>2, <3>4, <3>5 DEF TypeOK
    <2>6. ASSUME NEW t \in Sent, Datagram(t) PROVE <1>3
      <3>1. udp' \in Seq(Sent) /\ udp' # <<>>
        BY <2>6 DEF Datagram, TypeOK
      <3>2. UNCHANGED <<inq, out, end, stdin, backlog, named>>
        BY <2>6 DEF Datagram, link
      <3> QED BY <1>2, <3>1, <3>2 DEF TypeOK, Held, Readable
    <2>7. CASE Console
      <3>1. stdin' = TRUE /\ UNCHANGED <<inq, out, end, udp, backlog, named>>
        BY <2>7 DEF Console, link
      <3> QED BY <1>2, <3>1 DEF TypeOK, Held, Readable
    <2> QED BY <2>1, <2>2, <2>3, <2>4, <2>5, <2>6, <2>7 DEF World
  <1>4. Fixed'
    BY <1>2 DEF IInv, Fixed
  <1>5. TableAgrees'
    BY <1>2, <1>3 DEF IInv, TableAgrees, Used
  <1>6. NeverWaits'
    <2>1. \A j \in i .. num_clients - 1 :
            poll_fds[j].fd \in {stdinfd, sockfd, listenfd} \cup Fds
      <3> SUFFICES ASSUME NEW j \in i .. num_clients - 1
                   PROVE poll_fds[j].fd \in {stdinfd, sockfd, listenfd} \cup Fds
        OBVIOUS
      <3>1. j \in 0 .. 2 + N
        BY Descriptors DEF IInv, TypeOK, N
      <3> QED BY <3>1 DEF IInv, TypeOK, N
    <2> QED BY <1>2, <1>3, <2>1 DEF IInv, NeverWaits
  <1> QED BY <1>3, <1>4, <1>5, <1>6 DEF IInv

\* revents is what is readable now, at all entries in use.
LEMMA PollStep ==
    ASSUME IInv, Poll
    PROVE  IInv'
  <1>1. /\ UNCHANGED <<up, num_clients, id_client, topic_subscribers, owner, inq, out, end,
                      stdin, udp, backlog, named>>
        /\ i' = 0
    BY DEF Poll, link, world
  <1>2. poll_fds' = [j \in DOMAIN poll_fds |->
                       IF j \in Watched
                       THEN [poll_fds[j] EXCEPT !.revents = Readable(poll_fds[j].fd)]
                       ELSE poll_fds[j]]
    BY DEF Poll
  <1> DEFINE E == {stdinfd, sockfd, listenfd} \cup Fds
             R == [fd : E, revents : BOOLEAN]
  <1>3. poll_fds \in [0 .. 2 + N -> R] /\ num_clients \in 3 .. 3 + N
    BY DEF IInv, TypeOK, N
  <1>4. \A fd \in E : Readable(fd) \in BOOLEAN
    BY DEF Readable, IInv, TypeOK
  <1>5. \A j \in 0 .. 2 + N :
            /\ poll_fds'[j] \in R /\ poll_fds'[j].fd = poll_fds[j].fd
            /\ j \in Watched => poll_fds'[j].revents = Readable(poll_fds[j].fd)
    BY <1>2, <1>3, <1>4
  <1>6. poll_fds' \in [0 .. 2 + N -> R]
    <2> HIDE DEF R
    <2> QED BY <1>2, <1>3, <1>5
  <1>7. TypeOK'
    BY <1>1, <1>6, Descriptors DEF IInv, TypeOK, N
  <1>8. Fixed'
    <2>1. 0 \in 0 .. 2 + N /\ 1 \in 0 .. 2 + N /\ 2 \in 0 .. 2 + N
      BY Descriptors
    <2> QED BY <1>5, <2>1 DEF IInv, Fixed
  <1>9. Held'
    BY <1>1 DEF IInv, Held
  <1>10. \A j \in Used : j \in 0 .. 2 + N
    BY <1>3, Descriptors DEF Used
  <1>11. TableAgrees'
    <2>1. \A j \in Used : poll_fds'[j].fd = poll_fds[j].fd
      BY <1>5, <1>10
    <2>2. Used' = Used
      BY <1>1 DEF Used
    <2> QED BY <1>1, <2>1, <2>2 DEF IInv, TableAgrees
  <1>12. NeverWaits'
    <2>1. \A fd : Readable(fd)' = Readable(fd)
      BY <1>1 DEF Readable
    <2>2. \A j \in 0 .. num_clients - 1 : j \in 0 .. 2 + N /\ j \in Watched
      BY <1>3, Descriptors DEF Watched
    <2> QED BY <1>1, <1>5, <2>1, <2>2 DEF NeverWaits
  <1> QED BY <1>7, <1>8, <1>9, <1>11, <1>12 DEF IInv

\* The entry that has its turn.
LEMMA TurnFacts ==
    ASSUME TypeOK, NEW j, Turn(j)
    PROVE  /\ j \in 0 .. num_clients - 1 /\ j \in i .. num_clients - 1
           /\ i' = j + 1 /\ i' \in 0 .. 3 + N /\ up = "on" /\ poll_fds[j].revents
           /\ num_clients \in 3 .. 3 + N /\ i \in 0 .. 3 + N
  <1>1. num_clients \in 3 .. 3 + N /\ i \in 0 .. 3 + N
    BY DEF TypeOK, N
  <1>2. j \in i .. num_clients - 1 /\ i' = j + 1 /\ up = "on" /\ poll_fds[j].revents
    BY DEF Turn
  <1> QED BY <1>1, <1>2, Descriptors

LEMMA StdinStep ==
    ASSUME IInv, NEW j, Stdin(j)
    PROVE  IInv'
  <1>1. /\ UNCHANGED <<poll_fds, num_clients, id_client, topic_subscribers, owner, inq, out,
                      end, udp, backlog, named>>
        /\ up' = "exit" /\ stdin' = FALSE /\ Turn(j)
    BY DEF Stdin, link
  <1>2. i' \in 0 .. 3 + N
    BY <1>1, TurnFacts DEF IInv
  <1>3. TypeOK'
    BY <1>1, <1>2 DEF IInv, TypeOK, N
  <1>4. Fixed' /\ Held' /\ TableAgrees'
    BY <1>1 DEF IInv, Fixed, Held, TableAgrees, Used
  <1>5. NeverWaits'
    BY <1>1 DEF NeverWaits
  <1> QED BY <1>3, <1>4, <1>5 DEF IInv

\* A step at entry j that leaves the other descriptors as readable as they
\* were, and the array as it is, leaves the rest of the round as it is.
LEMMA RestOfRound ==
    ASSUME TypeOK, Fixed, TableAgrees, NeverWaits, NEW j, Turn(j),
           UNCHANGED <<poll_fds, num_clients>>,
           \A fd \in {stdinfd, sockfd, listenfd} \cup Fds :
               fd # poll_fds[j].fd /\ Readable(fd) => Readable(fd)'
    PROVE  NeverWaits'
  <1>1. \A m \in i' .. num_clients' - 1 :
          /\ m \in 0 .. num_clients - 1 /\ m \in i .. num_clients - 1 /\ m # j
          /\ m \in 0 .. 2 + N
    BY TurnFacts, Descriptors
  <1>2. \A m \in 0 .. 2 + N : poll_fds[m].fd \in {stdinfd, sockfd, listenfd} \cup Fds
    BY DEF TypeOK, N
  <1>3. \A m \in 0 .. num_clients - 1 : poll_fds[j].fd = poll_fds[m].fd => j = m
    BY TurnFacts, Entries
  <1>4. up = "on"
    BY TurnFacts
  <1> QED BY <1>1, <1>2, <1>3, <1>4 DEF NeverWaits

LEMMA RequestStep ==
    ASSUME IInv, NEW j, Request(j)
    PROVE  IInv'
  <1> DEFINE f == poll_fds[j].fd
  <1>1. /\ Turn(j) /\ f \in Fds /\ inq[f] # <<>>
        /\ inq' = [inq EXCEPT ![f] = Tail(@)] /\ Apply(Head(inq[f]), f)
        /\ UNCHANGED <<up, poll_fds, num_clients, id_client, owner, out, end,
                      stdin, udp, backlog, named>>
    BY DEF Request, world
  <1> HIDE DEF f
  <1>2. inq \in [Fds -> Seq(Requests)] /\ inq[f] \in Seq(Requests)
    BY <1>1 DEF IInv, TypeOK
  <1>3. end[f] # "none"
    BY <1>1 DEF IInv, Held
  <1>4. KeyOf(f) \in Ids
    BY <1>1, <1>3, KeyOwner DEF IInv
  <1>5. topic_subscribers' \in [Ids -> Seq(Wanted)]
    <2>1. Head(inq[f]) \in Requests
      BY <1>1, <1>2
    <2> QED BY <1>1, <1>4, <2>1, ApplyStep DEF IInv
  <1>6. inq' \in [Fds -> Seq(Requests)]
    BY <1>1, <1>2
  <1>7. i' \in 0 .. 3 + N
    BY <1>1, TurnFacts DEF IInv
  <1>8. TypeOK'
    BY <1>1, <1>5, <1>6, <1>7 DEF IInv, TypeOK, N
  <1>9. \A g \in Fds : g # f => inq'[g] = inq[g]
    BY <1>1, <1>2
  <1>10. Fixed' /\ Held' /\ TableAgrees'
    BY <1>1, <1>3, <1>9 DEF IInv, Fixed, Held, TableAgrees, Used
  <1>11. NeverWaits'
    <2>1. \A fd \in {stdinfd, sockfd, listenfd} \cup Fds :
               fd # f /\ Readable(fd) => Readable(fd)'
      BY <1>1, <1>9 DEF Readable
    <2> QED BY <1>1, <2>1, RestOfRound DEF IInv, f
  <1> QED BY <1>8, <1>10, <1>11 DEF IInv

LEMMA ResetStep ==
    ASSUME IInv, NEW j, Reset(j)
    PROVE  IInv'
  <1> DEFINE f == poll_fds[j].fd
  <1>1. /\ Turn(j) /\ f \in Fds /\ inq[f] = <<>> /\ end[f] = "rst"
        /\ end' = [end EXCEPT ![f] = "eof"] /\ \E r \in Requests : Apply(r, f)
        /\ UNCHANGED <<up, poll_fds, num_clients, id_client, owner, inq, out,
                      stdin, udp, backlog, named>>
    BY DEF Reset, world
  <1> HIDE DEF f
  <1>2. KeyOf(f) \in Ids
    BY <1>1, KeyOwner DEF IInv
  <1>3. topic_subscribers' \in [Ids -> Seq(Wanted)]
    BY <1>1, <1>2, ApplyStep DEF IInv
  <1>4. i' \in 0 .. 3 + N
    BY <1>1, TurnFacts DEF IInv
  <1>5. /\ end' \in [Fds -> {"none", "open", "fin", "rst", "eof"}]
        /\ \A g \in Fds : g # f => end'[g] = end[g]
        /\ end'[f] = "eof"
    BY <1>1 DEF IInv, TypeOK
  <1>6. TypeOK'
    BY <1>1, <1>3, <1>4, <1>5 DEF IInv, TypeOK, N
  <1>7. Fixed' /\ Held'
    BY <1>1, <1>5 DEF IInv, Fixed, Held
  <1>8. TableAgrees'
    <2>1. \A g \in Fds : end'[g] = "none" <=> end[g] = "none"
      BY <1>1, <1>5
    <2> QED BY <1>1, <2>1 DEF IInv, TableAgrees, Used
  <1>9. NeverWaits'
    <2>1. \A fd \in {stdinfd, sockfd, listenfd} \cup Fds :
               fd # f /\ Readable(fd) => Readable(fd)'
      BY <1>1, <1>5 DEF Readable
    <2> QED BY <1>1, <2>1, RestOfRound DEF IInv, f
  <1> QED BY <1>6, <1>7, <1>8, <1>9 DEF IInv

\* A message goes to clients that are there; the end of the others is only
\* seen in another way.
LEMMA PublishStep ==
    ASSUME IInv, NEW j, Publish(j)
    PROVE  IInv'
  <1> DEFINE t == Head(udp)
  <1>1. /\ Turn(j) /\ poll_fds[j].fd = sockfd /\ udp # <<>> /\ udp' = Tail(udp)
        /\ UNCHANGED <<poll_fds, num_clients, id_client, topic_subscribers,
                      owner, inq, stdin, backlog, named>>
    BY DEF Publish
  <1>2. \E to \in SUBSET Fds :
           /\ up' \in {up, "killed"}
           /\ out' = [f \in Fds |-> IF f \in to /\ end[f] = "open"
                                   THEN Append(out[f], t) ELSE out[f]]
           /\ end' = [f \in Fds |-> IF f \in to /\ end[f] = "fin" THEN "rst" ELSE end[f]]
    <2> DEFINE To(n) == {poll_fds[m].fd : m \in {m \in Recipients(t) : m < n}}
    <2>1. PICK n \in Recipients(t) \cup {num_clients} :
             /\ up' = IF n = num_clients THEN up ELSE "killed"
             /\ out' = [f \in Fds |-> IF f \in To(n) /\ end[f] = "open"
                                     THEN Append(out[f], t) ELSE out[f]]
             /\ end' = [f \in Fds |-> IF f \in To(n) /\ end[f] = "fin"
                                     THEN "rst" ELSE end[f]]
      BY DEF Publish
    <2>2. To(n) \in SUBSET Fds
      BY DEF Recipients, IInv, TableAgrees
    <2> HIDE DEF To
    <2> QED BY <2>1, <2>2
  <1>3. t \in Sent /\ Tail(udp) \in Seq(Sent)
    <2>1. udp \in Seq(Sent)
      BY DEF IInv, TypeOK
    <2> QED BY <1>1, <2>1
  <1> HIDE DEF t
  <1>4. out' \in [Fds -> Seq(Sent)]
    <2>1. \A f \in Fds : Append(out[f], t) \in Seq(Sent) /\ out[f] \in Seq(Sent)
      BY <1>3 DEF IInv, TypeOK
    <2> QED BY <1>2, <2>1
  <1>5. /\ end' \in [Fds -> {"none", "open", "fin", "rst", "eof"}]
        /\ \A f \in Fds : end'[f] # end[f] => end[f] = "fin" /\ end'[f] = "rst"
    BY <1>2 DEF IInv, TypeOK
  <1>6. \A f \in Fds : end[f] # "open" => out'[f] = out[f]
    BY <1>2
  <1>7. up' \in {"on", "exit", "killed"} /\ i' \in 0 .. 3 + N
    BY <1>1, <1>2, TurnFacts DEF IInv, TypeOK
  <1>8. TypeOK'
    BY <1>1, <1>3, <1>4, <1>5, <1>7 DEF IInv, TypeOK, N
  <1>9. Fixed' /\ Held'
    BY <1>1, <1>5, <1>6 DEF IInv, Fixed, Held
  <1>10. TableAgrees'
    <2>1. \A f \in Fds : end'[f] = "none" <=> end[f] = "none"
      BY <1>5
    <2> QED BY <1>1, <2>1 DEF IInv, TableAgrees, Used
  <1>11. NeverWaits'
    <2>1. \A fd \in {stdinfd, sockfd, listenfd} \cup Fds :
               fd # sockfd /\ Readable(fd) => Readable(fd)'
      BY <1>1, <1>5 DEF Readable
    <2> QED BY <1>1, <2>1, RestOfRound DEF IInv
  <1> QED BY <1>8, <1>9, <1>10, <1>11 DEF IInv

\* A new connection takes the first entry that is not in use.
LEMMA AcceptStep ==
    ASSUME IInv, NEW j, Accept(j)
    PROVE  IInv'
  <1> DEFINE k == Head(backlog)
  <1>1. /\ Turn(j) /\ poll_fds[j].fd = listenfd /\ backlog # <<>>
        /\ backlog' = Tail(backlog) /\ named' = FALSE
        /\ UNCHANGED <<up, topic_subscribers, inq, out, stdin, udp>>
    BY DEF Accept, link
  <1>2. k \in Ids /\ backlog' \in Seq(Ids)
    <2>1. backlog \in Seq(Ids)
      BY DEF IInv, TypeOK
    <2> QED BY <1>1, <2>1
  <1>3. \A fd \in {stdinfd, sockfd, listenfd} \cup Fds :
           fd # listenfd /\ end' = end /\ Readable(fd) => Readable(fd)'
    BY <1>1 DEF Readable
  <1>4. i' \in 0 .. 3 + N
    BY <1>1, TurnFacts DEF IInv
  <1>5. CASE UNCHANGED <<poll_fds, num_clients, id_client, link>>
    <2>1. TypeOK'
      BY <1>1, <1>2, <1>4, <1>5 DEF IInv, TypeOK, N, link
    <2>2. Fixed' /\ Held' /\ TableAgrees'
      BY <1>1, <1>5 DEF IInv, Fixed, Held, TableAgrees, Used, link
    <2>3. NeverWaits'
      BY <1>1, <1>3, <1>5, RestOfRound DEF IInv, link
    <2> QED BY <2>1, <2>2, <2>3 DEF IInv
  <1>6. ASSUME NEW f \in Fds, end[f] = "none", id_client[k] = 0,
               id_client' = [id_client EXCEPT ![k] = f],
               poll_fds' = [poll_fds EXCEPT ![num_clients] = NewEntry(f)],
               num_clients' = num_clients + 1,
               owner' = [owner EXCEPT ![f] = k],
               end' = [end EXCEPT ![f] = "open"]
        PROVE  IInv'
    <2> HIDE DEF k
    <2>1. num_clients \in 3 .. 2 + N
      BY <1>6, Room DEF IInv
    <2> DEFINE E == {stdinfd, sockfd, listenfd} \cup Fds
               R == [fd : E, revents : BOOLEAN]
    <2>2. poll_fds \in [0 .. 2 + N -> R]
      BY DEF IInv, TypeOK, N
    <2>3. NewEntry(f) \in R /\ NewEntry(f).fd = f /\ NewEntry(f).revents = FALSE
      BY DEF NewEntry, Slot
    <2>4. poll_fds' \in [0 .. 2 + N -> R]
      <3> HIDE DEF R
      <3> QED BY <1>6, <2>2, <2>3
    <2>5. /\ poll_fds'[num_clients] = NewEntry(f)
          /\ \A m \in 0 .. num_clients - 1 : m \in 0 .. 2 + N /\ poll_fds'[m] = poll_fds[m]
      <3>1. num_clients \in 0 .. 2 + N
        BY <2>1, Descriptors
      <3>2. \A m \in 0 .. num_clients - 1 : m \in 0 .. 2 + N /\ m # num_clients
        BY <2>1, Descriptors
      <3> HIDE DEF R
      <3> QED BY <1>6, <2>2, <3>1, <3>2
    <2>6. TypeOK'
      <3>1. id_client' \in [Ids -> {0} \cup Fds] /\ owner' \in [Fds -> Ids \cup {NoId}]
            /\ end' \in [Fds -> {"none", "open", "fin", "rst", "eof"}]
        BY <1>2, <1>6 DEF IInv, TypeOK
      <3>2. num_clients' \in 3 .. 3 + N
        BY <1>6, <2>1, Descriptors
      <3> QED BY <1>1, <1>2, <1>4, <2>4, <3>1, <3>2 DEF IInv, TypeOK, N
    <2>7. Fixed'
      <3>1. 0 \in 0 .. num_clients - 1 /\ 1 \in 0 .. num_clients - 1 /\ 2 \in 0 .. num_clients - 1
        BY <2>1, Descriptors
      <3> QED BY <2>5, <3>1 DEF IInv, Fixed
    <2>8. /\ owner'[f] = k /\ end'[f] = "open" /\ id_client'[k] = f
          /\ \A g \in Fds : g # f => owner'[g] = owner[g] /\ end'[g] = end[g]
          /\ \A l \in Ids : l # k => id_client'[l] = id_client[l]
      BY <1>2, <1>6 DEF IInv, TypeOK
    <2>9. Held'
      BY <1>1, <1>2, <1>6, <2>8 DEF IInv, Held
    <2>10. Used' = Used \cup {num_clients} /\ num_clients \notin Used
           /\ \A m \in Used : m \in 0 .. num_clients - 1
      BY <1>6, <2>1, Descriptors DEF Used
    <2>11. \A m \in Used : poll_fds'[m].fd = poll_fds[m].fd /\ poll_fds[m].fd # f
      BY <1>6, <2>5, <2>10 DEF IInv, TableAgrees
    <2>12. TableAgrees'
      <3>1. \A m \in Used' : poll_fds'[m].fd \in Fds
        BY <2>3, <2>5, <2>10, <2>11 DEF IInv, TableAgrees
      <3>2. \A m, n \in Used' : poll_fds'[m].fd = poll_fds'[n].fd => m = n
        BY <2>3, <2>5, <2>10, <2>11 DEF IInv, TableAgrees
      <3>3. \A g \in Fds : end'[g] # "none" <=> \E m \in Used' : poll_fds'[m].fd = g
        BY <2>3, <2>5, <2>8, <2>10, <2>11 DEF IInv, TableAgrees
      <3>4. ASSUME NEW g \in Fds, NEW l \in Ids
            PROVE  id_client'[l] = g <=> end'[g] # "none" /\ owner'[g] = l
        <4>1. id_client[l] = g <=> end[g] # "none" /\ owner[g] = l
          BY DEF IInv, TableAgrees
        <4>2. id_client[k] # g
          BY <1>6, Descriptors
        <4>3. id_client[l] # f
          BY <1>6 DEF IInv, TableAgrees
        <4> QED BY <2>8, <4>1, <4>2, <4>3
      <3> QED BY <3>1, <3>2, <3>3, <3>4 DEF TableAgrees
    <2>13. NeverWaits'
      <3>1. \A m \in i' .. num_clients' - 1 :
               m = num_clients \/ (m \in i .. num_clients - 1 /\ m \in 0 .. num_clients - 1 /\ m # j)
        BY <1>1, <1>6, <2>1, TurnFacts, Descriptors DEF IInv
      <3>2. ASSUME NEW m \in i .. num_clients - 1, m \in 0 .. num_clients - 1, m # j,
                   poll_fds[m].revents
            PROVE  Readable(poll_fds[m].fd)'
        <4>1. Readable(poll_fds[m].fd)
          BY <1>1, <3>2, TurnFacts DEF IInv, NeverWaits
        <4>2. poll_fds[m].fd # listenfd
          <5>1. j \in 0 .. num_clients - 1
            BY <1>1, TurnFacts DEF IInv
          <5> QED BY <1>1, <3>2, <5>1, Entries DEF IInv
        <4>3. poll_fds[m].fd \in E
          BY <2>2, <2>5, <3>2
        <4>4. poll_fds'[m].fd = poll_fds[m].fd
          BY <2>5, <3>2
        <4>5. \A g \in Fds : end[g] \in {"fin", "rst", "eof"} => end'[g] = end[g]
          BY <1>6, <2>8
        <4> QED BY <1>1, <4>1, <4>2, <4>3, <4>4, <4>5 DEF Readable
      <3>3. \A m \in 0 .. num_clients - 1 : poll_fds'[m] = poll_fds[m]
        BY <2>5
      <3> QED BY <2>3, <2>5, <3>1, <3>2, <3>3 DEF NeverWaits
    <2> QED BY <2>6, <2>7, <2>9, <2>12, <2>13 DEF IInv
  <1>7. CASE \E f \in Fds :
                /\ end[f] = "none" /\ id_client[k] = 0
                /\ id_client' = [id_client EXCEPT ![k] = f]
                /\ poll_fds' = [poll_fds EXCEPT ![num_clients] = NewEntry(f)]
                /\ num_clients' = num_clients + 1
                /\ owner' = [owner EXCEPT ![f] = k]
                /\ end' = [end EXCEPT ![f] = "open"]
    BY <1>6, <1>7
  <1> QED BY <1>5, <1>7 DEF Accept

\* The entries after the one that ends move down by one, all of them.
LEMMA CloseStep ==
    ASSUME IInv, NEW j, Close(j)
    PROVE  IInv'
  <1> DEFINE f == poll_fds[j].fd
             Moved(m) == IF m < j THEN m ELSE m + 1
  <1>1. /\ Turn(j) /\ f \in Fds /\ inq[f] = <<>> /\ end[f] \in {"fin", "eof"}
        /\ end' = [end EXCEPT ![f] = "none"]
        /\ owner' = [owner EXCEPT ![f] = NoId]
        /\ id_client' = [id_client EXCEPT ![KeyOf(f)] = 0]
        /\ poll_fds' = Shift(j)
        /\ num_clients' = num_clients - 1
        /\ UNCHANGED <<up, topic_subscribers, inq, out, stdin, udp, backlog, named>>
    BY DEF Close, world
  <1>2. j \in Used /\ num_clients \in 3 .. 3 + N /\ j \in 3 .. num_clients - 1
    <2>1. j \in 0 .. num_clients - 1 /\ num_clients \in 3 .. 3 + N
      BY <1>1, TurnFacts DEF IInv
    <2> QED BY <1>1, <2>1, Entries DEF IInv, Used
  <1> DEFINE E == {stdinfd, sockfd, listenfd} \cup Fds
             R == [fd : E, revents : BOOLEAN]
  <1>3. poll_fds \in [0 .. 2 + N -> R]
    BY DEF IInv, TypeOK, N
  <1> HIDE DEF f, R
  <1>4. /\ poll_fds' \in [0 .. 2 + N -> R]
        /\ \A m \in 0 .. num_clients - 2 :
              m \in 0 .. 2 + N /\ Moved(m) \in 0 .. num_clients - 1
              /\ poll_fds'[m] = poll_fds[Moved(m)]
    <2>1. poll_fds' = [m \in 0 .. 2 + N |->
             IF m \in j .. num_clients - 2 THEN poll_fds[m + 1] ELSE poll_fds[m]]
      BY <1>1, <1>3 DEF Shift
    <2>2. \A m \in j .. num_clients - 2 : m + 1 \in 0 .. 2 + N
      BY <1>2, Descriptors
    <2>3. poll_fds' \in [0 .. 2 + N -> R]
      BY <1>3, <2>1, <2>2
    <2>4. \A m \in 0 .. num_clients - 2 :
              /\ m \in 0 .. 2 + N /\ Moved(m) \in 0 .. num_clients - 1
              /\ m \in j .. num_clients - 2 <=> ~(m < j)
      BY <1>2, Descriptors
    <2> QED BY <2>1, <2>3, <2>4
  <1>5. KeyOf(f) = owner[f] /\ owner[f] \in Ids /\ id_client[owner[f]] = f
    BY <1>1, KeyOwner DEF IInv
  <1>6. /\ owner'[f] = NoId /\ end'[f] = "none" /\ id_client'[owner[f]] = 0
        /\ \A g \in Fds : g # f => owner'[g] = owner[g] /\ end'[g] = end[g]
        /\ \A l \in Ids : l # owner[f] => id_client'[l] = id_client[l]
    BY <1>1, <1>5 DEF IInv, TypeOK
  <1>7. TypeOK'
    <2>1. /\ id_client' \in [Ids -> {0} \cup Fds]
          /\ owner' \in [Fds -> Ids \cup {NoId}]
          /\ end' \in [Fds -> {"none", "open", "fin", "rst", "eof"}]
      BY <1>1, <1>5 DEF IInv, TypeOK
    <2>2. num_clients' \in 3 .. 3 + N
      BY <1>1, <1>2, Descriptors
    <2>3. i' \in 0 .. 3 + N
      BY <1>1, TurnFacts DEF IInv
    <2>4. poll_fds' \in [0 .. 2 + N -> [fd : E, revents : BOOLEAN]]
      BY <1>4 DEF R
    <2> QED BY <1>1, <2>1, <2>2, <2>3, <2>4 DEF IInv, TypeOK, N
  <1>8. Fixed'
    <2>1. \A m \in 0 .. 2 : m \in 0 .. num_clients - 2 /\ Moved(m) = m
      BY <1>2, Descriptors
    <2>2. \A m \in 0 .. 2 : poll_fds'[m] = poll_fds[m]
      BY <1>4, <2>1
    <2> QED BY <2>2 DEF IInv, Fixed
  <1>9. Held'
    BY <1>1, <1>6 DEF IInv, Held
  <1>10. /\ \A m \in Used' : /\ m \in 0 .. num_clients - 2 /\ Moved(m) \in Used \ {j}
                             /\ poll_fds'[m].fd = poll_fds[Moved(m)].fd
         /\ \A m \in Used \ {j} : \E n \in Used' : m = Moved(n)
    <2>1. Used' = 3 .. num_clients - 2 /\ Used = 3 .. num_clients - 1
      BY <1>1, <1>2, Descriptors DEF Used
    <2>2. \A m \in 3 .. num_clients - 2 : m \in 0 .. num_clients - 2 /\ Moved(m) \in Used \ {j}
      BY <1>2, <2>1, Descriptors
    <2>3. ASSUME NEW m \in Used \ {j} PROVE \E n \in Used' : m = Moved(n)
      <3>1. CASE m < j
        <4>1. m \in Used' /\ Moved(m) = m
          BY <1>2, <2>1, <3>1, Descriptors
        <4> QED BY <4>1
      <3>2. CASE ~(m < j)
        <4>1. m - 1 \in Used' /\ Moved(m - 1) = m
          BY <1>2, <2>1, <3>2, Descriptors
        <4> QED BY <4>1
      <3> QED BY <3>1, <3>2
    <2> QED BY <1>4, <2>1, <2>2, <2>3
  <1>11. \A m \in Used : poll_fds[m].fd = f <=> m = j
    BY <1>2 DEF IInv, TableAgrees, f
  <1>12. TableAgrees'
    <2>1. \A m \in Used' : poll_fds'[m].fd \in Fds
      BY <1>10 DEF IInv, TableAgrees
    <2>2. \A m, n \in Used' : poll_fds'[m].fd = poll_fds'[n].fd => m = n
      <3> SUFFICES ASSUME NEW m \in Used', NEW n \in Used', poll_fds'[m].fd = poll_fds'[n].fd
                   PROVE  m = n
        OBVIOUS
      <3>1. Moved(m) = Moved(n)
        BY <1>10 DEF IInv, TableAgrees
      <3>2. m \in 0 .. num_clients - 2 /\ n \in 0 .. num_clients - 2
        BY <1>10
      <3> QED BY <1>2, <3>1, <3>2, Descriptors
    <2>3. ASSUME NEW g \in Fds
          PROVE  end'[g] # "none" <=> \E m \in Used' : poll_fds'[m].fd = g
      <3>1. end[g] # "none" <=> \E m \in Used : poll_fds[m].fd = g
        BY DEF IInv, TableAgrees
      <3> HIDE DEF Moved
      <3> QED BY <1>6, <1>10, <1>11, <3>1
    <2>4. ASSUME NEW g \in Fds, NEW l \in Ids
          PROVE  id_client'[l] = g <=> end'[g] # "none" /\ owner'[g] = l
      <3>1. id_client[l] = g <=> end[g] # "none" /\ owner[g] = l
        BY DEF IInv, TableAgrees
      <3> QED BY <1>5, <1>6, <3>1, Descriptors
    <2> QED BY <2>1, <2>2, <2>3, <2>4 DEF TableAgrees
  <1>13. NeverWaits'
    <2>1. \A m \in i' .. num_clients' - 1 :
             m \in Used' /\ m \in 0 .. num_clients - 2 /\ Moved(m) = m + 1
             /\ m + 1 \in i .. num_clients - 1
      <3>1. i' = j + 1 /\ j \in i .. num_clients - 1 /\ i \in 0 .. 3 + N
        BY <1>1, TurnFacts DEF IInv
      <3> QED BY <1>1, <1>2, <3>1, Descriptors DEF Used
    <2>2. ASSUME NEW m \in i' .. num_clients' - 1, poll_fds'[m].revents
          PROVE  Readable(poll_fds[m].fd)'
      <3>1. Moved(m) \in Used \ {j} /\ poll_fds'[m] = poll_fds[Moved(m)]
        BY <1>4, <1>10, <2>1
      <3>2. Readable(poll_fds[Moved(m)].fd)
        <4>1. up = "on"
          BY <1>1, TurnFacts DEF IInv
        <4> QED BY <2>1, <2>2, <3>1, <4>1 DEF IInv, NeverWaits
      <3>3. poll_fds[Moved(m)].fd \in Fds /\ poll_fds[Moved(m)].fd # f
        BY <1>11, <3>1 DEF IInv, TableAgrees
      <3> HIDE DEF Moved
      <3> QED BY <1>1, <1>6, <3>1, <3>2, <3>3, Descriptors DEF Readable
    <2> QED BY <2>2 DEF NeverWaits
  <1> QED BY <1>7, <1>8, <1>9, <1>12, <1>13 DEF IInv

LEMMA StepInv == IInv /\ [Next]_vars => IInv'
  <1> SUFFICES ASSUME IInv, [Next]_vars PROVE IInv'
    OBVIOUS
  <1>1. CASE World
    BY <1>1, WorldStep
  <1>2. CASE Serve
    BY <1>2, PollStep, AcceptStep, StdinStep, PublishStep, RequestStep, ResetStep, CloseStep
       DEF Serve
  <1>3. CASE UNCHANGED vars
    BY <1>3 DEF vars, server, link, world, IInv, TypeOK, Fixed, Held, TableAgrees, Used,
       NeverWaits, Readable
  <1> QED BY <1>1, <1>2, <1>3 DEF Next

LEMMA Invariant == Spec => []IInv
  BY InitInv, StepInv, PTL DEF Spec

(***************************************************************************)
(* The server's tables and queues keep their types: above all the poll     *)
(* array, which has a place for every client there can be, and is written  *)
(* nowhere else.                                                           *)
(***************************************************************************)
THEOREM TypeCorrect == Spec => []TypeOK
  <1>1. IInv => TypeOK
    BY DEF IInv
  <1> QED BY <1>1, Invariant, PTL

(***************************************************************************)
(* Through every round, the poll array and the table of names speak of the *)
(* same connections.                                                       *)
(***************************************************************************)
THEOREM TablesTheorem == Spec => []TableAgrees
  <1>1. IInv => TableAgrees
    BY DEF IInv
  <1> QED BY <1>1, Invariant, PTL

(***************************************************************************)
(* No read of the loop waits: what poll has found to be readable still is  *)
(* when its turn comes, also at an entry that has moved.                   *)
(***************************************************************************)
THEOREM NeverWaitsTheorem == Spec => []NeverWaits
  <1>1. IInv => NeverWaits
    BY DEF IInv
  <1> QED BY <1>1, Invariant, PTL

-----------------------------------------------------------------------------
(* The server implements PubSub.                                           *)

\* What PubSub's variables are here.
Gone == {k \in Online : end[id_client[k]] # "open"}
Asked == [k \in Ids |-> Inbound(k)]
Box == [k \in Ids |-> IF k \in Online THEN out[id_client[k]] ELSE <<>>]

LEMMA SameMatch ==
    ASSUME NEW t, NEW s
    PROVE  Abstract!CheckTopic(t, s) <=> CheckTopic(t, s)
  <1>1. ASSUME NEW p PROVE Abstract!Matches(p, t) = Matches(p, t)
    BY DEF Abstract!Matches, Matches, Abstract!NextLevel, NextLevel, Abstract!Fits, Fits
  <1> QED BY <1>1 DEF Abstract!CheckTopic, CheckTopic

\* A step that leaves these alone is none of PubSub.
LEMMA Stutter ==
    ASSUME UNCHANGED <<up, id_client, end, inq, out, topic_subscribers>>
    PROVE  UNCHANGED Abstract!vars
  BY DEF Abstract!vars, Online, Inbound

\* Who owns a descriptor is on line with it, and nobody else is.
LEMMA OnLine ==
    ASSUME IInv, NEW f \in Fds, end[f] # "none"
    PROVE  /\ owner[f] \in Online /\ id_client[owner[f]] = f
           /\ \A l \in Online : id_client[l] \in Fds /\ (id_client[l] = f <=> l = owner[f])
  <1>1. owner[f] \in Ids /\ id_client[owner[f]] = f
    BY KeyOwner DEF IInv
  <1>2. f # 0
    BY Descriptors
  <1>3. \A l \in Online : id_client[l] \in Fds /\ l \in Ids
    BY OwnerOf DEF IInv, Online
  <1>4. \A l \in Ids : id_client[l] = f <=> l = owner[f]
    BY DEF IInv, TableAgrees
  <1> QED BY <1>1, <1>2, <1>3, <1>4 DEF Online

\* What a connection has is what its owner has.
LEMMA OfOwner ==
    ASSUME IInv, NEW f \in Fds, end[f] # "none"
    PROVE  /\ owner[f] \in Gone <=> end[f] # "open"
           /\ Asked[owner[f]] = inq[f] /\ Box[owner[f]] = out[f]
           /\ owner[f] \in Ids
  <1>1. owner[f] \in Online /\ id_client[owner[f]] = f /\ f # 0 /\ owner[f] \in Ids
    BY OnLine, Descriptors DEF Online
  <1> QED BY <1>1 DEF Gone, Asked, Inbound, Box

LEMMA AskRefines ==
    ASSUME IInv, NEW f \in Fds, NEW r \in Requests, Ask(f, r)
    PROVE  \E k \in Ids : Abstract!Ask(k)
  <1>1. /\ end[f] = "open" /\ inq' = [inq EXCEPT ![f] = Append(@, r)]
        /\ UNCHANGED <<up, id_client, end, out, topic_subscribers>>
    BY DEF Ask, server
  <1>2. PICK k \in Ids : k = owner[f] /\ k \in Online \ Gone /\ Asked[k] = inq[f]
    BY <1>1, OnLine, OfOwner
  <1>3. Online' = Online /\ Gone' = Gone /\ Box' = Box
    BY <1>1 DEF Online, Gone, Box
  <1>4. Asked' = [Asked EXCEPT ![k] = Append(@, r)]
    <2>1. \A l \in Ids : Asked'[l] = IF l = k THEN Append(Asked[l], r) ELSE Asked[l]
      <3>1. inq \in [Fds -> Seq(Requests)]
        BY DEF IInv, TypeOK
      <3>2. \A g \in Fds : inq'[g] = IF g = f THEN Append(inq[g], r) ELSE inq[g]
        BY <1>1, <3>1
      <3> SUFFICES ASSUME NEW l \in Ids
                   PROVE  Asked'[l] = IF l = k THEN Append(Asked[l], r) ELSE Asked[l]
        OBVIOUS
      <3>3. CASE id_client[l] = 0
        BY <1>1, <1>2, <3>3 DEF Asked, Inbound, Online
      <3>4. CASE id_client[l] # 0
        <4>1. id_client[l] \in Fds /\ (id_client[l] = f <=> l = k)
          BY <1>1, <1>2, <3>4, OnLine DEF Online
        <4> QED BY <1>1, <3>2, <3>4, <4>1 DEF Asked, Inbound
      <3> QED BY <3>3, <3>4
    <2>2. Asked = [l \in Ids |-> Asked[l]] /\ Asked' = [l \in Ids |-> Asked'[l]]
      BY DEF Asked
    <2> QED BY <2>1, <2>2
  <1>5. \E q \in Abstract!Requests : Asked' = [Asked EXCEPT ![k] = Append(@, q)]
    BY <1>4 DEF Abstract!Requests, Requests
  <1> QED BY <1>1, <1>2, <1>3, <1>5 DEF Abstract!Ask, Gone, Asked, Box

LEMMA ReadRefines ==
    ASSUME IInv, NEW f \in Fds, Read(f)
    PROVE  \E k \in Ids : Abstract!Read(k)
  <1>1. /\ out[f] # <<>> /\ out' = [out EXCEPT ![f] = Tail(@)]
        /\ UNCHANGED <<up, id_client, end, inq, topic_subscribers>>
    BY DEF Read, server
  <1>2. end[f] = "open"
    BY <1>1 DEF IInv, Held
  <1>3. PICK k \in Ids : k = owner[f] /\ Box[k] = out[f] /\ k \in Online
    BY <1>2, OnLine, OfOwner
  <1>4. Online' = Online /\ Gone' = Gone /\ Asked' = Asked
    BY <1>1 DEF Online, Gone, Asked, Inbound
  <1>5. Box' = [Box EXCEPT ![k] = Tail(@)]
    <2>1. \A g \in Fds : out'[g] = IF g = f THEN Tail(out[g]) ELSE out[g]
      BY <1>1 DEF IInv, TypeOK
    <2>2. \A l \in Online : id_client[l] \in Fds /\ (id_client[l] = f <=> l = k)
      BY <1>2, <1>3, OnLine
    <2>3. \A l \in Ids : Box'[l] = IF l = k THEN Tail(Box[l]) ELSE Box[l]
      BY <1>1, <1>3, <1>4, <2>1, <2>2 DEF Box
    <2>4. Box = [l \in Ids |-> Box[l]] /\ Box' = [l \in Ids |-> Box'[l]]
      BY DEF Box
    <2> QED BY <2>3, <2>4
  <1> QED BY <1>1, <1>3, <1>4, <1>5 DEF Abstract!Read, Gone, Asked, Box

LEMMA LeaveRefines ==
    ASSUME IInv, NEW f \in Fds, Leave(f)
    PROVE  \E k \in Ids : Abstract!Leave(k)
  <1>1. /\ end[f] = "open"
        /\ end' = [end EXCEPT ![f] = IF out[f] = <<>> THEN "fin" ELSE "rst"]
        /\ out' = [out EXCEPT ![f] = <<>>]
        /\ UNCHANGED <<up, id_client, inq, topic_subscribers>>
    BY DEF Leave, server
  <1>2. PICK k \in Ids : k = owner[f] /\ k \in Online \ Gone
    BY <1>1, OnLine, OfOwner
  <1>3. Online' = Online /\ Asked' = Asked
    BY <1>1 DEF Online, Asked, Inbound
  <1>4. \A l \in Online : id_client[l] \in Fds /\ (id_client[l] = f <=> l = k)
    BY <1>1, <1>2, OnLine
  <1>5. \A g \in Fds : /\ g # f => end'[g] = end[g] /\ out'[g] = out[g]
                       /\ g = f => end'[g] # "open" /\ out'[g] = <<>>
    BY <1>1 DEF IInv, TypeOK
  <1>6. Gone' = Gone \cup {k}
    <2>1. ASSUME NEW l \in Online
          PROVE  end'[id_client'[l]] # "open"
                   <=> end[id_client[l]] # "open" \/ l = k
      <3>1. CASE l = k
        <4>1. id_client'[l] = f
          BY <1>1, <1>4, <3>1
        <4> QED BY <1>5, <3>1, <4>1
      <3>2. CASE l # k
        <4>1. id_client'[l] = id_client[l] /\ id_client[l] \in Fds /\ id_client[l] # f
          BY <1>1, <1>4, <3>2
        <4> QED BY <1>5, <3>2, <4>1
      <3> QED BY <3>1, <3>2
    <2> QED BY <1>2, <1>3, <2>1 DEF Gone
  <1>7. Box' = [Box EXCEPT ![k] = <<>>]
    <2>1. ASSUME NEW l \in Ids
          PROVE  Box'[l] = IF l = k THEN <<>> ELSE Box[l]
      <3>1. CASE l \notin Online
        BY <1>2, <1>3, <3>1 DEF Box
      <3>2. CASE l \in Online
        <4>1. Box'[l] = out'[id_client[l]] /\ Box[l] = out[id_client[l]]
          BY <1>1, <1>3, <3>2 DEF Box
        <4>2. id_client[l] \in Fds /\ (id_client[l] = f <=> l = k)
          BY <1>4, <3>2
        <4> QED BY <1>5, <4>1, <4>2
      <3> QED BY <3>1, <3>2
    <2>2. Box = [l \in Ids |-> Box[l]] /\ Box' = [l \in Ids |-> Box'[l]]
      BY DEF Box
    <2> QED BY <2>1, <2>2
  <1> QED BY <1>1, <1>2, <1>3, <1>6, <1>7 DEF Abstract!Leave, Gone, Asked, Box

LEMMA AcceptRefines ==
    ASSUME IInv, NEW j, Accept(j)
    PROVE  UNCHANGED Abstract!vars \/ \E k \in Ids : Abstract!Join(k)
  <1> DEFINE k == Head(backlog)
  <1>1. /\ Turn(j) /\ backlog # <<>> /\ UNCHANGED <<up, topic_subscribers, inq, out>>
    BY DEF Accept, link
  <1>2. k \in Ids
    <2>1. backlog \in Seq(Ids)
      BY DEF IInv, TypeOK
    <2> QED BY <1>1, <2>1
  <1>3. CASE UNCHANGED <<poll_fds, num_clients, id_client, link>>
    <2>1. UNCHANGED <<up, id_client, end, inq, out, topic_subscribers>>
      BY <1>1, <1>3 DEF link
    <2> QED BY <2>1, Stutter
  <1>4. CASE \E f \in Fds :
                /\ end[f] = "none" /\ id_client[k] = 0
                /\ id_client' = [id_client EXCEPT ![k] = f]
                /\ end' = [end EXCEPT ![f] = "open"]
    <2>1. PICK f \in Fds : /\ end[f] = "none" /\ id_client[k] = 0
                           /\ id_client' = [id_client EXCEPT ![k] = f]
                           /\ end' = [end EXCEPT ![f] = "open"]
      BY <1>4
    <2> HIDE DEF k
    <2>2. k \notin Online /\ f # 0 /\ inq[f] = <<>> /\ out[f] = <<>>
      BY <2>1, Descriptors DEF IInv, Held, Online
    <2>3. /\ \A l \in Ids : id_client'[l] = IF l = k THEN f ELSE id_client[l]
          /\ \A g \in Fds : end'[g] = IF g = f THEN "open" ELSE end[g]
      BY <2>1 DEF IInv, TypeOK
    <2>4. \A l \in Online : id_client[l] \in Fds /\ id_client[l] # f
      <3>1. \A l \in Online : l \in Ids /\ end[id_client[l]] # "none" /\ id_client[l] \in Fds
        BY OwnerOf DEF IInv, Online
      <3> QED BY <2>1, <3>1
    <2>5. Online' = Online \cup {k}
      BY <1>2, <2>2, <2>3 DEF Online
    <2>6. Gone' = Gone
      BY <2>2, <2>3, <2>4, <2>5, <1>2 DEF Gone, Online
    <2>7. Asked' = Asked
      <3>1. \A l \in Ids : Asked'[l] = Asked[l]
        BY <1>1, <2>1, <2>2, <2>3 DEF Asked, Inbound
      <3>2. Asked = [l \in Ids |-> Asked[l]] /\ Asked' = [l \in Ids |-> Asked'[l]]
        BY DEF Asked
      <3> QED BY <3>1, <3>2
    <2>8. Box' = Box
      <3>1. \A l \in Ids : Box'[l] = Box[l]
        BY <1>1, <2>1, <2>2, <2>3, <2>5 DEF Box
      <3>2. Box = [l \in Ids |-> Box[l]] /\ Box' = [l \in Ids |-> Box'[l]]
        BY DEF Box
      <3> QED BY <3>1, <3>2
    <2>9. up = "on"
      BY <1>1 DEF Turn
    <2>10. Abstract!Join(k)
      BY <1>1, <2>2, <2>5, <2>6, <2>7, <2>8, <2>9 DEF Abstract!Join, Gone, Asked, Box
    <2> QED BY <1>2, <2>10
  <1> QED BY <1>3, <1>4 DEF Accept

LEMMA StdinRefines ==
    ASSUME IInv, NEW j, Stdin(j)
    PROVE  Abstract!Exit
  <1>1. /\ up = "on" /\ up' = "exit"
        /\ UNCHANGED <<id_client, end, inq, out, topic_subscribers>>
    BY DEF Stdin, Turn, link
  <1> QED BY <1>1 DEF Abstract!Exit, Online, Inbound

LEMMA RequestRefines ==
    ASSUME IInv, NEW j, Request(j)
    PROVE  \E k \in Ids : Abstract!Handle(k)
  <1> DEFINE f == poll_fds[j].fd
             k == owner[f]
  <1>1. /\ up = "on" /\ f \in Fds /\ inq[f] # <<>>
        /\ inq' = [inq EXCEPT ![f] = Tail(@)] /\ Apply(Head(inq[f]), f)
        /\ UNCHANGED <<up, id_client, end, out>>
    BY DEF Request, Turn
  <1> HIDE DEF f
  <1>2. inq \in [Fds -> Seq(Requests)]
    BY DEF IInv, TypeOK
  <1>3. end[f] # "none"
    BY <1>1 DEF IInv, Held
  <1>4. KeyOf(f) = k /\ k \in Ids /\ k \in Online /\ Asked[k] = inq[f]
    BY <1>1, <1>3, KeyOwner, OnLine, OfOwner DEF IInv
  <1>5. Online' = Online /\ Gone' = Gone /\ Box' = Box
    BY <1>1 DEF Online, Gone, Box
  <1>6. Asked' = [Asked EXCEPT ![k] = Tail(@)]
    <2>1. \A g \in Fds : inq'[g] = IF g = f THEN Tail(inq[g]) ELSE inq[g]
      BY <1>1, <1>2
    <2>2. \A l \in Online : id_client[l] \in Fds /\ (id_client[l] = f <=> l = k)
      BY <1>1, <1>3, OnLine
    <2>3. ASSUME NEW l \in Ids
          PROVE  Asked'[l] = IF l = k THEN Tail(Asked[l]) ELSE Asked[l]
      <3>1. CASE id_client[l] = 0
        BY <1>1, <1>4, <3>1 DEF Asked, Inbound, Online
      <3>2. CASE id_client[l] # 0
        <4>1. id_client[l] \in Fds /\ (id_client[l] = f <=> l = k)
          BY <2>2, <3>2 DEF Online
        <4> QED BY <1>1, <2>1, <3>2, <4>1 DEF Asked, Inbound
      <3> QED BY <3>1, <3>2
    <2>4. Asked = [l \in Ids |-> Asked[l]] /\ Asked' = [l \in Ids |-> Asked'[l]]
      BY DEF Asked
    <2> QED BY <2>3, <2>4
  <1>7. /\ topic_subscribers' =
             [topic_subscribers EXCEPT ![k] = topic_subscribers'[k]]
        /\ Abstract!Follows(topic_subscribers'[k], topic_subscribers[k], Head(Asked[k]))
    <2>1. Head(inq[f]) \in Requests
      BY <1>1, <1>2
    <2> HIDE DEF k
    <2> QED BY <1>1, <1>4, <2>1, ApplyStep DEF IInv
  <1> HIDE DEF k
  <1>8. Abstract!Handle(k)
    BY <1>1, <1>4, <1>5, <1>6, <1>7 DEF Abstract!Handle, Gone, Asked, Box
  <1> QED BY <1>4, <1>8

LEMMA ResetRefines ==
    ASSUME IInv, NEW j, Reset(j)
    PROVE  \E k \in Ids : Abstract!Phantom(k)
  <1> DEFINE f == poll_fds[j].fd
             k == owner[f]
  <1>1. /\ up = "on" /\ f \in Fds /\ inq[f] = <<>> /\ end[f] = "rst"
        /\ end' = [end EXCEPT ![f] = "eof"]
        /\ UNCHANGED <<up, id_client, inq, out>>
    BY DEF Reset, Turn
  <1>2. PICK r \in Requests : Apply(r, f)
    BY DEF Reset
  <1> HIDE DEF f
  <1>3. KeyOf(f) = k /\ k \in Ids /\ k \in Gone /\ Asked[k] = <<>>
    BY <1>1, KeyOwner, OfOwner DEF IInv
  <1>4. Online' = Online /\ Asked' = Asked /\ Box' = Box
    BY <1>1 DEF Online, Asked, Inbound, Box
  <1>5. Gone' = Gone
    <2>1. \A g \in Fds : end'[g] # "open" <=> end[g] # "open"
      BY <1>1 DEF IInv, TypeOK
    <2>2. \A l \in Online : id_client[l] \in Fds
      BY <1>1, OnLine
    <2> QED BY <1>1, <1>4, <2>1, <2>2 DEF Gone
  <1>6. /\ topic_subscribers' =
             [topic_subscribers EXCEPT ![k] = topic_subscribers'[k]]
        /\ Abstract!Follows(topic_subscribers'[k], topic_subscribers[k], r)
    <2> HIDE DEF k
    <2> QED BY <1>2, <1>3, ApplyStep DEF IInv
  <1>7. r \in Abstract!Requests
    BY DEF Abstract!Requests, Requests
  <1> HIDE DEF k
  <1>8. Abstract!Phantom(k)
    BY <1>1, <1>3, <1>4, <1>5, <1>6, <1>7 DEF Abstract!Phantom, Gone, Asked, Box
  <1> QED BY <1>3, <1>8

LEMMA CloseRefines ==
    ASSUME IInv, NEW j, Close(j)
    PROVE  \E k \in Ids : Abstract!Part(k)
  <1> DEFINE f == poll_fds[j].fd
  <1>1. /\ up = "on" /\ f \in Fds /\ inq[f] = <<>> /\ end[f] \in {"fin", "eof"}
        /\ end' = [end EXCEPT ![f] = "none"]
        /\ id_client' = [id_client EXCEPT ![KeyOf(f)] = 0]
        /\ UNCHANGED <<up, topic_subscribers, inq, out>>
    BY DEF Close, Turn
  <1> HIDE DEF f
  <1>2. PICK k \in Ids : /\ k = owner[f] /\ KeyOf(f) = k
                         /\ k \in Gone /\ Asked[k] = <<>> /\ Box[k] = out[f]
    BY <1>1, KeyOwner, OfOwner DEF IInv
  <1>3. out[f] = <<>>
    BY <1>1 DEF IInv, Held
  <1>4. \A l \in Ids : id_client'[l] = IF l = k THEN 0 ELSE id_client[l]
    BY <1>1, <1>2 DEF IInv, TypeOK
  <1>5. \A l \in Online : id_client[l] \in Fds /\ (id_client[l] = f <=> l = k)
    BY <1>1, <1>2, OnLine
  <1>6. Online' = Online \ {k}
    BY <1>2, <1>4 DEF Online
  <1>7. Gone' = Gone \ {k}
    <2>1. \A l \in Online' : end'[id_client'[l]] = end[id_client[l]]
      <3>1. \A g \in Fds : g # f => end'[g] = end[g]
        BY <1>1 DEF IInv, TypeOK
      <3>2. \A l \in Online' : l \in Online /\ l # k /\ l \in Ids
        BY <1>6 DEF Online
      <3> QED BY <1>4, <1>5, <3>1, <3>2
    <2> QED BY <1>6, <2>1 DEF Gone
  <1>8. Asked' = Asked
    <2>1. \A l \in Ids : Asked'[l] = Asked[l]
      BY <1>1, <1>2, <1>4 DEF Asked, Inbound
    <2>2. Asked = [l \in Ids |-> Asked[l]] /\ Asked' = [l \in Ids |-> Asked'[l]]
      BY DEF Asked
    <2> QED BY <2>1, <2>2
  <1>9. Box' = Box
    <2>1. \A l \in Ids : Box'[l] = Box[l]
      BY <1>1, <1>2, <1>3, <1>4, <1>6 DEF Box
    <2>2. Box = [l \in Ids |-> Box[l]] /\ Box' = [l \in Ids |-> Box'[l]]
      BY DEF Box
    <2> QED BY <2>1, <2>2
  <1>10. Abstract!Part(k)
    BY <1>1, <1>2, <1>6, <1>7, <1>8, <1>9 DEF Abstract!Part, Gone, Asked, Box
  <1> QED BY <1>10

\* The entries that get the message are those of the subscribers on line.
LEMMA PublishRefines ==
    ASSUME IInv, NEW j, Publish(j)
    PROVE  \E t \in Sent : Abstract!Publish(t) \/ Abstract!Die(t)
  <1>1. Head(udp) \in Sent
    <2>1. udp \in Seq(Sent) /\ udp # <<>>
      BY DEF IInv, TypeOK, Publish
    <2> QED BY <2>1
  <1>2. PICK t \in Sent : t = Head(udp)
    BY <1>1
  <1> DEFINE To(n) == {poll_fds[m].fd : m \in {m \in Recipients(t) : m < n}}
  <1>3. /\ up = "on"
        /\ UNCHANGED <<id_client, topic_subscribers, inq>>
    BY DEF Publish, Turn
  <1>4. PICK n \in Recipients(t) \cup {num_clients} :
           /\ n # num_clients => end[poll_fds[n].fd] # "open"
           /\ up' = IF n = num_clients THEN up ELSE "killed"
           /\ out' = [f \in Fds |-> IF f \in To(n) /\ end[f] = "open"
                                   THEN Append(out[f], t) ELSE out[f]]
           /\ end' = [f \in Fds |-> IF f \in To(n) /\ end[f] = "fin"
                                   THEN "rst" ELSE end[f]]
    BY <1>2 DEF Publish
  <1> DEFINE to == To(n)
             S == {owner[f] : f \in to}
             Subs == Abstract!Subscribers(t)
  <1>5. Recipients(t) \subseteq Used /\ to \subseteq Fds
        /\ \A m \in Recipients(t) : m < num_clients
    <2>1. Recipients(t) \subseteq Used
      BY DEF Recipients
    <2>2. \A m \in Used : m < num_clients
      BY Descriptors DEF IInv, TypeOK, N, Used
    <2> QED BY <2>1, <2>2 DEF IInv, TableAgrees
  <1>6. \A m \in Used : /\ poll_fds[m].fd \in Fds /\ end[poll_fds[m].fd] # "none"
                        /\ owner[poll_fds[m].fd] \in Online
                        /\ m \in Recipients(t) <=> owner[poll_fds[m].fd] \in Subs
    <2> SUFFICES ASSUME NEW m \in Used
                 PROVE  /\ poll_fds[m].fd \in Fds /\ end[poll_fds[m].fd] # "none"
                        /\ owner[poll_fds[m].fd] \in Online
                        /\ m \in Recipients(t) <=> owner[poll_fds[m].fd] \in Subs
      OBVIOUS
    <2>1. poll_fds[m].fd \in Fds /\ end[poll_fds[m].fd] # "none"
      BY DEF IInv, TableAgrees
    <2>2. KeyOf(poll_fds[m].fd) = owner[poll_fds[m].fd] /\ owner[poll_fds[m].fd] \in Online
      BY <2>1, KeyOwner, OnLine DEF IInv
    <2> QED BY <2>1, <2>2, SameMatch DEF Recipients, Abstract!Subscribers
  <1>7. S \subseteq Subs
    BY <1>5, <1>6
  <1>8. n = num_clients => S = Subs
    <2> SUFFICES ASSUME n = num_clients, NEW k \in Subs PROVE k \in S
      BY <1>7
    <2>1. k \in Online /\ k \in Ids /\ id_client[k] # 0
      BY DEF Abstract!Subscribers, Online
    <2>2. id_client[k] \in Fds /\ end[id_client[k]] # "none" /\ owner[id_client[k]] = k
      BY <2>1, OwnerOf DEF IInv
    <2>3. PICK m \in Used : poll_fds[m].fd = id_client[k]
      BY <2>2 DEF IInv, TableAgrees
    <2>4. m \in Recipients(t) /\ m < n
      BY <1>5, <1>6, <2>2, <2>3
    <2> QED BY <2>2, <2>3, <2>4
  <1> HIDE DEF to, Subs
  <1>9. \A k \in Online : /\ id_client[k] \in Fds
                          /\ k \in S <=> id_client[k] \in to
                          /\ k \in Gone <=> end[id_client[k]] # "open"
    <2> SUFFICES ASSUME NEW k \in Online
                 PROVE  /\ id_client[k] \in Fds
                        /\ k \in S <=> id_client[k] \in to
                        /\ k \in Gone <=> end[id_client[k]] # "open"
      OBVIOUS
    <2>1. id_client[k] \in Fds /\ owner[id_client[k]] = k
      BY OwnerOf DEF IInv, Online
    <2>2. ASSUME NEW f \in to, owner[f] = k PROVE f = id_client[k]
      <3>1. f \in Fds /\ end[f] # "none"
        BY <1>5, <1>6, <2>2 DEF to
      <3> QED BY <2>2, <3>1, OnLine
    <2> QED BY <2>1, <2>2 DEF Gone
  <1> HIDE DEF S, To
  <1>10. Box' = Abstract!Given(t, S)
    <2>1. Online' = Online
      BY <1>3 DEF Online
    <2>2. ASSUME NEW k \in Ids
          PROVE  Box'[k] = IF k \in S \ Gone THEN Append(Box[k], t) ELSE Box[k]
      <3>1. CASE k \notin Online
        <4>1. k \notin S
          BY <1>6, <1>7, <3>1 DEF Subs, Abstract!Subscribers
        <4> QED BY <2>1, <3>1, <4>1 DEF Box
      <3>2. CASE k \in Online
        <4>1. Box'[k] = out'[id_client[k]] /\ Box[k] = out[id_client[k]]
          BY <1>3, <2>1, <3>2 DEF Box
        <4>2. out'[id_client[k]] = IF id_client[k] \in to /\ end[id_client[k]] = "open"
                                   THEN Append(out[id_client[k]], t)
                                   ELSE out[id_client[k]]
          BY <1>4, <1>9, <3>2 DEF to
        <4> QED BY <1>9, <3>2, <4>1, <4>2
      <3> QED BY <3>1, <3>2
    <2>3. Box' = [k \in Ids |-> Box'[k]]
      BY DEF Box
    <2> QED BY <2>2, <2>3 DEF Abstract!Given, Gone, Box
  <1>11. Gone' = Gone /\ Online' = Online /\ Asked' = Asked
    <2>1. \A g \in Fds : end'[g] # "open" <=> end[g] # "open"
      BY <1>4
    <2>2. Online' = Online /\ Asked' = Asked
      BY <1>3 DEF Online, Asked, Inbound
    <2> QED BY <1>3, <1>9, <2>1, <2>2 DEF Gone
  <1>12. CASE n = num_clients
    <2>1. up' = up /\ Box' = Abstract!Given(t, Subs)
      BY <1>4, <1>8, <1>10, <1>12
    <2>2. Abstract!Publish(t)
      BY <1>3, <1>11, <2>1 DEF Abstract!Publish, Subs, Gone, Asked, Box
    <2> QED BY <2>2
  <1>13. CASE n # num_clients
    <2>1. n \in Recipients(t) /\ n \in Used /\ up' = "killed" /\ end[poll_fds[n].fd] # "open"
      BY <1>4, <1>5, <1>13
    <2>2. owner[poll_fds[n].fd] \in Subs \cap Gone
      BY <1>6, <2>1, OfOwner
    <2>3. Abstract!Die(t)
      BY <1>3, <1>7, <1>10, <1>11, <2>1, <2>2 DEF Abstract!Die, Subs, Gone, Asked, Box
    <2> QED BY <2>3
  <1> QED BY <1>12, <1>13

\* A step of the server or around it is a step of PubSub, or none.
LEMMA StepRefinement == IInv /\ [Next]_vars => [Abstract!Next]_(Abstract!vars)
  <1> SUFFICES ASSUME IInv, [Next]_vars PROVE Abstract!Next \/ UNCHANGED Abstract!vars
    OBVIOUS
  <1>1. CASE World
    <2>1. ASSUME (\E k \in Ids : Connect(k)) \/ SendId \/ (\E t \in Sent : Datagram(t)) \/ Console
          PROVE  UNCHANGED Abstract!vars
      <3>1. UNCHANGED <<up, id_client, end, inq, out, topic_subscribers>>
        BY <2>1 DEF Connect, SendId, Datagram, Console, server, link
      <3> QED BY <3>1, Stutter
    <2>2. ASSUME NEW f \in Fds, Read(f) \/ Leave(f) \/ \E r \in Requests : Ask(f, r)
          PROVE  Abstract!Next
      BY <2>2, ReadRefines, LeaveRefines, AskRefines DEF Abstract!Next
    <2> QED BY <1>1, <2>1, <2>2 DEF World
  <1>2. CASE Poll
    <2>1. UNCHANGED <<up, id_client, end, inq, out, topic_subscribers>>
      BY <1>2 DEF Poll, link
    <2> QED BY <2>1, Stutter
  <1>3. ASSUME NEW j, Accept(j) PROVE Abstract!Next \/ UNCHANGED Abstract!vars
    BY <1>3, AcceptRefines DEF Abstract!Next
  <1>4. ASSUME NEW j, Stdin(j) \/ Publish(j) \/ Request(j) \/ Reset(j) \/ Close(j)
        PROVE  Abstract!Next
    BY <1>4, StdinRefines, PublishRefines, RequestRefines, ResetRefines, CloseRefines
       DEF Abstract!Next
  <1>5. CASE UNCHANGED vars
    BY <1>5, Stutter DEF vars, server, link
  <1> QED BY <1>1, <1>2, <1>3, <1>4, <1>5 DEF Next, Serve

(***************************************************************************)
(* The program of server.cpp, for any number of clients whose connections  *)
(* come, end and break in any round, implements PubSub.                    *)
(***************************************************************************)
THEOREM RefinementTheorem == Spec => Refinement
  <1>1. Init => Abstract!Init
    BY DEF Init, Abstract!Init, Online, Inbound
  <1> QED BY <1>1, StepRefinement, Invariant, PTL DEF Spec, Refinement, Abstract!Spec

-----------------------------------------------------------------------------
(* Where the messages begin.                                               *)

\* Start(m), of any sequence s of sizes.
Offsets(s, m, f) ==
    f = [k \in 1 .. m |-> IF k = 1 THEN 0 ELSE f[k - 1] + 2 + s[k - 1]]
StartIn(s, m) ==
    LET at[k \in 1 .. m] == IF k = 1 THEN 0 ELSE at[k - 1] + 2 + s[k - 1]
    IN  at[m]

\* The recursion of Start has a solution.
LEMMA OffsetsExist ==
  ASSUME NEW s \in Seq(Nat), NEW m \in 1 .. Len(s) + 1
  PROVE  \E f \in [1 .. m -> Nat] : Offsets(s, m, f)
<1> DEFINE all == Len(s) + 1
           Has(n) == \E f \in [1 .. n -> Nat] : Offsets(s, n, f)
           Bad == {n \in 1 .. all : ~Has(n)}
<1>1. Has(1)
  <2> DEFINE f == [k \in 1 .. 1 |-> 0]
  <2>1. f \in [1 .. 1 -> Nat] /\ Offsets(s, 1, f)
    BY DEF Offsets
  <2> QED
    BY <2>1
<1>2. ASSUME NEW n \in 2 .. all, Has(n - 1) PROVE Has(n)
  <2>1. PICK f \in [1 .. n - 1 -> Nat] : Offsets(s, n - 1, f)
    BY <1>2
  <2>2. s[n - 1] \in Nat /\ n - 1 \in 1 .. n - 1
    OBVIOUS
  <2> DEFINE g == [k \in 1 .. n |-> IF k = n THEN f[n - 1] + 2 + s[n - 1]
                                    ELSE f[k]]
  <2>3. g \in [1 .. n -> Nat]
    BY <2>2
  <2>4. ASSUME NEW k \in 1 .. n
        PROVE  g[k] = IF k = 1 THEN 0 ELSE g[k - 1] + 2 + s[k - 1]
    <3>1. k # 1 => k - 1 \in 1 .. n - 1 /\ g[k - 1] = f[k - 1]
      OBVIOUS
    <3>2. CASE k = n
      BY <3>1, <3>2
    <3>3. CASE k # n
      <4>1. k \in 1 .. n - 1 /\ g[k] = f[k]
        BY <3>3
      <4>2. f[k] = IF k = 1 THEN 0 ELSE f[k - 1] + 2 + s[k - 1]
        BY <2>1, <4>1 DEF Offsets
      <4> QED
        BY <3>1, <4>1, <4>2
    <3> QED
      BY <3>2, <3>3
  <2>5. Offsets(s, n, g)
    <3>1. g = [k \in 1 .. n |-> g[k]]
      OBVIOUS
    <3> HIDE DEF g
    <3> QED
      BY <2>4, <3>1 DEF Offsets
  <2> QED
    BY <2>3, <2>5
<1>3. Bad = {}
  <2> SUFFICES ASSUME Bad # {} PROVE FALSE
    OBVIOUS
  <2>1. all \in Nat /\ Bad \in SUBSET (1 .. all)
    OBVIOUS
  <2> HIDE DEF Bad
  <2>2. PICK n \in Bad : \A k \in Bad : n <= k
    BY <2>1, LeastElement
  <2>3. n \in 1 .. all /\ n - 1 \notin Bad
    BY <2>1, <2>2
  <2> HIDE DEF Has, all
  <2>6. ~Has(n)
    BY <2>2 DEF Bad
  <2>4. n # 1
    BY <1>1, <2>6
  <2>5. n \in 2 .. all /\ n - 1 \in 1 .. all
    BY <2>1, <2>3, <2>4
  <2> QED
    BY <1>2, <2>3, <2>5, <2>6 DEF Bad
<1> QED
  BY <1>3

\* Two solutions agree where their sizes do.
LEMMA OffsetsAgree ==
  ASSUME NEW s, NEW t, NEW f, NEW g, NEW n \in Nat, NEW m \in 1 .. n,
         Offsets(s, m, f), Offsets(t, n, g),
         \A k \in 1 .. m - 1 : s[k] = t[k]
  PROVE  \A k \in 1 .. m : f[k] = g[k]
<1> DEFINE Bad == {k \in 1 .. m : f[k] # g[k]}
<1> SUFFICES ASSUME Bad # {} PROVE FALSE
  OBVIOUS
<1>1. m \in Nat /\ Bad \in SUBSET (1 .. m)
  OBVIOUS
<1> HIDE DEF Bad
<1>2. PICK k \in Bad : \A j \in Bad : k <= j
  BY <1>1, LeastElement
<1>3. k \in 1 .. m /\ k \in 1 .. n /\ f[k] # g[k] /\ k - 1 \notin Bad
  BY <1>1, <1>2 DEF Bad
<1>4. /\ f[k] = IF k = 1 THEN 0 ELSE f[k - 1] + 2 + s[k - 1]
      /\ g[k] = IF k = 1 THEN 0 ELSE g[k - 1] + 2 + t[k - 1]
  BY <1>3 DEF Offsets
<1>5. k # 1 => k - 1 \in 1 .. m - 1 /\ f[k - 1] = g[k - 1]
  BY <1>3 DEF Bad
<1> QED
  BY <1>3, <1>4, <1>5

\* StartIn is what the solutions have there.
LEMMA StartValue ==
  ASSUME NEW s \in Seq(Nat), NEW m \in 1 .. Len(s) + 1
  PROVE  \E f \in [1 .. m -> Nat] : Offsets(s, m, f) /\ StartIn(s, m) = f[m]
<1> DEFINE f == CHOOSE h : Offsets(s, m, h)
<1>1. StartIn(s, m) = f[m]
  BY DEF StartIn, Offsets
<1>2. \E g : Offsets(s, m, g)
  BY OffsetsExist
<1>3. Offsets(s, m, f)
  BY <1>2
<1> HIDE DEF f
<1>4. PICK g \in [1 .. m -> Nat] : Offsets(s, m, g)
  BY OffsetsExist
<1>5. m \in Nat /\ m \in 1 .. m
  OBVIOUS
<1>6. \A k \in 1 .. m : f[k] = g[k]
  BY <1>3, <1>4, <1>5, OffsetsAgree
<1> QED
  BY <1>1, <1>4, <1>5, <1>6

\* Where the first message begins, and each next one.
LEMMA StartNext ==
  ASSUME NEW s \in Seq(Nat)
  PROVE  /\ StartIn(s, 1) = 0
         /\ \A m \in 1 .. Len(s) + 1 : StartIn(s, m) \in Nat
         /\ \A m \in 1 .. Len(s) : StartIn(s, m + 1) = StartIn(s, m) + 2 + s[m]
<1>1. StartIn(s, 1) = 0
  <2>1. 1 \in 1 .. Len(s) + 1
    OBVIOUS
  <2>2. PICK f \in [1 .. 1 -> Nat] : Offsets(s, 1, f) /\ StartIn(s, 1) = f[1]
    BY <2>1, StartValue
  <2> QED
    BY <2>2 DEF Offsets
<1>2. ASSUME NEW m \in 1 .. Len(s) + 1 PROVE StartIn(s, m) \in Nat
  BY StartValue
<1>3. ASSUME NEW m \in 1 .. Len(s)
      PROVE  StartIn(s, m + 1) = StartIn(s, m) + 2 + s[m]
  <2>1. /\ m \in 1 .. Len(s) + 1 /\ m + 1 \in 1 .. Len(s) + 1
        /\ m + 1 \in Nat /\ m \in 1 .. m + 1
    OBVIOUS
  <2>2. PICK f \in [1 .. m -> Nat] : Offsets(s, m, f) /\ StartIn(s, m) = f[m]
    BY <2>1, StartValue
  <2>3. PICK g \in [1 .. m + 1 -> Nat] :
          Offsets(s, m + 1, g) /\ StartIn(s, m + 1) = g[m + 1]
    BY <2>1, StartValue
  <2>4. f[m] = g[m]
    BY SMTT(30), <2>1, <2>2, <2>3, OffsetsAgree
  <2>5. g[m + 1] = g[m] + 2 + s[m]
    BY <2>1, <2>3 DEF Offsets
  <2> QED
    BY <2>2, <2>3, <2>4, <2>5
<1> QED
  BY <1>1, <1>2, <1>3

\* What is sent later moves no beginning.
LEMMA StartKept ==
  ASSUME NEW s \in Seq(Nat), NEW n \in Nat, NEW m \in 1 .. Len(s) + 1
  PROVE  StartIn(Append(s, n), m) = StartIn(s, m)
<1> DEFINE t == Append(s, n)
<1>1. /\ t \in Seq(Nat) /\ m \in 1 .. Len(t) + 1
      /\ \A k \in 1 .. m - 1 : s[k] = t[k]
  OBVIOUS
<1> HIDE DEF t
<1>2. PICK f \in [1 .. m -> Nat] : Offsets(s, m, f) /\ StartIn(s, m) = f[m]
  BY StartValue
<1>3. PICK g \in [1 .. m -> Nat] : Offsets(t, m, g) /\ StartIn(t, m) = g[m]
  BY <1>1, StartValue
<1>4. m \in Nat /\ m \in 1 .. m
  OBVIOUS
<1>5. \A k \in 1 .. m : f[k] = g[k]
  <2>1. Offsets(s, m, f) /\ Offsets(t, m, g)
    BY <1>2, <1>3
  <2>2. \A k \in 1 .. m - 1 : s[k] = t[k]
    BY <1>1
  <2> QED
    BY <1>4, <2>1, <2>2, OffsetsAgree, SMTT(60)
<1> QED
  BY <1>2, <1>3, <1>4, <1>5 DEF t

\* Two bytes that are not negative say the length.
LEMMA DecodeRight ==
  ASSUME NEW n \in Nat, n < Base * Half, n % Base < Half
  PROVE  Decode(n % Base, n \div Base) = n
<1> USE WireAssumption
<1>1. Base \in Nat \ {0} /\ Half \in Nat \ {0}
  BY DEF Base
<1>2. PICK q \in Int : q = n \div Base
  BY <1>1
<1>3. PICK r \in Int : r = n % Base
  BY <1>1
<1>4. n = Base * q + r /\ 0 <= r /\ r < Base
  BY <1>1, <1>2, <1>3
<1> HIDE DEF Base
<1>5. q < Half
  <2>1. Base * q < Base * Half
    BY <1>1, <1>4
  <2> QED
    BY <1>1, <2>1
<1>6. Signed(q) = q /\ Signed(r) = r
  BY <1>3, <1>5 DEF Signed
<1> QED
  BY <1>1, <1>2, <1>3, <1>4, <1>6 DEF Decode

-----------------------------------------------------------------------------
(* What the subscriber reads.                                              *)

(***************************************************************************)
(* The inductive invariant.  As long as every message was read right, what *)
(* the subscriber has taken and what recv_all still has to read end where  *)
(* the next message begins.                                                *)
(***************************************************************************)
StreamType ==
    /\ sent \in Seq(Sizes)
    /\ arrived \in Nat /\ taken \in Nat /\ need \in Int
    /\ got \in Seq(Nat \X Int)
    /\ halved \in BOOLEAN

AllRight == \A k \in 1 .. Len(got) : Right(k)

InStep ==
    /\ taken <= arrived /\ arrived <= Written
    /\ need <= Buffer
    /\ Len(got) <= Len(sent)
    /\ AllRight => need \in Nat /\ taken + need = Start(Len(got) + 1)

StreamInv == StreamType /\ InStep /\ CutRight

\* Sizes are numbers.
LEMMA SizesNat ==
  ASSUME NEW s \in Seq(Sizes)
  PROVE  s \in Seq(Nat)
<1>1. Sizes \subseteq Nat
  BY WireAssumption
<1>2. /\ Len(s) \in Nat /\ s = [e \in 1 .. Len(s) |-> s[e]]
      /\ \A e \in 1 .. Len(s) : s[e] \in Nat
  BY <1>1
<1> QED
  BY <1>2

\* The beginnings, for the messages sent.
LEMMA Starts ==
  ASSUME sent \in Seq(Sizes)
  PROVE  /\ Start(1) = 0 /\ Written \in Nat
         /\ \A m \in 1 .. Len(sent) + 1 : Start(m) \in Nat
         /\ \A m \in 1 .. Len(sent) : Start(m + 1) = Start(m) + 2 + sent[m]
<1>1. sent \in Seq(Nat)
  BY SizesNat
<1>2. \A m : Start(m) = StartIn(sent, m)
  BY DEF Start, StartIn
<1>3. Len(sent) + 1 \in 1 .. Len(sent) + 1
  OBVIOUS
<1> QED
  BY <1>1, <1>2, <1>3, StartNext DEF Written

\* A new message keeps StreamInv: it begins where the stream ended.
LEMMA SendStream ==
  ASSUME StreamInv, NEW n \in Sizes, Send(n)
  PROVE  StreamInv'
<1>1. /\ sent' = Append(sent, n)
      /\ UNCHANGED <<arrived, taken, need, got, halved>>
  BY DEF Send
<1>2. /\ sent \in Seq(Sizes) /\ sent' \in Seq(Sizes)
      /\ sent \in Seq(Nat) /\ sent' \in Seq(Nat) /\ n \in Nat
      /\ Len(sent) \in Nat /\ Len(sent') = Len(sent) + 1
      /\ \A m \in 1 .. Len(sent) : sent'[m] = sent[m]
  <2>1. sent \in Seq(Sizes) /\ sent' \in Seq(Sizes)
    BY <1>1 DEF StreamInv, StreamType
  <2>2. n \in Nat
    BY WireAssumption
  <2> QED
    BY <1>1, <2>1, <2>2, SizesNat
<1>3. /\ \A m : Start(m) = StartIn(sent, m)
      /\ \A m : Start(m)' = StartIn(sent', m)
  BY DEF Start, StartIn
<1>4. \A m \in 1 .. Len(sent) + 1 :
         Start(m)' = Start(m) /\ Start(m) \in Nat
  BY <1>1, <1>2, <1>3, StartKept, StartNext
<1>5. Written \in Nat /\ Written' = Written + 2 + n
  <2>1. Len(sent) + 1 \in 1 .. Len(sent') /\ sent'[Len(sent) + 1] = n
        /\ Len(sent) + 1 \in 1 .. Len(sent) + 1
    BY <1>1, <1>2
  <2>2. StartIn(sent', Len(sent) + 1 + 1)
          = StartIn(sent', Len(sent) + 1) + 2 + n
    BY <1>2, <2>1, StartNext
  <2> QED
    BY <1>2, <1>3, <1>4, <2>1, <2>2 DEF Written
<1>6. ASSUME NEW m \in 1 .. Len(sent) PROVE Misleading(m)' <=> Misleading(m)
  BY <1>2 DEF Misleading
<1>7. Len(got) \in Nat /\ Len(got) <= Len(sent)
  BY DEF StreamInv, StreamType, InStep
<1>8. \A k \in 1 .. Len(got) : Right(k)' <=> Right(k)
  <2> SUFFICES ASSUME NEW k \in 1 .. Len(got) PROVE Right(k)' <=> Right(k)
    OBVIOUS
  <2>1. /\ k \in 1 .. Len(sent) /\ k \in 1 .. Len(sent) + 1
        /\ k <= Len(sent) /\ k <= Len(sent')
    BY <1>2, <1>7
  <2> QED
    BY <1>1, <1>2, <1>4, <2>1 DEF Right
<1>9. StreamType'
  BY <1>1, <1>2 DEF StreamInv, StreamType
<1>10. InStep'
  <2>1. taken' <= arrived' /\ arrived' <= Written' /\ need' <= Buffer
    BY <1>1, <1>2, <1>5 DEF StreamInv, InStep, StreamType
  <2>2. Len(got') <= Len(sent')
    BY <1>1, <1>2, <1>7
  <2>3. ASSUME AllRight'
        PROVE  need' \in Nat /\ taken' + need' = Start(Len(got) + 1)'
    <3>1. AllRight
      BY <1>1, <1>8, <2>3 DEF AllRight
    <3>2. Len(got) + 1 \in 1 .. Len(sent) + 1
      BY <1>2, <1>7
    <3>3. Start(Len(got) + 1)' = Start(Len(got) + 1)
      BY <1>1, <1>3, <1>4, <3>2
    <3> QED
      BY <1>1, <3>1, <3>3 DEF StreamInv, InStep
  <2> QED
    BY <2>1, <2>2, <2>3 DEF InStep
<1>11. CutRight'
  <2> SUFFICES ASSUME ~halved', NEW k \in 1 .. Len(got')
               PROVE  \/ Right(k)'
                      \/ \E m \in 1 .. Len(sent') : m <= k /\ Misleading(m)'
    BY DEF CutRight
  <2>1. \/ Right(k)
        \/ \E m \in 1 .. Len(sent) : m <= k /\ Misleading(m)
    BY <1>1 DEF StreamInv, CutRight
  <2>2. 1 .. Len(sent) \subseteq 1 .. Len(sent')
    BY <1>2
  <2> QED
    BY <1>1, <1>6, <1>8, <2>1, <2>2
<1> QED
  BY <1>9, <1>10, <1>11 DEF StreamInv

\* Where nothing is sent or read, the beginnings and what was read stay.
LEMMA ReadFrame ==
  ASSUME UNCHANGED <<sent, got>>
  PROVE  /\ \A m : Start(m)' = Start(m)
         /\ Written' = Written
         /\ \A k \in 1 .. Len(got) : Right(k)' <=> Right(k)
         /\ \A m \in 1 .. Len(sent) : Misleading(m)' <=> Misleading(m)
<1>1. \A m : Start(m)' = Start(m)
  BY DEF Start
<1> QED
  BY <1>1 DEF Written, Right, Misleading

\* What arrives, or is read by recv_all, keeps StreamInv.
LEMMA BodyStream ==
  ASSUME StreamInv, UNCHANGED <<sent, got, halved>>,
         arrived' \in Nat, taken' \in Nat, need' \in Int,
         taken' + need' = taken + need, need \in Nat => need' \in Nat,
         taken' <= arrived', arrived' <= Written, need' <= Buffer
  PROVE  StreamInv'
<1>1. StreamType'
  BY DEF StreamInv, StreamType
<1>2. AllRight' <=> AllRight
  BY ReadFrame DEF AllRight
<1>3. InStep'
  BY <1>2, ReadFrame DEF StreamInv, InStep
<1>4. CutRight'
  BY ReadFrame DEF StreamInv, CutRight
<1> QED
  BY <1>1, <1>3, <1>4 DEF StreamInv

\* The two bytes of a length: in step, they are those of the next message.
LEMMA LengthStream ==
  ASSUME StreamInv, ReadLength
  PROVE  StreamInv'
<1> USE WireAssumption
<1>0. PICK l : l = Len(got) + 1
  OBVIOUS
<1>k. PICK k : k = IF arrived - taken = 1 THEN 1 ELSE 2
  OBVIOUS
<1>1. /\ sent \in Seq(Sizes) /\ Len(sent) \in Nat
      /\ got \in Seq(Nat \X Int) /\ Len(got) \in Nat
      /\ l \in Nat /\ k \in {1, 2}
      /\ arrived \in Nat /\ taken \in Nat /\ halved \in BOOLEAN
  BY <1>0, <1>k DEF StreamInv, StreamType
<1>2. /\ need = 0 /\ taken < arrived /\ AllRight
      /\ UNCHANGED <<sent, arrived>>
  BY DEF ReadLength, AllRight
<1>3. /\ taken = Start(l) /\ Len(got) <= Len(sent)
      /\ arrived <= Start(Len(sent) + 1)
  BY <1>0, <1>1, <1>2 DEF StreamInv, InStep, Written
<1>4. l \in 1 .. Len(sent)
  <2>1. CASE Len(got) = Len(sent)
    <3>1. Start(l) = Start(Len(sent) + 1)
      BY <1>0, <2>1
    <3> QED
      BY <1>1, <1>2, <1>3, <3>1
  <2>2. CASE Len(got) # Len(sent)
    BY <1>0, <1>1, <1>3, <2>2
  <2> QED
    BY <2>1, <2>2
<1>5. PICK n \in 1 .. Buffer : n = sent[l]
  <2>1. sent[l] \in Sizes
    BY <1>1, <1>4
  <2> QED
    BY <2>1
<1>6. Base \in Nat \ {0} /\ n % Base \in 0 .. Base - 1 /\ n \div Base \in Nat
  BY DEF Base
<1>7. PICK hi \in (0 .. Base - 1) \cup {n \div Base} :
         LET len == Decode(n % Base, hi)
         IN  /\ k # 1 => hi = n \div Base
             /\ taken' = taken + k
             /\ halved' = (halved \/ k = 1)
             /\ need' = IF len \in 1 .. Buffer THEN len ELSE -1
             /\ got' = Append(got, <<taken + k, len>>)
  BY <1>0, <1>k, <1>5 DEF ReadLength
<1>8. PICK len \in Int : len = Decode(n % Base, hi)
  <2>1. hi \in Int
    BY <1>6
  <2> QED
    BY <1>6, <2>1 DEF Decode, Signed
<1>9. /\ taken' = taken + k /\ taken' <= arrived
      /\ halved' = (halved \/ k = 1)
      /\ need' = IF len \in 1 .. Buffer THEN len ELSE -1
      /\ got' = Append(got, <<taken + k, len>>)
  BY <1>1, <1>2, <1>k, <1>7, <1>8
<1>10. /\ got' \in Seq(Nat \X Int) /\ Len(got') = l /\ got'[l] = <<taken + k, len>>
       /\ \A j \in 1 .. Len(got) : got'[j] = got[j]
  BY <1>0, <1>1, <1>9
<1>11. /\ \A m : Start(m)' = Start(m)
       /\ Written' = Written
       /\ \A m \in 1 .. Len(sent) : Misleading(m)' <=> Misleading(m)
  <2>1. \A m : Start(m)' = Start(m)
    BY <1>2 DEF Start
  <2> QED
    BY <1>2, <2>1 DEF Written, Misleading
<1>12. \A j \in 1 .. Len(got) : Right(j)'
  BY <1>2, <1>10, <1>11 DEF AllRight, Right
<1>13. Right(l)' <=> k = 2 /\ len = n
  <2>1. Right(l)' <=> /\ l <= Len(sent)
                      /\ <<taken + k, len>> = <<Start(l) + 2, n>>
    BY <1>2, <1>5, <1>10, <1>11 DEF Right
  <2>2. taken + k = Start(l) + 2 <=> k = 2
    BY <1>1, <1>3
  <2> QED
    BY <1>1, <1>4, <2>1, <2>2
<1>14. StreamType'
  BY <1>1, <1>2, <1>9, <1>10 DEF StreamInv, StreamType
<1>15. InStep'
  <2>1. taken' <= arrived' /\ arrived' <= Written' /\ need' <= Buffer
    BY <1>2, <1>9, <1>11 DEF StreamInv, InStep
  <2>2. Len(got') <= Len(sent')
    BY <1>2, <1>4, <1>10, <1>1
  <2>3. ASSUME AllRight'
        PROVE  need' \in Nat /\ taken' + need' = Start(Len(got) + 1)'
    <3>1. k = 2 /\ len = n
      <4>1. l \in 1 .. Len(got')
        BY <1>0, <1>1, <1>10
      <4>2. Right(l)'
        BY <2>3, <4>1 DEF AllRight
      <4> QED
        BY <1>13, <4>2
    <3>2. Start(l + 1) = Start(l) + 2 + n /\ Start(l) \in Nat
      BY <1>1, <1>4, <1>5, Starts
    <3>3. need' = n /\ taken' + need' = Start(l + 1)
      BY <1>3, <1>9, <3>1, <3>2
    <3> QED
      BY <1>0, <1>10, <1>11, <3>3
  <2> QED
    BY <2>1, <2>2, <2>3 DEF InStep
<1>16. CutRight'
  <2> SUFFICES ASSUME ~halved', NEW j \in 1 .. Len(got')
               PROVE  \/ Right(j)'
                      \/ \E m \in 1 .. Len(sent') : m <= j /\ Misleading(m)'
    BY DEF CutRight
  <2>1. CASE j \in 1 .. Len(got)
    BY <1>12, <2>1
  <2>2. CASE j \notin 1 .. Len(got)
    <3>1. j = l /\ k = 2
      <4>1. j = l
        BY <1>0, <1>1, <1>10, <2>2
      <4>2. k # 1
        BY <1>9, Zenon
      <4> QED
        BY <1>1, <4>1, <4>2
    <3>2. CASE n % Base < Half
      <4>1. len = n
        <5>1. n \in Nat /\ n < Base * Half
          BY <1>6
        <5>2. hi = n \div Base
          BY <1>7, <3>1
        <5> QED
          BY <1>8, <3>2, <5>1, <5>2, DecodeRight
      <4> QED
        BY <1>13, <3>1, <4>1
    <3>3. CASE ~(n % Base < Half)
      <4>1. Misleading(l)
        BY <1>5, <1>6, <3>3 DEF Misleading
      <4> QED
        BY <1>2, <1>4, <1>11, <3>1, <4>1
    <3> QED
      BY <3>2, <3>3
  <2> QED
    BY <2>1, <2>2
<1> QED
  BY <1>14, <1>15, <1>16 DEF StreamInv

\* Every step keeps StreamInv.
LEMMA NextStream == StreamInv /\ [WireNext]_wire => StreamInv'
<1> SUFFICES ASSUME StreamInv, [WireNext]_wire PROVE StreamInv'
  OBVIOUS
<1>1. ASSUME NEW n \in Sizes, Send(n) PROVE StreamInv'
  BY <1>1, SendStream
<1>2. ASSUME NEW x \in 1 .. Written, Arrive(x) PROVE StreamInv'
  <2>1. Written \in Nat
    BY Starts DEF StreamInv, StreamType
  <2>2. arrived' = x /\ arrived < x /\ x <= Written
        /\ UNCHANGED <<sent, taken, need, got, halved>>
    BY <1>2 DEF Arrive
  <2>3. /\ arrived' \in Nat /\ taken' \in Nat /\ need' \in Int
        /\ taken' <= arrived' /\ arrived' <= Written /\ need' <= Buffer
    BY <2>1, <2>2 DEF StreamInv, StreamType, InStep
  <2> QED
    BY <2>2, <2>3, BodyStream
<1>3. ASSUME ReadLength PROVE StreamInv'
  BY <1>3, LengthStream
<1>4. ASSUME ReadBody PROVE StreamInv'
  <2>1. /\ arrived \in Nat /\ taken \in Nat /\ need \in Int
        /\ arrived <= Written /\ need <= Buffer
    BY DEF StreamInv, StreamType, InStep
  <2>2. PICK k \in Nat : /\ k = IF arrived - taken < need THEN arrived - taken
                                ELSE need
                         /\ need > 0 /\ taken < arrived
                         /\ taken' = taken + k
                         /\ need' = IF k >= need THEN 0 ELSE need - k
    BY <1>4, <2>1 DEF ReadBody, Chunk
  <2>3. UNCHANGED <<sent, arrived, got, halved>>
    BY <1>4 DEF ReadBody
  <2>4. /\ arrived' \in Nat /\ taken' \in Nat /\ need' \in Int
        /\ taken' + need' = taken + need /\ need' \in Nat
        /\ taken' <= arrived' /\ arrived' <= Written /\ need' <= Buffer
    BY <2>1, <2>2, <2>3, WireAssumption
  <2> QED
    BY <2>3, <2>4, BodyStream
<1>5. CASE UNCHANGED wire
  <2>1. UNCHANGED <<sent, arrived, taken, need, got, halved>>
    BY <1>5 DEF wire
  <2>2. /\ arrived' \in Nat /\ taken' \in Nat /\ need' \in Int
        /\ taken' <= arrived' /\ arrived' <= Written /\ need' <= Buffer
    BY <2>1 DEF StreamInv, StreamType, InStep
  <2> QED
    BY <2>1, <2>2, BodyStream
<1> QED
  BY <1>1, <1>2, <1>3, <1>4, <1>5 DEF WireNext

\* However TCP cuts the stream, every message is read as it was sent, until
\* one of which the low byte of the length is negative as a signed char, or
\* half a length alone.
THEOREM CutTheorem == WireSpec => []CutRight
<1>1. WireInit => StreamInv
  <2> SUFFICES ASSUME WireInit PROVE StreamInv
    OBVIOUS
  <2>1. /\ sent = <<>> /\ got = <<>> /\ Len(sent) = 0 /\ Len(got) = 0
        /\ arrived = 0 /\ taken = 0 /\ need = 0 /\ halved = FALSE
    BY DEF WireInit
  <2>2. StreamType
    <3>1. <<>> \in Seq(Sizes) /\ <<>> \in Seq(Nat \X Int)
      OBVIOUS
    <3>2. halved \in BOOLEAN
      BY <2>1, Zenon
    <3> QED
      BY <2>1, <3>1, <3>2 DEF StreamType
  <2>3. Start(1) = 0 /\ Written = 0
    BY <2>1, <2>2, Starts DEF StreamType, Written
  <2>4. InStep
    BY <2>1, <2>3, WireAssumption DEF InStep
  <2>5. CutRight
    BY <2>1 DEF CutRight
  <2> QED
    BY <2>2, <2>4, <2>5 DEF StreamInv
<1>2. StreamInv => CutRight
  BY DEF StreamInv
<1> QED
  BY <1>1, <1>2, NextStream, PTL DEF WireSpec

-----------------------------------------------------------------------------
(* The loop of check_topic.                                                *)

\* What holds at 0, and from each number to the next, holds up to n.
LEMMA UpTo ==
  ASSUME NEW n \in Nat, NEW S, 0 \in S,
         \A e \in 0 .. n - 1 : e \in S => e + 1 \in S
  PROVE  \A e \in 0 .. n : e \in S
<1> DEFINE Bad == {e \in 1 .. n : e \notin S}
<1> SUFFICES ASSUME Bad # {} PROVE FALSE
  <2>1. \A e \in 0 .. n : e = 0 \/ e \in 1 .. n
    OBVIOUS
  <2> QED
    BY <2>1
<1>1. Bad \in SUBSET (1 .. n)
  OBVIOUS
<1>2. PICK e \in Bad : \A k \in Bad : e <= k
  <2> HIDE DEF Bad
  <2> QED
    BY <1>1, LeastElement
<1>3. e \in 1 .. n /\ e \notin S /\ e - 1 \notin Bad
  BY <1>2
<1>4. e - 1 \in 0 .. n - 1 /\ (e - 1 = 0 \/ e - 1 \in 1 .. n)
  BY <1>3
<1>5. e - 1 \in S
  BY <1>3, <1>4
<1> QED
  BY <1>3, <1>4, <1>5

States(p) == [j : 0 .. Len(p), star : BOOLEAN, over : BOOLEAN]
Begin == [j |-> 0, star |-> FALSE, over |-> FALSE]
Turns(p, t, f) ==
    f = [e \in 0 .. Len(t) |-> IF e = 0 THEN Begin ELSE NextLevel(p, t[e], f[e - 1])]

LEMMA TurnType ==
  ASSUME NEW S, NEW p \in Seq(S), NEW level, NEW s \in States(p)
  PROVE  NextLevel(p, level, s) \in States(p)
<1>1. Len(p) \in Nat /\ s.j \in 0 .. Len(p) /\ s.star \in BOOLEAN /\ s.over \in BOOLEAN
      /\ s = [j |-> s.j, star |-> s.star, over |-> s.over]
  BY DEF States
<1>2. s.j # Len(p) => s.j + 1 \in 0 .. Len(p)
  BY <1>1
<1>3. ASSUME NEW k \in 0 .. Len(p), NEW b \in BOOLEAN
      PROVE  /\ [s EXCEPT !.over = b] \in States(p)
             /\ [s EXCEPT !.j = k] \in States(p)
             /\ [s EXCEPT !.j = k, !.star = b] \in States(p)
  BY <1>1, <1>3 DEF States
<1>4. PICK b \in BOOLEAN : b = ~s.star
  BY Zenon
<1>5. TRUE \in BOOLEAN /\ FALSE \in BOOLEAN
  OBVIOUS
<1>6. CASE s.over \/ s.j = Len(p)
  <2>1. NextLevel(p, level, s) = [s EXCEPT !.over = TRUE]
    BY <1>6, Zenon DEF NextLevel
  <2> QED
    BY <1>1, <1>3, <1>5, <2>1
<1>7. CASE ~(s.over \/ s.j = Len(p))
  <2>1. s.j + 1 \in 0 .. Len(p)
    BY <1>2, <1>7
  <2>2. NextLevel(p, level, s) \in {[s EXCEPT !.j = s.j + 1],
            [s EXCEPT !.j = s.j + 1, !.star = TRUE],
            [s EXCEPT !.j = s.j + 1, !.star = FALSE], [s EXCEPT !.over = b]}
    BY <1>4, <1>7, Zenon DEF NextLevel
  <2> QED
    BY <1>3, <1>5, <2>1, <2>2
<1> QED
  BY <1>6, <1>7

\* The recursion of Matches has a solution.
LEMMA TurnsExist ==
  ASSUME NEW S, NEW p \in Seq(S), NEW t, Len(t) \in Nat
  PROVE  \E f \in [0 .. Len(t) -> States(p)] : Turns(p, t, f)
<1> DEFINE Part(n, f) ==
        \A e \in 0 .. n : f[e] = IF e = 0 THEN Begin ELSE NextLevel(p, t[e], f[e - 1])
           Has == {n \in 0 .. Len(t) : \E f \in [0 .. n -> States(p)] : Part(n, f)}
<1>1. 0 \in Has
  <2> DEFINE f == [k \in 0 .. 0 |-> Begin]
  <2>1. Begin \in States(p)
    <3>1. Len(p) \in Nat /\ FALSE \in BOOLEAN
      OBVIOUS
    <3> QED
      BY <3>1 DEF Begin, States
  <2>2. f \in [0 .. 0 -> States(p)] /\ Part(0, f)
    BY <2>1
  <2>3. 0 \in 0 .. Len(t)
    OBVIOUS
  <2> HIDE DEF f
  <2> QED
    BY <2>2, <2>3
<1>2. ASSUME NEW n \in 0 .. Len(t) - 1, n \in Has PROVE n + 1 \in Has
  <2>1. PICK f \in [0 .. n -> States(p)] : Part(n, f)
    BY <1>2
  <2> DEFINE g == [k \in 0 .. n + 1 |-> IF k = n + 1 THEN NextLevel(p, t[n + 1], f[n])
                                        ELSE f[k]]
  <2>2. f[n] \in States(p)
    OBVIOUS
  <2>3. NextLevel(p, t[n + 1], f[n]) \in States(p)
    BY <2>2, TurnType
  <2>4. \A k \in 0 .. n + 1 : k # n + 1 => k \in 0 .. n
    OBVIOUS
  <2>5. g \in [0 .. n + 1 -> States(p)]
    BY <2>3, <2>4
  <2>6. ASSUME NEW k \in 0 .. n + 1
        PROVE  g[k] = IF k = 0 THEN Begin ELSE NextLevel(p, t[k], g[k - 1])
    <3>1. k # 0 => k - 1 \in 0 .. n /\ g[k - 1] = f[k - 1]
      OBVIOUS
    <3>2. CASE k = n + 1
      BY <3>1, <3>2
    <3>3. CASE k # n + 1
      <4>1. k \in 0 .. n /\ g[k] = f[k]
        BY <3>3
      <4>2. f[k] = IF k = 0 THEN Begin ELSE NextLevel(p, t[k], f[k - 1])
        BY <2>1, <4>1
      <4> QED
        BY <3>1, <4>1, <4>2
    <3> QED
      BY <3>2, <3>3
  <2>7. n + 1 \in 0 .. Len(t)
    OBVIOUS
  <2> HIDE DEF g
  <2> QED
    BY <2>5, <2>6, <2>7
<1>3. Len(t) \in Has
  <2> HIDE DEF Has
  <2>1. \A e \in 0 .. Len(t) : e \in Has
    BY <1>1, <1>2, UpTo
  <2> QED
    BY <2>1
<1>4. PICK f \in [0 .. Len(t) -> States(p)] : Part(Len(t), f)
  BY <1>3
<1>5. f = [e \in 0 .. Len(t) |-> f[e]]
  OBVIOUS
<1>6. Turns(p, t, f)
  BY <1>4, <1>5 DEF Turns
<1> QED
  BY <1>6

\* Matches, from the states the loop goes through.
LEMMA MatchesTurns ==
  ASSUME NEW S, NEW p \in Seq(S), NEW t, Len(t) \in Nat
  PROVE  \E f \in [0 .. Len(t) -> States(p)] :
            /\ f[0] = Begin
            /\ \A e \in 1 .. Len(t) : f[e] = NextLevel(p, t[e], f[e - 1])
            /\ Matches(p, t) <=>
                  (~f[Len(t)].over /\ f[Len(t)].j = Len(p)) \/ f[Len(t)].star
<1> DEFINE at == CHOOSE f : Turns(p, t, f)
<1>1. Turns(p, t, at)
  <2>1. \E f : Turns(p, t, f)
    BY TurnsExist
  <2> QED
    BY <2>1, Zenon
<1>2. Matches(p, t) <=>
         (~at[Len(t)].over /\ at[Len(t)].j = Len(p)) \/ at[Len(t)].star
  BY DEF Matches, Turns, Begin
<1> HIDE DEF at
<1>3. /\ at = [e \in 0 .. Len(t) |-> at[e]]
      /\ \A e \in 0 .. Len(t) : at[e] = IF e = 0 THEN Begin ELSE NextLevel(p, t[e], at[e - 1])
  BY <1>1 DEF Turns
<1>4. \A e \in 0 .. Len(t) : at[e] \in States(p)
  <2> DEFINE T == {e \in 0 .. Len(t) : at[e] \in States(p)}
  <2>1. 0 \in T
    <3>1. Len(p) \in Nat /\ FALSE \in BOOLEAN
      OBVIOUS
    <3> QED
      BY <1>3, <3>1 DEF Begin, States
  <2>2. ASSUME NEW e \in 0 .. Len(t) - 1, e \in T PROVE e + 1 \in T
    <3>1. e + 1 \in 0 .. Len(t) /\ e + 1 # 0 /\ (e + 1) - 1 = e
      OBVIOUS
    <3>2. at[e + 1] = NextLevel(p, t[e + 1], at[e])
      BY <1>3, <3>1
    <3> QED
      BY <2>2, <3>1, <3>2, TurnType
  <2> HIDE DEF T
  <2>3. \A e \in 0 .. Len(t) : e \in T
    BY <2>1, <2>2, UpTo
  <2> QED
    BY <2>3 DEF T
<1>5. at \in [0 .. Len(t) -> States(p)]
  BY <1>3, <1>4
<1>6. at[0] = Begin
  <2>1. 0 \in 0 .. Len(t)
    OBVIOUS
  <2> QED
    BY <1>3, <2>1
<1>7. ASSUME NEW e \in 1 .. Len(t) PROVE at[e] = NextLevel(p, t[e], at[e - 1])
  <2>1. e \in 0 .. Len(t) /\ e # 0
    OBVIOUS
  <2> QED
    BY <1>3, <2>1
<1> QED
  BY <1>2, <1>5, <1>6, <1>7
-----------------------------------------------------------------------------
(* Levels of a subscription side by side with levels of a topic.           *)

Wild(p, j) == p[j] \in {Plus, Star}

\* Level j of p stands beside the levels of t after the a-th up to the b-th.
Beside(p, t, j, a, b) ==
    IF p[j] = Star THEN b > a
    ELSE /\ b = a + 1
         /\ p[j] = Plus \/ Fits(p, j, t[b])

\* c lays the first j levels of p beside the first n of t.
IsCut(p, t, j, n, c) ==
    /\ c \in [0 .. j -> Nat]
    /\ c[0] = 0 /\ c[j] = n
    /\ \A k \in 1 .. j : Beside(p, t, k, c[k - 1], c[k])

Covers(p, t, j, n) == \E c : IsCut(p, t, j, n, c)

\* The j-th level is one of the wildcards that come after a '*'.
Trailing(p, j) == \E s \in 1 .. j : p[s] = Star /\ \A k \in s .. j : Wild(p, k)

LEMMA CoversNone ==
  ASSUME NEW p, NEW t, NEW n
  PROVE  Covers(p, t, 0, n) <=> n = 0
<1>1. ASSUME n = 0 PROVE Covers(p, t, 0, n)
  <2> DEFINE c == [k \in 0 .. 0 |-> 0]
  <2>1. c \in [0 .. 0 -> Nat] /\ c[0] = 0 /\ 1 .. 0 = {}
    OBVIOUS
  <2> HIDE DEF c
  <2>2. IsCut(p, t, 0, n, c)
    BY <1>1, <2>1 DEF IsCut
  <2> QED
    BY <2>2 DEF Covers
<1>2. ASSUME Covers(p, t, 0, n) PROVE n = 0
  BY <1>2 DEF Covers, IsCut
<1> QED
  BY <1>1, <1>2

\* One level more.
LEMMA CoversNext ==
  ASSUME NEW p, NEW t, NEW j \in Nat, NEW a \in Nat, NEW b \in Nat,
         Covers(p, t, j, a), Beside(p, t, j + 1, a, b)
  PROVE  Covers(p, t, j + 1, b)
<1>1. PICK c : IsCut(p, t, j, a, c)
  BY DEF Covers
<1>2. /\ c \in [0 .. j -> Nat] /\ c[0] = 0 /\ c[j] = a
      /\ \A k \in 1 .. j : Beside(p, t, k, c[k - 1], c[k])
  BY <1>1 DEF IsCut
<1> DEFINE d == [k \in 0 .. j + 1 |-> IF k = j + 1 THEN b ELSE c[k]]
<1>3. d \in [0 .. j + 1 -> Nat] /\ d[0] = 0 /\ d[j + 1] = b /\ d[j] = a
      /\ \A k \in 0 .. j : d[k] = c[k]
  BY <1>2
<1> HIDE DEF d
<1>4. ASSUME NEW k \in 1 .. j + 1 PROVE Beside(p, t, k, d[k - 1], d[k])
  <2>1. CASE k = j + 1
    <3>1. k - 1 = j
      BY <2>1
    <3> QED
      BY <1>3, <2>1, <3>1
  <2>2. CASE k # j + 1
    <3>1. k \in 1 .. j /\ k \in 0 .. j /\ k - 1 \in 0 .. j
      BY <2>2
    <3> QED
      BY <1>2, <1>3, <3>1
  <2> QED
    BY <2>1, <2>2
<1>5. IsCut(p, t, j + 1, b, d)
  BY <1>3, <1>4 DEF IsCut
<1> QED
  BY <1>5 DEF Covers

\* One level less.
LEMMA CoversLast ==
  ASSUME NEW p, NEW t, NEW j \in Nat, NEW b \in Nat, NEW c,
         IsCut(p, t, j + 1, b, c)
  PROVE  c[j] \in Nat /\ Covers(p, t, j, c[j]) /\ Beside(p, t, j + 1, c[j], b)
<1>1. /\ c \in [0 .. j + 1 -> Nat] /\ c[0] = 0 /\ c[j + 1] = b
      /\ \A k \in 1 .. j + 1 : Beside(p, t, k, c[k - 1], c[k])
  BY DEF IsCut
<1>2. c[j] \in Nat
  BY <1>1
<1>3. Beside(p, t, j + 1, c[j], b)
  <2>1. j + 1 \in 1 .. j + 1 /\ (j + 1) - 1 = j
    OBVIOUS
  <2> QED
    BY <1>1, <2>1
<1> DEFINE d == [k \in 0 .. j |-> c[k]]
<1>4. d \in [0 .. j -> Nat] /\ \A k \in 0 .. j : d[k] = c[k]
  BY <1>1
<1> HIDE DEF d
<1>5. ASSUME NEW k \in 1 .. j PROVE Beside(p, t, k, d[k - 1], d[k])
  <2>1. k \in 1 .. j + 1 /\ k \in 0 .. j /\ k - 1 \in 0 .. j
    OBVIOUS
  <2> QED
    BY <1>1, <1>4, <2>1
<1>6. d[0] = 0 /\ d[j] = c[j]
  BY <1>1, <1>4
<1>7. IsCut(p, t, j, c[j], d)
  BY <1>4, <1>5, <1>6 DEF IsCut
<1> QED
  BY <1>2, <1>3, <1>7 DEF Covers

\* What a cut gives of its first levels.
LEMMA CutPart ==
  ASSUME NEW p, NEW t, NEW m \in Nat, NEW j \in 0 .. m, NEW n, NEW c,
         IsCut(p, t, m, n, c)
  PROVE  c[j] \in Nat /\ Covers(p, t, j, c[j])
<1>1. /\ c \in [0 .. m -> Nat] /\ c[0] = 0
      /\ \A k \in 1 .. m : Beside(p, t, k, c[k - 1], c[k])
  BY DEF IsCut
<1> DEFINE d == [k \in 0 .. j |-> c[k]]
<1>2. d \in [0 .. j -> Nat] /\ \A k \in 0 .. j : d[k] = c[k]
  BY <1>1
<1> HIDE DEF d
<1>3. ASSUME NEW k \in 1 .. j PROVE Beside(p, t, k, d[k - 1], d[k])
  <2>1. k \in 1 .. m /\ k \in 0 .. j /\ k - 1 \in 0 .. j
    OBVIOUS
  <2> QED
    BY <1>1, <1>2, <2>1
<1>4. d[0] = 0 /\ d[j] = c[j] /\ c[j] \in Nat
  BY <1>1, <1>2
<1>5. IsCut(p, t, j, c[j], d)
  BY <1>2, <1>3, <1>4 DEF IsCut
<1> QED
  BY <1>4, <1>5 DEF Covers

\* The levels after a '*' can stand further on.
LEMMA CoversFurther ==
  ASSUME NEW p, NEW t, NEW j \in Nat, NEW a \in Nat, NEW b \in Nat, a <= b,
         Covers(p, t, j, a), Trailing(p, j), Plus # Star
  PROVE  Covers(p, t, j, b)
<1>1. PICK c : IsCut(p, t, j, a, c)
  BY DEF Covers
<1>2. /\ c \in [0 .. j -> Nat] /\ c[0] = 0 /\ c[j] = a
      /\ \A k \in 1 .. j : Beside(p, t, k, c[k - 1], c[k])
  BY <1>1 DEF IsCut
<1>3. PICK s \in 1 .. j : p[s] = Star /\ \A k \in s .. j : Wild(p, k)
  BY DEF Trailing
<1> DEFINE d == [k \in 0 .. j |-> IF k < s THEN c[k] ELSE c[k] + (b - a)]
<1>4. /\ d \in [0 .. j -> Nat] /\ d[0] = 0 /\ d[j] = b
      /\ \A k \in 0 .. j : d[k] = IF k < s THEN c[k] ELSE c[k] + (b - a)
  BY <1>2
<1> HIDE DEF d
<1>5. ASSUME NEW k \in 1 .. j PROVE Beside(p, t, k, d[k - 1], d[k])
  <2>1. k \in 0 .. j /\ k - 1 \in 0 .. j /\ c[k] \in Nat /\ c[k - 1] \in Nat
    BY <1>2
  <2>2. Beside(p, t, k, c[k - 1], c[k])
    BY <1>2
  <2>3. CASE k < s
    <3>1. d[k] = c[k] /\ d[k - 1] = c[k - 1]
      BY <1>4, <2>1, <2>3
    <3> QED
      BY <2>2, <3>1
  <2>4. CASE k = s
    <3>1. d[k] = c[k] + (b - a) /\ d[k - 1] = c[k - 1]
      BY <1>4, <2>1, <2>4
    <3>2. c[k] > c[k - 1]
      BY <1>3, <2>2, <2>4 DEF Beside
    <3>3. d[k] > d[k - 1]
      BY <2>1, <3>1, <3>2
    <3> QED
      BY <1>3, <2>4, <3>3 DEF Beside
  <2>5. CASE k > s
    <3>1. d[k] = c[k] + (b - a) /\ d[k - 1] = c[k - 1] + (b - a)
      BY <1>4, <2>1, <2>5
    <3>2. p[k] \in {Plus, Star}
      BY <1>3, <2>5 DEF Wild
    <3>3. CASE p[k] = Star
      <4>1. c[k] > c[k - 1]
        BY <2>2, <3>3 DEF Beside
      <4>2. d[k] > d[k - 1]
        BY <2>1, <3>1, <4>1
      <4> QED
        BY <3>3, <4>2 DEF Beside
    <3>4. CASE p[k] = Plus
      <4>1. c[k] = c[k - 1] + 1
        BY <2>2, <3>4 DEF Beside
      <4>2. d[k] = d[k - 1] + 1
        BY <2>1, <3>1, <4>1
      <4> QED
        BY <3>4, <4>2 DEF Beside
    <3> QED
      BY <3>2, <3>3, <3>4
  <2> QED
    BY <2>3, <2>4, <2>5
<1>6. IsCut(p, t, j, b, d)
  BY <1>4, <1>5 DEF IsCut
<1> QED
  BY <1>6 DEF Covers

\* Each level ends further on than the one before it, so none beyond the last.
LEMMA CutRises ==
  ASSUME NEW p, NEW t, NEW m \in Nat, NEW n, NEW c, IsCut(p, t, m, n, c)
  PROVE  /\ \A k \in 1 .. m : c[k - 1] < c[k]
         /\ \A k \in 0 .. m : c[k] <= n
<1>1. /\ c \in [0 .. m -> Nat] /\ c[m] = n
      /\ \A k \in 1 .. m : Beside(p, t, k, c[k - 1], c[k])
  BY DEF IsCut
<1>2. ASSUME NEW k \in 1 .. m PROVE c[k - 1] < c[k]
  <2>1. c[k] \in Nat /\ c[k - 1] \in Nat
    BY <1>1
  <2> QED
    BY <1>1, <2>1 DEF Beside
<1> DEFINE T == {e \in 0 .. m : c[m - e] <= n}
<1>3. 0 \in T
  <2>1. m - 0 = m /\ c[m] \in Nat
    BY <1>1
  <2> QED
    BY <1>1, <2>1
<1>4. ASSUME NEW e \in 0 .. m - 1, e \in T PROVE e + 1 \in T
  <2>1. m - e \in 1 .. m /\ m - (e + 1) = (m - e) - 1
    OBVIOUS
  <2>2. c[m - e] \in Nat /\ c[(m - e) - 1] \in Nat /\ n \in Nat
    BY <1>1, <2>1
  <2>3. c[m - (e + 1)] < c[m - e]
    BY <1>2, <2>1
  <2>4. e + 1 \in 0 .. m /\ c[m - e] <= n
    BY <1>4
  <2> QED
    BY <2>1, <2>2, <2>3, <2>4
<1>5. \A e \in 0 .. m : e \in T
  <2> HIDE DEF T
  <2> QED
    BY <1>3, <1>4, UpTo
<1>6. ASSUME NEW k \in 0 .. m PROVE c[k] <= n
  <2>1. m - k \in 0 .. m /\ m - (m - k) = k
    OBVIOUS
  <2> QED
    BY <1>5, <2>1
<1> QED
  BY <1>2, <1>6

\* The reference, for the first j levels of p and the first n of t.
LEMMA AlignedCovers ==
  ASSUME NEW S, NEW p \in Seq(S), NEW t \in Seq(S),
         NEW j \in 0 .. Len(p), NEW n \in 0 .. Len(t), j = Len(p) \/ Wild(p, j)
  PROVE  Aligned(SubSeq(p, 1, j), SubSeq(t, 1, n)) <=> Covers(p, t, j, n)
<1> DEFINE q == SubSeq(p, 1, j)
           u == SubSeq(t, 1, n)
<1>1. /\ Len(q) = j /\ \A k \in 1 .. j : q[k] = p[k]
      /\ Len(u) = n /\ \A k \in 1 .. n : u[k] = t[k]
  OBVIOUS
<1> HIDE DEF q, u
<1> DEFINE Row(k, a, b) ==
        IF q[k] = Star THEN b > a
        ELSE /\ b = a + 1
             /\ q[k] = Plus \/ Fits(q, k, u[b])
<1>2. ASSUME NEW k \in 1 .. j, NEW a \in Nat, NEW b \in 0 .. n
      PROVE  Row(k, a, b) <=> Beside(p, t, k, a, b)
  <2>1. q[k] = p[k]
    BY <1>1
  <2>2. CASE p[k] = Star
    BY <2>1, <2>2 DEF Beside
  <2>3. CASE p[k] = Plus
    BY <2>1, <2>3 DEF Beside
  <2>4. CASE ~Wild(p, k)
    <3>1. (k = j) <=> (k = Len(p))
      BY <2>4
    <3>2. Fits(q, k, u[b]) <=> Fits(p, k, u[b])
      BY <1>1, <2>1, <3>1 DEF Fits
    <3>3. b = a + 1 => u[b] = t[b]
      BY <1>1
    <3> QED
      BY <2>1, <3>2, <3>3 DEF Beside
  <2> QED
    BY <2>2, <2>3, <2>4 DEF Wild
<1>3. Aligned(q, u) <=>
        \E c \in [0 .. j -> 0 .. n] :
            /\ c[0] = 0 /\ c[j] = n
            /\ \A k \in 1 .. j : Row(k, c[k - 1], c[k])
  BY <1>1 DEF Aligned
<1> HIDE DEF Row
<1>4. ASSUME NEW c \in [0 .. j -> 0 .. n]
      PROVE  (\A k \in 1 .. j : Row(k, c[k - 1], c[k])) <=>
             (\A k \in 1 .. j : Beside(p, t, k, c[k - 1], c[k]))
  <2>1. \A k \in 1 .. j : c[k - 1] \in Nat /\ c[k] \in 0 .. n
    OBVIOUS
  <2> QED
    BY <1>2, <2>1
<1>5. ASSUME Aligned(q, u) PROVE Covers(p, t, j, n)
  <2>1. PICK c \in [0 .. j -> 0 .. n] :
            /\ c[0] = 0 /\ c[j] = n
            /\ \A k \in 1 .. j : Row(k, c[k - 1], c[k])
    BY <1>3, <1>5
  <2>2. c \in [0 .. j -> Nat]
    OBVIOUS
  <2> QED
    BY <1>4, <2>1, <2>2 DEF Covers, IsCut
<1>6. ASSUME Covers(p, t, j, n) PROVE Aligned(q, u)
  <2>1. PICK c : IsCut(p, t, j, n, c)
    BY <1>6 DEF Covers
  <2>2. /\ c \in [0 .. j -> Nat] /\ c[0] = 0 /\ c[j] = n
        /\ \A k \in 1 .. j : Beside(p, t, k, c[k - 1], c[k])
    BY <2>1 DEF IsCut
  <2>3. \A k \in 0 .. j : c[k] <= n
    <3>1. j \in Nat
      OBVIOUS
    <3> QED
      BY <2>1, <3>1, CutRises
  <2>4. c \in [0 .. j -> 0 .. n]
    BY <2>2, <2>3
  <2> QED
    BY <1>3, <1>4, <2>2, <2>4
<1> QED
  BY <1>5, <1>6 DEF q, u

LEMMA PendingCovers ==
  ASSUME NEW S, NEW p \in Seq(S), NEW t \in Seq(S),
         NEW j \in 1 .. Len(p), NEW n \in 0 .. Len(t)
  PROVE  Pending(p, j, SubSeq(t, 1, n)) <=> Trailing(p, j) /\ Covers(p, t, j, n)
<1>1. Trailing(p, j) => Wild(p, j)
  BY DEF Trailing
<1>2. Pending(p, j, SubSeq(t, 1, n)) <=>
        Trailing(p, j) /\ Aligned(SubSeq(p, 1, j), SubSeq(t, 1, n))
  BY DEF Pending, Trailing, Wild
<1>3. Wild(p, j) => (Aligned(SubSeq(p, 1, j), SubSeq(t, 1, n)) <=> Covers(p, t, j, n))
  BY AlignedCovers
<1> QED
  BY <1>1, <1>2, <1>3

LEMMA WholeCovers ==
  ASSUME NEW S, NEW p \in Seq(S), NEW t \in Seq(S)
  PROVE  /\ Aligned(p, t) <=> Covers(p, t, Len(p), Len(t))
         /\ \A j \in 1 .. Len(p) :
               Pending(p, j, t) <=> Trailing(p, j) /\ Covers(p, t, j, Len(t))
<1>1. SubSeq(p, 1, Len(p)) = p /\ SubSeq(t, 1, Len(t)) = t
  OBVIOUS
<1>2. Len(p) \in 0 .. Len(p) /\ Len(t) \in 0 .. Len(t)
  OBVIOUS
<1>3. Aligned(p, t) <=> Covers(p, t, Len(p), Len(t))
  BY <1>1, <1>2, AlignedCovers
<1> QED
  BY <1>1, <1>2, <1>3, PendingCovers

-----------------------------------------------------------------------------
(* What the loop of check_topic knows after the first e levels of t.       *)

\* The second of the two ways in which Agrees lets check_topic differ.
Excused(p, t) ==
    \E j \in 1 .. Len(p) - 1, a, b \in 1 .. Len(t) :
       /\ a < b /\ Fits(p, j + 1, t[a]) /\ Fits(p, j + 1, t[b])
       /\ Pending(p, j, SubSeq(t, 1, a - 1))

\* The j levels cover fewer levels of t only if the next one, which is looked
\* for, does not fit there.
Nearest(p, t, j, e, star) ==
    \A a \in Nat : Covers(p, t, j, a) =>
        \/ a >= e
        \/ star /\ j < Len(p) /\ ~Wild(p, j + 1) /\ ~Fits(p, j + 1, t[a + 1])

\* Unless a '*' leaves it open, each way to lay p beside t passes here.
Forced(p, t, j, e) ==
    \A c : IsCut(p, t, Len(p), Len(t), c) => c[j] = e

Loop(p, t, e, s) ==
    IF s.over
    THEN /\ s.star => /\ s.j = Len(p)
                      /\ Covers(p, t, Len(p), e) /\ Trailing(p, Len(p))
         /\ s.star \/ Excused(p, t) \/ ~Covers(p, t, Len(p), Len(t))
    ELSE /\ Covers(p, t, s.j, e)
         /\ s.star => Trailing(p, s.j)
         /\ Nearest(p, t, s.j, e, s.star)
         /\ s.star \/ Excused(p, t) \/ Forced(p, t, s.j, e)

\* What a cut passes is not before the place the loop is at.
LEMMA CutNotBefore ==
  ASSUME NEW p, Len(p) \in Nat, NEW t, NEW j \in 0 .. Len(p), NEW e, NEW star,
         Nearest(p, t, j, e, star),
         NEW n, NEW c, IsCut(p, t, Len(p), n, c)
  PROVE  c[j] \in Nat /\ c[j] >= e
<1>1. c[j] \in Nat /\ Covers(p, t, j, c[j])
  BY CutPart
<1>2. ASSUME j < Len(p), ~Wild(p, j + 1) PROVE Fits(p, j + 1, t[c[j] + 1])
  <2>1. j + 1 \in 1 .. Len(p) /\ (j + 1) - 1 = j
    BY <1>2
  <2>2. Beside(p, t, j + 1, c[j], c[j + 1])
    BY <2>1 DEF IsCut
  <2> QED
    BY <1>2, <2>2 DEF Beside, Wild
<1> QED
  BY <1>1, <1>2 DEF Nearest

\* One level of p is used for one of t.
LEMMA NearestNext ==
  ASSUME NEW p, NEW t, NEW j \in Nat, NEW e \in Nat, NEW star, NEW next,
         Nearest(p, t, j, e, star),
         Wild(p, j + 1) \/ Fits(p, j + 1, t[e + 1])
  PROVE  Nearest(p, t, j + 1, e + 1, next)
<1> SUFFICES ASSUME NEW b \in Nat, Covers(p, t, j + 1, b) PROVE b >= e + 1
  BY DEF Nearest
<1>1. PICK c : IsCut(p, t, j + 1, b, c)
  BY DEF Covers
<1>2. c[j] \in Nat /\ Covers(p, t, j, c[j]) /\ Beside(p, t, j + 1, c[j], b)
  BY <1>1, CoversLast
<1>3. c[j] < b
  BY <1>2 DEF Beside
<1>4. c[j] >= e
  <2>1. CASE Wild(p, j + 1)
    BY <1>2, <2>1 DEF Nearest
  <2>2. CASE ~Wild(p, j + 1)
    <3>1. b = c[j] + 1 /\ Fits(p, j + 1, t[b])
      BY <1>2, <2>2 DEF Beside, Wild
    <3> QED
      BY <1>2, <3>1 DEF Nearest
  <2> QED
    BY <2>1, <2>2
<1> QED
  BY <1>2, <1>3, <1>4

LEMMA LoopBegin ==
  ASSUME NEW p, NEW t
  PROVE  Loop(p, t, 0, Begin)
<1>1. Covers(p, t, 0, 0) /\ Nearest(p, t, 0, 0, FALSE)
  BY CoversNone DEF Nearest
<1>2. Forced(p, t, 0, 0)
  BY DEF Forced, IsCut
<1> QED
  BY <1>1, <1>2 DEF Loop, Begin

\* The five ways of a turn.
LEMMA TurnCases ==
  ASSUME NEW S, NEW p \in Seq(S), NEW level, NEW s \in States(p),
         NEW r, r = NextLevel(p, level, s)
  PROVE  /\ s.over \/ s.j = Len(p) =>
               r.over /\ r.j = s.j /\ (r.star <=> s.star)
         /\ ~s.over /\ s.j # Len(p) =>
               /\ p[s.j + 1] = Plus =>
                     ~r.over /\ r.j = s.j + 1 /\ (r.star <=> s.star)
               /\ p[s.j + 1] = Star /\ Plus # Star =>
                     ~r.over /\ r.j = s.j + 1 /\ r.star
               /\ ~Wild(p, s.j + 1) /\ Fits(p, s.j + 1, level) =>
                     ~r.over /\ r.j = s.j + 1 /\ ~r.star
               /\ ~Wild(p, s.j + 1) /\ ~Fits(p, s.j + 1, level) =>
                     (r.over <=> ~s.star) /\ r.j = s.j /\ (r.star <=> s.star)
<1>1. /\ s.j \in 0 .. Len(p) /\ s.star \in BOOLEAN /\ s.over \in BOOLEAN
      /\ s = [j |-> s.j, star |-> s.star, over |-> s.over]
  BY DEF States
<1>2. ASSUME NEW k, NEW b
      PROVE  /\ [s EXCEPT !.over = b].over = b
             /\ [s EXCEPT !.over = b].j = s.j
             /\ [s EXCEPT !.over = b].star = s.star
             /\ [s EXCEPT !.j = k].over = s.over
             /\ [s EXCEPT !.j = k].j = k
             /\ [s EXCEPT !.j = k].star = s.star
             /\ [s EXCEPT !.j = k, !.star = b].over = s.over
             /\ [s EXCEPT !.j = k, !.star = b].j = k
             /\ [s EXCEPT !.j = k, !.star = b].star = b
  BY <1>1
<1>3. CASE s.over \/ s.j = Len(p)
  <2>1. r = [s EXCEPT !.over = TRUE]
    BY <1>3, Zenon DEF NextLevel
  <2>2. r.over = TRUE /\ r.j = s.j /\ r.star = s.star
    BY <1>2, <2>1
  <2> QED
    BY <1>3, <2>2, Zenon
<1>4. CASE ~(s.over \/ s.j = Len(p))
  <2>1. ASSUME p[s.j + 1] = Plus
        PROVE  ~r.over /\ r.j = s.j + 1 /\ (r.star <=> s.star)
    <3>1. r = [s EXCEPT !.j = s.j + 1]
      BY <1>4, <2>1, Zenon DEF NextLevel
    <3>2. r.over = s.over /\ r.j = s.j + 1 /\ r.star = s.star
      BY <1>2, <3>1
    <3> QED
      BY <1>4, <3>2, Zenon
  <2>2. ASSUME p[s.j + 1] = Star, Plus # Star
        PROVE  ~r.over /\ r.j = s.j + 1 /\ r.star
    <3>1. r = [s EXCEPT !.j = s.j + 1, !.star = TRUE]
      BY <1>4, <2>2, Zenon DEF NextLevel
    <3>2. r.over = s.over /\ r.j = s.j + 1 /\ r.star = TRUE
      BY <1>2, <3>1
    <3> QED
      BY <1>4, <3>2, Zenon
  <2>3. ASSUME ~Wild(p, s.j + 1), Fits(p, s.j + 1, level)
        PROVE  ~r.over /\ r.j = s.j + 1 /\ ~r.star
    <3>1. r = [s EXCEPT !.j = s.j + 1, !.star = FALSE]
      BY <1>4, <2>3, Zenon DEF NextLevel, Wild
    <3>2. r.over = s.over /\ r.j = s.j + 1 /\ r.star = FALSE
      BY <1>2, <3>1
    <3> QED
      BY <1>4, <3>2, Zenon
  <2>4. ASSUME ~Wild(p, s.j + 1), ~Fits(p, s.j + 1, level)
        PROVE  (r.over <=> ~s.star) /\ r.j = s.j /\ (r.star <=> s.star)
    <3> DEFINE b == ~s.star
    <3>1. r = [s EXCEPT !.over = b]
      BY <1>4, <2>4, Zenon DEF NextLevel, Wild
    <3> HIDE DEF b
    <3>2. r.over = b /\ r.j = s.j /\ r.star = s.star
      BY <1>2, <3>1
    <3> QED
      BY <3>2, Zenon DEF b
  <2> QED
    BY <1>4, <2>1, <2>2, <2>3, <2>4
<1> QED
  BY <1>3, <1>4

LEMMA TrailingNext ==
  ASSUME NEW p, NEW j \in Nat, Wild(p, j + 1),
         Trailing(p, j) \/ p[j + 1] = Star
  PROVE  Trailing(p, j + 1)
<1>1. CASE p[j + 1] = Star
  <2>1. j + 1 \in 1 .. j + 1 /\ \A k \in j + 1 .. j + 1 : k = j + 1
    OBVIOUS
  <2> QED
    BY <1>1, <2>1 DEF Trailing, Wild
<1>2. CASE Trailing(p, j)
  <2>1. PICK s \in 1 .. j : p[s] = Star /\ \A k \in s .. j : Wild(p, k)
    BY <1>2 DEF Trailing
  <2>2. s \in 1 .. j + 1 /\ \A k \in s .. j + 1 : k \in s .. j \/ k = j + 1
    OBVIOUS
  <2> QED
    BY <2>1, <2>2 DEF Trailing
<1> QED
  BY <1>1, <1>2

\* Where all cuts pass, they pass one level further on as well.
LEMMA ForcedNext ==
  ASSUME NEW p, Len(p) \in Nat, NEW t, NEW j \in 0 .. Len(p) - 1, NEW e,
         Forced(p, t, j, e), p[j + 1] # Star
  PROVE  Forced(p, t, j + 1, e + 1)
<1> SUFFICES ASSUME NEW c, IsCut(p, t, Len(p), Len(t), c) PROVE c[j + 1] = e + 1
  BY DEF Forced
<1>1. j + 1 \in 1 .. Len(p) /\ (j + 1) - 1 = j
  OBVIOUS
<1>2. Beside(p, t, j + 1, c[j], c[j + 1]) /\ c[j] = e
  BY <1>1 DEF IsCut, Forced
<1> QED
  BY <1>2 DEF Beside

\* The next level is looked for and found, and a cut passes further on.
LEMMA FoundEarly ==
  ASSUME NEW S, NEW p \in Seq(S), NEW t \in Seq(S),
         NEW e \in 0 .. Len(t) - 1, NEW j \in 0 .. Len(p) - 1,
         Covers(p, t, j, e), Trailing(p, j), Nearest(p, t, j, e, TRUE),
         ~Wild(p, j + 1), Fits(p, j + 1, t[e + 1])
  PROVE  Excused(p, t) \/ Forced(p, t, j + 1, e + 1)
<1> SUFFICES ASSUME NEW c, IsCut(p, t, Len(p), Len(t), c), c[j + 1] # e + 1
             PROVE  Excused(p, t)
  BY DEF Forced
<1>1. j + 1 \in 1 .. Len(p) /\ (j + 1) - 1 = j /\ Len(p) \in Nat /\ Len(t) \in Nat
      /\ e \in 0 .. Len(t) /\ j \in 0 .. Len(p) /\ j + 1 \in 0 .. Len(p)
  OBVIOUS
<1>2. c[j] \in Nat /\ c[j] >= e
  BY <1>1, CutNotBefore
<1>3. c[j + 1] = c[j] + 1 /\ Fits(p, j + 1, t[c[j + 1]])
  BY <1>1 DEF IsCut, Beside, Wild
<1>4. c[j + 1] <= Len(t)
  BY <1>1, CutRises
<1>5. j \in 1 .. Len(p) - 1 /\ j \in 1 .. Len(p)
  BY DEF Trailing
<1>6. Pending(p, j, SubSeq(t, 1, e))
  BY <1>1, <1>5, PendingCovers
<1>7. e + 1 \in 1 .. Len(t) /\ c[j + 1] \in 1 .. Len(t) /\ e + 1 < c[j + 1]
      /\ (e + 1) - 1 = e
  BY <1>1, <1>2, <1>3, <1>4
<1> QED
  BY <1>3, <1>5, <1>6, <1>7 DEF Excused

\* One turn of the loop.
LEMMA LoopTurn ==
  ASSUME NEW S, NEW p \in Seq(S), NEW t \in Seq(S), Plus # Star,
         NEW e \in 0 .. Len(t) - 1, NEW s \in States(p), Loop(p, t, e, s),
         NEW r, r = NextLevel(p, t[e + 1], s)
  PROVE  Loop(p, t, e + 1, r)
<1>1. /\ Len(p) \in Nat /\ Len(t) \in Nat /\ e \in Nat /\ e + 1 \in Nat
      /\ s.j \in 0 .. Len(p) /\ s.j \in Nat
  BY DEF States
<1>2. CASE s.over
  <2>1. r.over /\ r.j = s.j /\ (r.star <=> s.star)
    BY <1>2, TurnCases
  <2>2. s.star => Covers(p, t, Len(p), e + 1)
    <3>1. s.star => Covers(p, t, Len(p), e) /\ Trailing(p, Len(p))
      BY <1>2 DEF Loop
    <3> QED
      BY <1>1, <3>1, CoversFurther
  <2> QED
    BY <1>2, <2>1, <2>2 DEF Loop
<1>3. CASE ~s.over /\ s.j = Len(p)
  <2>1. r.over /\ r.j = s.j /\ (r.star <=> s.star)
    BY <1>3, TurnCases
  <2>2. /\ Covers(p, t, Len(p), e)
        /\ s.star => Trailing(p, Len(p))
        /\ s.star \/ Excused(p, t) \/ Forced(p, t, Len(p), e)
    BY <1>3 DEF Loop
  <2>3. s.star => Covers(p, t, Len(p), e + 1)
    BY <1>1, <2>2, CoversFurther
  <2>4. Forced(p, t, Len(p), e) => ~Covers(p, t, Len(p), Len(t))
    BY DEF Forced, Covers, IsCut
  <2> QED
    BY <1>3, <2>1, <2>2, <2>3, <2>4 DEF Loop
<1>4. CASE ~s.over /\ s.j # Len(p)
  <2>1. s.j \in 0 .. Len(p) - 1
    BY <1>1, <1>4
  <2>2. /\ Covers(p, t, s.j, e)
        /\ s.star => Trailing(p, s.j)
        /\ Nearest(p, t, s.j, e, s.star)
        /\ s.star \/ Excused(p, t) \/ Forced(p, t, s.j, e)
    BY <1>4 DEF Loop
  <2>3. CASE p[s.j + 1] = Plus
    <3>1. ~r.over /\ r.j = s.j + 1 /\ (r.star <=> s.star)
      BY <1>4, <2>3, TurnCases
    <3>2. Wild(p, s.j + 1) /\ p[s.j + 1] # Star
      BY <2>3 DEF Wild
    <3>3. Covers(p, t, s.j + 1, e + 1)
      <4>1. Beside(p, t, s.j + 1, e, e + 1)
        BY <2>3, <3>2 DEF Beside
      <4> QED
        BY <1>1, <2>2, <4>1, CoversNext
    <3>4. s.star => Trailing(p, s.j + 1)
      BY <1>1, <2>2, <3>2, TrailingNext
    <3>5. Nearest(p, t, s.j + 1, e + 1, r.star)
      BY <1>1, <2>2, <3>2, NearestNext
    <3>6. Forced(p, t, s.j, e) => Forced(p, t, s.j + 1, e + 1)
      BY <1>1, <2>1, <3>2, ForcedNext
    <3> QED
      BY <2>2, <3>1, <3>3, <3>4, <3>5, <3>6 DEF Loop
  <2>4. CASE p[s.j + 1] = Star
    <3>1. ~r.over /\ r.j = s.j + 1 /\ r.star
      BY <1>4, <2>4, TurnCases
    <3>2. Wild(p, s.j + 1)
      BY <2>4 DEF Wild
    <3>3. Covers(p, t, s.j + 1, e + 1)
      <4>1. Beside(p, t, s.j + 1, e, e + 1)
        BY <1>1, <2>4 DEF Beside
      <4> QED
        BY <1>1, <2>2, <4>1, CoversNext
    <3>4. Trailing(p, s.j + 1)
      BY <1>1, <2>4, <3>2, TrailingNext
    <3>5. Nearest(p, t, s.j + 1, e + 1, r.star)
      BY <1>1, <2>2, <3>2, NearestNext
    <3> QED
      BY <3>1, <3>3, <3>4, <3>5 DEF Loop
  <2>5. CASE ~Wild(p, s.j + 1) /\ Fits(p, s.j + 1, t[e + 1])
    <3>1. ~r.over /\ r.j = s.j + 1 /\ ~r.star
      BY <1>4, <2>5, TurnCases
    <3>2. Covers(p, t, s.j + 1, e + 1)
      <4>1. Beside(p, t, s.j + 1, e, e + 1)
        BY <2>5 DEF Beside, Wild
      <4> QED
        BY <1>1, <2>2, <4>1, CoversNext
    <3>3. Nearest(p, t, s.j + 1, e + 1, r.star)
      BY <1>1, <2>2, <2>5, NearestNext
    <3>4. Excused(p, t) \/ Forced(p, t, s.j + 1, e + 1)
      <4>1. CASE s.star
        <5>1. Nearest(p, t, s.j, e, TRUE) /\ Trailing(p, s.j)
          BY <2>2, <4>1 DEF Nearest
        <5> QED
          BY <2>1, <2>2, <2>5, <5>1, FoundEarly
      <4>2. CASE ~s.star
        <5>1. p[s.j + 1] # Star
          BY <2>5 DEF Wild
        <5>2. Forced(p, t, s.j, e) => Forced(p, t, s.j + 1, e + 1)
          BY <1>1, <2>1, <5>1, ForcedNext
        <5> QED
          BY <2>2, <4>2, <5>2
      <4> QED
        BY <4>1, <4>2
    <3> QED
      BY <3>1, <3>2, <3>3, <3>4 DEF Loop
  <2>6. CASE ~Wild(p, s.j + 1) /\ ~Fits(p, s.j + 1, t[e + 1])
    <3>1. (r.over <=> ~s.star) /\ r.j = s.j /\ (r.star <=> s.star)
      BY <1>4, <2>6, TurnCases
    <3>2. CASE s.star
      <4>1. Trailing(p, s.j)
        BY <2>2, <3>2
      <4>2. Covers(p, t, s.j, e + 1)
        BY <1>1, <2>2, <4>1, CoversFurther
      <4>3. Nearest(p, t, s.j, e + 1, r.star)
        <5> SUFFICES ASSUME NEW a \in Nat, Covers(p, t, s.j, a)
                     PROVE  \/ a >= e + 1
                            \/ /\ r.star /\ s.j < Len(p)
                               /\ ~Wild(p, s.j + 1) /\ ~Fits(p, s.j + 1, t[a + 1])
          BY DEF Nearest
        <5>1. \/ a >= e
              \/ s.j < Len(p) /\ ~Wild(p, s.j + 1) /\ ~Fits(p, s.j + 1, t[a + 1])
          BY <2>2 DEF Nearest
        <5>2. s.j < Len(p)
          BY <1>1, <2>1
        <5>3. a >= e => a >= e + 1 \/ a = e
          BY <1>1
        <5> QED
          BY <2>6, <3>1, <3>2, <5>1, <5>2, <5>3
      <4> QED
        BY <3>1, <3>2, <4>1, <4>2, <4>3 DEF Loop
    <3>3. CASE ~s.star
      <4>1. Forced(p, t, s.j, e) => ~Covers(p, t, Len(p), Len(t))
        <5> SUFFICES ASSUME NEW c, IsCut(p, t, Len(p), Len(t), c), c[s.j] = e
                     PROVE  FALSE
          BY DEF Forced, Covers
        <5>1. s.j + 1 \in 1 .. Len(p) /\ (s.j + 1) - 1 = s.j
          BY <1>1, <2>1
        <5>2. Beside(p, t, s.j + 1, e, c[s.j + 1])
          BY <5>1 DEF IsCut
        <5> QED
          BY <2>6, <5>2 DEF Beside, Wild
      <4> QED
        BY <2>2, <3>1, <3>3, <4>1 DEF Loop
    <3> QED
      BY <3>2, <3>3
  <2> QED
    BY <2>3, <2>4, <2>5, <2>6 DEF Wild
<1> QED
  BY <1>2, <1>3, <1>4

(***************************************************************************)
(* check_topic gives what a subscription means, but in the two ways that   *)
(* Agrees names, for every subscription and every topic.                   *)
(***************************************************************************)
THEOREM AgreesTheorem ==
  ASSUME NEW p \in Seq(Levels \cup {Plus, Star}), NEW t \in Seq(Levels)
  PROVE  Agrees(p, t)
<1> DEFINE S == Levels \cup {Plus, Star}
           n == Len(t)
<1>1. t \in Seq(S) /\ n \in Nat /\ Len(p) \in Nat
  <2>1. t = [k \in 1 .. Len(t) |-> t[k]] /\ Len(t) \in Nat
    OBVIOUS
  <2>2. \A k \in 1 .. Len(t) : t[k] \in S
    OBVIOUS
  <2> QED
    BY <2>1, <2>2
<1>2. Plus # Star
  BY LevelsAssumption
<1>3. PICK f \in [0 .. n -> States(p)] :
        /\ f[0] = Begin
        /\ \A e \in 1 .. n : f[e] = NextLevel(p, t[e], f[e - 1])
        /\ Matches(p, t) <=> (~f[n].over /\ f[n].j = Len(p)) \/ f[n].star
  BY <1>1, MatchesTurns
<1>4. Loop(p, t, n, f[n])
  <2> DEFINE T == {e \in 0 .. n : Loop(p, t, e, f[e])}
  <2>1. 0 \in T
    BY <1>1, <1>3, LoopBegin
  <2>2. ASSUME NEW e \in 0 .. n - 1, e \in T PROVE e + 1 \in T
    <3>1. e + 1 \in 1 .. n /\ (e + 1) - 1 = e /\ e \in 0 .. n /\ e + 1 \in 0 .. n
      BY <1>1
    <3>2. f[e + 1] = NextLevel(p, t[e + 1], f[e]) /\ f[e] \in States(p)
      BY <1>3, <3>1
    <3>3. Loop(p, t, e, f[e])
      BY <2>2
    <3>4. Loop(p, t, e + 1, f[e + 1])
      BY <1>1, <1>2, <3>2, <3>3, LoopTurn
    <3> QED
      BY <3>1, <3>4
  <2>3. \A e \in 0 .. n : e \in T
    <3> HIDE DEF T
    <3> QED
      BY <1>1, <2>1, <2>2, UpTo
  <2> QED
    BY <1>1, <2>3
<1>5. PICK s \in States(p) : s = f[n]
  BY <1>1, <1>3
<1>6. /\ Loop(p, t, n, s)
      /\ Matches(p, t) <=> (~s.over /\ s.j = Len(p)) \/ s.star
      /\ s.j \in 0 .. Len(p)
  BY <1>3, <1>4, <1>5 DEF States
<1>7. /\ Aligned(p, t) <=> Covers(p, t, Len(p), n)
      /\ \A j \in 1 .. Len(p) :
            Pending(p, j, t) <=> Trailing(p, j) /\ Covers(p, t, j, n)
  BY <1>1, WholeCovers
<1>8. ASSUME Matches(p, t), ~Aligned(p, t)
      PROVE  \E j \in 1 .. Len(p) - 1 :
                /\ Pending(p, j, t)
                /\ \A a \in 1 .. Len(t) :
                      Fits(p, j + 1, t[a]) => ~Pending(p, j, SubSeq(t, 1, a - 1))
  <2>1. ~s.over /\ s.star /\ s.j # Len(p)
    BY <1>6, <1>7, <1>8 DEF Loop
  <2>2. Covers(p, t, s.j, n) /\ Trailing(p, s.j) /\ Nearest(p, t, s.j, n, s.star)
    BY <1>6, <2>1 DEF Loop
  <2>3. s.j \in 1 .. Len(p) - 1 /\ s.j \in 1 .. Len(p)
    BY <1>1, <1>6, <2>1, <2>2 DEF Trailing
  <2>4. ASSUME NEW a \in 1 .. n, Fits(p, s.j + 1, t[a])
        PROVE  ~Pending(p, s.j, SubSeq(t, 1, a - 1))
    <3>1. a - 1 \in 0 .. Len(t) /\ a - 1 \in Nat /\ ~(a - 1 >= n) /\ (a - 1) + 1 = a
      BY <1>1
    <3>2. ~Covers(p, t, s.j, a - 1)
      BY <2>2, <2>4, <3>1 DEF Nearest
    <3> QED
      BY <1>1, <2>3, <3>1, <3>2, PendingCovers
  <2>5. Pending(p, s.j, t)
    BY <1>7, <2>2, <2>3
  <2> QED
    BY <2>3, <2>4, <2>5
<1>9. ASSUME Aligned(p, t), ~Matches(p, t) PROVE Excused(p, t)
  <2>1. ~s.star /\ (s.over \/ s.j # Len(p))
    BY <1>6, <1>9
  <2>2. CASE s.over
    BY <1>6, <1>7, <1>9, <2>1, <2>2 DEF Loop
  <2>3. CASE ~s.over
    <3>1. Excused(p, t) \/ Forced(p, t, s.j, n)
      BY <1>6, <2>1, <2>3 DEF Loop
    <3>2. ASSUME Forced(p, t, s.j, n) PROVE FALSE
      <4>1. PICK c : IsCut(p, t, Len(p), n, c)
        BY <1>7, <1>9 DEF Covers
      <4>2. c[s.j] = n
        BY <3>2, <4>1 DEF Forced
      <4>3. s.j + 1 \in 1 .. Len(p) /\ s.j + 1 \in 0 .. Len(p) /\ (s.j + 1) - 1 = s.j
        BY <1>1, <1>6, <2>1, <2>3
      <4>4. c[s.j] < c[s.j + 1] /\ c[s.j + 1] <= n
        BY <1>1, <4>1, <4>3, CutRises
      <4>5. c[s.j + 1] \in Nat
        BY <4>1, <4>3 DEF IsCut
      <4> QED
        BY <1>1, <4>2, <4>4, <4>5
    <3> QED
      BY <3>1, <3>2
  <2> QED
    BY <2>2, <2>3
<1> QED
  BY <1>8, <1>9 DEF Agrees, Excused

(***************************************************************************)
(* The invariant of Wire: what the subscriber asked for is matched with    *)
(* what is published as it means, with any subscriptions and topics.       *)
(***************************************************************************)
THEOREM MatchTheorem == WireSpec => []MatchRight
<1>1. WireInit => subscribed \in Patterns /\ topic \in Topics
  BY DEF WireInit
<1>2. subscribed \in Patterns /\ topic \in Topics /\ [WireNext]_wire =>
        (subscribed \in Patterns /\ topic \in Topics)'
  BY DEF WireNext, wire, Send, Arrive, ReadLength, ReadBody
<1>3. subscribed \in Patterns /\ topic \in Topics => MatchRight
  BY LevelsAssumption, AgreesTheorem DEF MatchRight
<1> QED
  BY <1>1, <1>2, <1>3, PTL DEF WireSpec
=============================================================================
