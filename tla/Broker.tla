------------------------------ MODULE Broker ------------------------------
(***************************************************************************)
(* server.cpp and the side of subscriber.cpp that the server sees: the     *)
(* poll loop with the round it is in, the poll array that it changes while *)
(* it walks it, connections that end in order or by a reset, and the       *)
(* tables of names and subscriptions.                                      *)
(***************************************************************************)
EXTENDS TopicMatch, FiniteSets

CONSTANTS
    Ids,            \* names of clients
    NoId,           \* none of them
    Wanted,         \* the subscriptions that clients ask for
    Sent,           \* the topics that datagrams have
    MaxConnects,    \* bounds on what happens outside the server
    MaxRequests,
    MaxDatagrams

ASSUME IdsAssumption == IsFiniteSet(Ids)

Requests == [type : {0, 1}, topic : Wanted]

\* Descriptors: of the console, for datagrams, for new connections, and of
\* connections, of which no more than one of each client is kept.
stdinfd == 0
sockfd == 3
listenfd == 4
Fds == 5 .. 4 + Cardinality(Ids)

VARIABLES
    up,                 \* "on", "exit", or "killed" by SIGPIPE
    poll_fds,           \* the poll array, from index 0
    num_clients,        \* how much of it is in use
    i,                  \* where the round is; at num_clients it is over
    id_client,          \* descriptor of each name, 0 for none
    topic_subscribers,  \* list of subscriptions of each name
    stdin, udp,         \* whether "exit" was typed; datagrams to be read
    backlog,            \* names of the connections to be accepted
    named,              \* whether the first of them has sent its name
    \* by descriptor, what the connection has and who is there:
    owner, inq, out,
    end,                \* "none", "open", "fin", "rst" or, error read, "eof"
    \* how much happened so far, for the bounds:
    connects, datagrams, requests

server == <<up, poll_fds, num_clients, i, id_client, topic_subscribers>>
link == <<owner, inq, out, end>>
world == <<stdin, udp, backlog, named>>
history == <<connects, datagrams, requests>>
vars == <<server, link, world, history>>

Slot(fd) == [fd |-> fd, revents |-> FALSE]
Used == 3 .. num_clients - 1

Init ==
    /\ up = "on"
    /\ poll_fds = [j \in 0 .. 2 + Cardinality(Ids) |->
                      Slot(CASE j = 1 -> sockfd [] j = 2 -> listenfd
                             [] OTHER -> stdinfd)]
    /\ num_clients = 3 /\ i = 3
    /\ id_client = [k \in Ids |-> 0]
    /\ topic_subscribers = [k \in Ids |-> <<>>]
    /\ stdin = FALSE /\ udp = <<>> /\ backlog = <<>> /\ named = FALSE
    /\ owner = [f \in Fds |-> NoId]
    /\ inq = [f \in Fds |-> <<>>] /\ out = [f \in Fds |-> <<>>]
    /\ end = [f \in Fds |-> "none"]
    /\ connects = 0 /\ datagrams = 0 /\ requests = 0

-----------------------------------------------------------------------------
(* Clients, senders of datagrams and the console.                          *)

Connect(k) ==
    /\ connects < MaxConnects
    /\ backlog' = Append(backlog, k)
    /\ connects' = connects + 1
    /\ UNCHANGED <<server, link, stdin, udp, named, datagrams, requests>>

\* Lines 171-176; when the name of a later one comes makes no difference.
SendId ==
    /\ backlog # <<>> /\ ~named
    /\ named' = TRUE
    /\ UNCHANGED <<server, link, stdin, udp, backlog, history>>

\* The commands subscribe and unsubscribe.
Ask(f, r) ==
    /\ end[f] = "open" /\ requests < MaxRequests
    /\ inq' = [inq EXCEPT ![f] = Append(@, r)]
    /\ requests' = requests + 1
    /\ UNCHANGED <<server, owner, out, end, world, connects, datagrams>>

Read(f) ==
    /\ out[f] # <<>>
    /\ out' = [out EXCEPT ![f] = Tail(@)]
    /\ UNCHANGED <<server, owner, inq, end, world, history>>

\* The command exit, which stdin offers before the socket (lines 67 and 87):
\* closing a socket with messages unread resets the connection.
Leave(f) ==
    /\ end[f] = "open"
    /\ end' = [end EXCEPT ![f] = IF out[f] = <<>> THEN "fin" ELSE "rst"]
    /\ out' = [out EXCEPT ![f] = <<>>]
    /\ UNCHANGED <<server, owner, inq, world, history>>

Datagram(t) ==
    /\ datagrams < MaxDatagrams
    /\ udp' = Append(udp, t)
    /\ datagrams' = datagrams + 1
    /\ UNCHANGED <<server, link, stdin, backlog, named, connects, requests>>

\* A line that is a start of "exit"; the empty one is.  Others do nothing.
Console ==
    /\ ~stdin
    /\ stdin' = TRUE
    /\ UNCHANGED <<server, link, udp, backlog, named, history>>

-----------------------------------------------------------------------------
(* The server.                                                             *)

Readable(fd) ==
    CASE fd = stdinfd -> stdin
      [] fd = sockfd -> udp # <<>>
      [] fd = listenfd -> backlog # <<>>
      [] OTHER -> inq[fd] # <<>> \/ end[fd] \in {"fin", "rst", "eof"}

\* A slip the call of poll could have: the last client is not watched.
BadWatched == 0 .. num_clients - 2
Watched == 0 .. num_clients - 1

\* poll waits until something is to be read, and starts a round.
Poll ==
    /\ up = "on"
    /\ \A j \in i .. num_clients - 1 : ~poll_fds[j].revents
    /\ \E j \in Watched : Readable(poll_fds[j].fd)
    /\ poll_fds' = [j \in DOMAIN poll_fds |->
                       IF j \in Watched
                       THEN [poll_fds[j] EXCEPT !.revents = Readable(poll_fds[j].fd)]
                       ELSE poll_fds[j]]
    /\ i' = 0
    /\ UNCHANGED <<up, num_clients, id_client, topic_subscribers, link, world,
                   history>>

\* The round comes to entry j, which has something to be read.
Turn(j) ==
    /\ up = "on"
    /\ j \in i .. num_clients - 1
    /\ poll_fds[j].revents
    /\ \A k \in i .. j - 1 : ~poll_fds[k].revents
    /\ i' = j + 1

\* A slip run_multi_server could have: revents of a new entry is not cleared.
BadNewEntry(f) == [poll_fds[num_clients] EXCEPT !.fd = f]
NewEntry(f) == Slot(f)

\* The server waits for the name of the connection that it takes.
Accept(j) ==
    LET k == Head(backlog)
    IN  /\ Turn(j) /\ poll_fds[j].fd = listenfd
        /\ backlog # <<>> /\ named
        /\ backlog' = Tail(backlog) /\ named' = FALSE
        /\ \/ /\ id_client[k] # 0
              /\ UNCHANGED <<poll_fds, num_clients, id_client, link>>
           \/ /\ id_client[k] = 0
              /\ \E f \in Fds :
                    /\ end[f] = "none"
                    /\ \A g \in Fds : g < f => end[g] # "none"
                    /\ id_client' = [id_client EXCEPT ![k] = f]
                    /\ poll_fds' = [poll_fds EXCEPT ![num_clients] = NewEntry(f)]
                    /\ num_clients' = num_clients + 1
                    /\ owner' = [owner EXCEPT ![f] = k]
                    /\ end' = [end EXCEPT ![f] = "open"]
                    /\ UNCHANGED <<inq, out>>
        /\ UNCHANGED <<up, topic_subscribers, stdin, udp, history>>

\* The server closes everything and returns.
Stdin(j) ==
    /\ Turn(j) /\ poll_fds[j].fd = stdinfd /\ stdin
    /\ stdin' = FALSE
    /\ up' = "exit"
    /\ UNCHANGED <<poll_fds, num_clients, id_client, topic_subscribers, link,
                   udp, backlog, named, history>>

\* The name whose connection has descriptor f.
KeyOf(f) == CHOOSE k \in Ids : id_client[k] = f

\* A slip the loop at 203 could have: it starts at the second client.
BadRecipients(t) ==
    {j \in Used \ {3} :
        CheckTopic(t, topic_subscribers[KeyOf(poll_fds[j].fd)])}

\* The entries the topic is sent to.
Recipients(t) ==
    {j \in Used : CheckTopic(t, topic_subscribers[KeyOf(poll_fds[j].fd)])}

\* Messages are sent to the recipients in turn, in two parts.  The first part
\* makes a client that has closed answer by a reset, and if it comes before
\* the second, or came before, SIGPIPE ends the server.
Publish(j) ==
    LET t == Head(udp)
        EndAt(n) == end[poll_fds[n].fd]
    IN  /\ Turn(j) /\ poll_fds[j].fd = sockfd /\ udp # <<>>
        /\ udp' = Tail(udp)
        /\ \E n \in Recipients(t) \cup {num_clients} :
              LET to == {poll_fds[m].fd : m \in {m \in Recipients(t) : m < n}}
              IN  /\ \A f \in to : end[f] \in {"open", "fin"}
                  /\ n # num_clients => EndAt(n) # "open"
                  /\ up' = IF n = num_clients THEN up ELSE "killed"
                  /\ out' = [f \in Fds |-> IF f \in to /\ end[f] = "open"
                                           THEN Append(out[f], t) ELSE out[f]]
                  /\ end' = [f \in Fds |-> IF f \in to /\ end[f] = "fin"
                                           THEN "rst" ELSE end[f]]
        /\ UNCHANGED <<poll_fds, num_clients, id_client, topic_subscribers,
                       owner, inq, stdin, backlog, named, history>>

\* vector::erase of the first one that std::find finds.
Erase(s, p) ==
    IF \A n \in 1 .. Len(s) : s[n] # p THEN s
    ELSE LET n == CHOOSE n \in 1 .. Len(s) :
                     s[n] = p /\ \A m \in 1 .. n - 1 : s[m] # p
         IN  SubSeq(s, 1, n - 1) \o SubSeq(s, n + 1, Len(s))

Apply(r, f) ==
    topic_subscribers' = [topic_subscribers EXCEPT ![KeyOf(f)] =
        IF r.type = 1 THEN Append(@, r.topic) ELSE Erase(@, r.topic)]

Request(j) ==
    LET f == poll_fds[j].fd
    IN  /\ Turn(j) /\ f \in Fds /\ inq[f] # <<>>
        /\ inq' = [inq EXCEPT ![f] = Tail(@)]
        /\ Apply(Head(inq[f]), f)
        /\ UNCHANGED <<up, poll_fds, num_clients, id_client, owner, out, end,
                       world, history>>

\* recv gives -1, and what received_pkt still holds is taken for a request.
Reset(j) ==
    LET f == poll_fds[j].fd
    IN  /\ Turn(j) /\ f \in Fds /\ inq[f] = <<>> /\ end[f] = "rst"
        /\ end' = [end EXCEPT ![f] = "eof"]
        /\ \E r \in Requests : Apply(r, f)
        /\ UNCHANGED <<up, poll_fds, num_clients, id_client, owner, inq, out,
                       world, history>>

\* A slip it could have: one entry too few is moved.
BadShift(j) == [k \in DOMAIN poll_fds |->
    IF k \in j .. num_clients - 3 THEN poll_fds[k + 1] ELSE poll_fds[k]]
\* The entries after j move down; the last one's old place keeps its contents.
Shift(j) == [k \in DOMAIN poll_fds |->
    IF k \in j .. num_clients - 2 THEN poll_fds[k + 1] ELSE poll_fds[k]]

\* recv gives 0.  The entry that moved to j has its turn in the next round.
Close(j) ==
    LET f == poll_fds[j].fd
    IN  /\ Turn(j) /\ f \in Fds /\ inq[f] = <<>> /\ end[f] \in {"fin", "eof"}
        /\ end' = [end EXCEPT ![f] = "none"]
        /\ owner' = [owner EXCEPT ![f] = NoId]
        /\ id_client' = [id_client EXCEPT ![KeyOf(f)] = 0]
        /\ poll_fds' = Shift(j)
        /\ num_clients' = num_clients - 1
        /\ UNCHANGED <<up, topic_subscribers, inq, out, world, history>>

Serve ==
    \/ Poll
    \/ \E j \in DOMAIN poll_fds :
          \/ Accept(j) \/ Stdin(j) \/ Publish(j)
          \/ Request(j) \/ Reset(j) \/ Close(j)

\* What happens outside is followed for as long as the server runs.
World ==
    /\ up = "on"
    /\ \/ \E k \in Ids : Connect(k)
       \/ SendId
       \/ \E f \in Fds : Read(f) \/ Leave(f) \/ \E r \in Requests : Ask(f, r)
       \/ \E t \in Sent : Datagram(t)
       \/ Console

Next == Serve \/ World

Spec == Init /\ [][Next]_vars

\* The server runs on, and who connects sends the name.
FairSpec ==
    /\ Spec
    /\ WF_vars(Serve)
    /\ WF_vars(up = "on" /\ SendId)

-----------------------------------------------------------------------------
(* Properties.                                                             *)

TypeOK ==
    /\ up \in {"on", "exit", "killed"}
    /\ num_clients \in 3 .. 3 + Cardinality(Ids)
    /\ i \in 0 .. 3 + Cardinality(Ids)
    /\ poll_fds \in [0 .. 2 + Cardinality(Ids) ->
                        [fd : {stdinfd, sockfd, listenfd} \cup Fds,
                         revents : BOOLEAN]]
    /\ id_client \in [Ids -> {0} \cup Fds]
    /\ topic_subscribers \in [Ids -> Seq(Wanted)]
    /\ owner \in [Fds -> Ids \cup {NoId}]
    /\ inq \in [Fds -> Seq(Requests)]
    /\ out \in [Fds -> Seq(Sent)]
    /\ end \in [Fds -> {"none", "open", "fin", "rst", "eof"}]
    /\ stdin \in BOOLEAN /\ udp \in Seq(Sent)
    /\ backlog \in Seq(Ids) /\ named \in BOOLEAN

(***************************************************************************)
(* The poll array and the table of names, which accept and the end of a    *)
(* connection both change in the middle of a round, speak of the same      *)
(* connections: every entry in use is the one of its client's name, no     *)
(* connection has two, and none is without.                                *)
(***************************************************************************)
TableAgrees ==
    /\ \A j \in Used : poll_fds[j].fd \in Fds
    /\ \A j, k \in Used : poll_fds[j].fd = poll_fds[k].fd => j = k
    /\ \A f \in Fds :
          /\ end[f] # "none" <=> \E j \in Used : poll_fds[j].fd = f
          /\ \A k \in Ids : id_client[k] = f <=> end[f] # "none" /\ owner[f] = k

(***************************************************************************)
(* What revents says at poll is still so when the round comes to the entry *)
(* (lines 229-245 and 181 change the array in between): no read of the     *)
(* loop waits for one client while the others are not served, but that of  *)
(* a new client's name.                                                    *)
(***************************************************************************)
NeverWaits ==
    up = "on" =>
        \A j \in i .. num_clients - 1 :
            poll_fds[j].revents => Readable(poll_fds[j].fd)

Inbound(k) == IF id_client[k] = 0 THEN <<>> ELSE inq[id_client[k]]

\* The promises of PubSub.tla, by name instead of by descriptor.
Online == {k \in Ids : id_client[k] # 0}
Abstract == INSTANCE PubSub WITH
                up <- up,
                online <- Online,
                gone <- {k \in Online : end[id_client[k]] # "open"},
                pending <- [k \in Ids |-> Inbound(k)],
                subs <- topic_subscribers,
                box <- [k \in Ids |-> IF k \in Online THEN out[id_client[k]]
                                      ELSE <<>>]
Refinement == Abstract!Spec

(***************************************************************************)
(* Whatever there is to be read, from whomever, is read, unless the server *)
(* has ended: also the entry that a round passes over because another one  *)
(* was removed.                                                            *)
(***************************************************************************)
Served ==
    []<>(up # "on" \/ \A fd \in {stdinfd, sockfd, listenfd} \cup Fds : ~Readable(fd))
=============================================================================
