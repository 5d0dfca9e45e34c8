------------------------------- MODULE Wire -------------------------------
(***************************************************************************)
(* The way of messages from the datagram to one subscriber: check_topic,   *)
(* the two bytes of the length before each message (server.cpp 212-218),   *)
(* the byte stream, which TCP cuts where it likes, and the subscriber,     *)
(* which has to cut it where it was written (subscriber.cpp 87-96).        *)
(***************************************************************************)
EXTENDS TopicMatch

CONSTANTS
    Half,       \* from here a signed char is negative: 128
    Sizes,      \* sizes of datagrams
    Buffer,     \* the size of the subscriber's buffer: 1552
    MaxSent     \* bound on the datagrams

Base == 2 * Half

ASSUME WireAssumption ==
    /\ Half \in Nat \ {0}
    /\ Buffer \in Nat /\ Buffer < Base * Half
    /\ Sizes \subseteq 1 .. Buffer

VARIABLES
    subscribed, topic,  \* what the subscriber asked for, what is published
    sent,       \* sizes of the messages sent
    arrived,    \* bytes of the stream that have come to the subscriber
    taken,      \* bytes of them that it has read
    need,       \* bytes recv_all has still to read, 0 at poll, -1 for ever
    got,        \* messages read: where in the stream each began, and its size
    halved      \* whether a recv for two bytes has given one

\* Its names differ from those of Broker, so that one module can speak of both.
wire == <<subscribed, topic, sent, arrived, taken, need, got, halved>>

\* Where in the stream the length of message m begins; of the one after the last, the end.
Start(m) == LET at[k \in 1 .. m] == IF k = 1 THEN 0 ELSE at[k - 1] + 2 + sent[k - 1]
            IN  at[m]
Written == Start(Len(sent) + 1)

Signed(b) == IF b >= Half THEN b - Base ELSE b

\* A slip the subscriber could have: the bytes in the other order.
BadDecode(lo, hi) == Signed(hi) + Base * Signed(lo)
\* str[0] + (str[1] << 8), of signed chars.
Decode(lo, hi) == Signed(lo) + Base * Signed(hi)

WireInit ==
    /\ subscribed \in Patterns /\ topic \in Topics
    /\ sent = <<>> /\ arrived = 0 /\ taken = 0 /\ need = 0
    /\ got = <<>> /\ halved = FALSE

\* The server, for one entry of the poll array.
Send(n) ==
    /\ CheckTopic(topic, <<subscribed>>)
    /\ Len(sent) < MaxSent
    /\ sent' = Append(sent, n)
    /\ UNCHANGED <<subscribed, topic, arrived, taken, need, got, halved>>

Arrive(x) ==
    /\ arrived < x /\ x <= Written
    /\ arrived' = x
    /\ UNCHANGED <<subscribed, topic, sent, taken, need, got, halved>>

\* Message k was read where it begins, and all of it.
Right(k) == k <= Len(sent) /\ got[k] = <<Start(k) + 2, sent[k]>>

\* recv of the length, and the call of recv_all: a negative length is a huge
\* one there, and a message beyond the buffer ends all that can be said.  If
\* recv gives only one byte, the other is what was in its place.  A reader that
\* has lost the beginnings is not followed any further.
ReadLength ==
    /\ need = 0 /\ taken < arrived
    /\ \A k \in 1 .. Len(got) : Right(k)
    /\ LET n == sent[Len(got) + 1]
           k == IF arrived - taken = 1 THEN 1 ELSE 2
       IN  \E hi \in IF k = 1 THEN 0 .. Base - 1 ELSE {n \div Base} :
              LET len == Decode(n % Base, hi)
              IN  /\ taken' = taken + k
                  /\ halved' = (halved \/ k = 1)
                  /\ need' = IF len \in 1 .. Buffer THEN len ELSE -1
                  /\ got' = Append(got, <<taken + k, len>>)
    /\ UNCHANGED <<subscribed, topic, sent, arrived>>

\* A slip recv_all could have: the last recv asks for the whole again.
BadChunk == IF need = 0 THEN 0 ELSE got[Len(got)][2]
\* What recv is asked for in recv_all.
Chunk == need

\* One recv of recv_all: what is there, up to what it asks for.
ReadBody ==
    /\ need > 0 /\ taken < arrived
    /\ LET k == IF arrived - taken < Chunk THEN arrived - taken ELSE Chunk
       IN  /\ taken' = taken + k
           /\ need' = IF k >= need THEN 0 ELSE need - k
    /\ UNCHANGED <<subscribed, topic, sent, arrived, got, halved>>

WireNext ==
    \/ \E n \in Sizes : Send(n)
    \/ \E x \in 1 .. Written : Arrive(x)
    \/ ReadLength \/ ReadBody

WireSpec == WireInit /\ [][WireNext]_wire
FairWireSpec == WireSpec /\ WF_wire(ReadLength) /\ WF_wire(ReadBody) /\ WF_wire(Arrive(Written))

(***************************************************************************)
(* check_topic sends what the pattern means, but in the two ways that      *)
(* Agrees names.                                                           *)
(***************************************************************************)
MatchRight == Agrees(subscribed, topic)

(***************************************************************************)
(* Every message is read as it was sent, however the stream was cut, until *)
(* there is one of which the low byte of the length is negative as a       *)
(* signed char, or a recv gives one of the two bytes of a length alone     *)
(* (line 90 does not ask again).                                           *)
(***************************************************************************)
Misleading(m) == sent[m] % Base >= Half
CutRight ==
    ~halved => \A k \in 1 .. Len(got) :
                  Right(k) \/ \E m \in 1 .. Len(sent) : m <= k /\ Misleading(m)

(***************************************************************************)
(* Without such a message every one is read in the end.                    *)
(***************************************************************************)
AllRead ==
    []<>(\/ halved \/ \E m \in 1 .. Len(sent) : Misleading(m)
         \/ Len(got) = Len(sent) /\ need = 0)
=============================================================================
