------------------------------ MODULE PubSub ------------------------------
(***************************************************************************)
(* What the server promises, with names instead of descriptors and with no *)
(* poll array: a client is on line under one name at a time, its requests  *)
(* are handled in the order in which it made them, its subscriptions       *)
(* outlive its connection, and a message reaches everybody on line who is  *)
(* subscribed to its topic, at once.  Only a client that has left, and     *)
(* whose end was not noticed yet, can disturb this.                        *)
(***************************************************************************)
EXTENDS TopicMatch

CONSTANTS
    Ids,        \* names of clients
    Wanted,     \* the subscriptions that clients ask for
    Sent        \* the topics that datagrams have

Requests == [type : {0, 1}, topic : Wanted]

VARIABLES
    up,         \* "on", "exit", or "killed" by a signal
    online,     \* who is on line for the server
    gone,       \* those of them who have left
    pending,    \* pending[k]: requests of k on their way
    subs,       \* subs[k]: list of subscriptions
    box         \* box[k]: messages for k that it has not read

vars == <<up, online, gone, pending, subs, box>>

Init ==
    /\ up = "on"
    /\ online = {} /\ gone = {}
    /\ pending = [k \in Ids |-> <<>>]
    /\ subs = [k \in Ids |-> <<>>]
    /\ box = [k \in Ids |-> <<>>]

Without(s, n) == SubSeq(s, 1, n - 1) \o SubSeq(s, n + 1, Len(s))

\* u is the list s after request r: one more at the end, or the first gone.
Follows(u, s, r) ==
    IF r.type = 1 THEN u = Append(s, r.topic)
    ELSE \/ u = s /\ \A n \in 1 .. Len(s) : s[n] # r.topic
         \/ \E n \in 1 .. Len(s) :
               /\ s[n] = r.topic /\ \A m \in 1 .. n - 1 : s[m] # r.topic
               /\ u = Without(s, n)

Join(k) ==
    /\ up = "on" /\ k \notin online
    /\ online' = online \cup {k}
    /\ UNCHANGED <<up, gone, pending, subs, box>>

Ask(k) ==
    /\ k \in online \ gone
    /\ \E r \in Requests : pending' = [pending EXCEPT ![k] = Append(@, r)]
    /\ UNCHANGED <<up, online, gone, subs, box>>

Read(k) ==
    /\ box[k] # <<>>
    /\ box' = [box EXCEPT ![k] = Tail(@)]
    /\ UNCHANGED <<up, online, gone, pending, subs>>

Leave(k) ==
    /\ k \in online \ gone
    /\ gone' = gone \cup {k}
    /\ box' = [box EXCEPT ![k] = <<>>]
    /\ UNCHANGED <<up, online, pending, subs>>

Handle(k) ==
    /\ up = "on" /\ k \in online /\ pending[k] # <<>>
    /\ pending' = [pending EXCEPT ![k] = Tail(@)]
    /\ \E u \in {subs'[k]} :
          /\ subs' = [subs EXCEPT ![k] = u]
          /\ Follows(u, subs[k], Head(pending[k]))
    /\ UNCHANGED <<up, online, gone, box>>

\* The end of a connection may be taken for one more request of its client.
Phantom(k) ==
    /\ up = "on" /\ k \in gone /\ pending[k] = <<>>
    /\ \E u \in {subs'[k]}, r \in Requests :
          subs' = [subs EXCEPT ![k] = u] /\ Follows(u, subs[k], r)
    /\ UNCHANGED <<up, online, gone, pending, box>>

Part(k) ==
    /\ up = "on" /\ k \in gone /\ pending[k] = <<>>
    /\ online' = online \ {k} /\ gone' = gone \ {k}
    /\ UNCHANGED <<up, pending, subs, box>>

Subscribers(t) == {k \in online : CheckTopic(t, subs[k])}

Given(t, S) == [k \in Ids |-> IF k \in S \ gone THEN Append(box[k], t) ELSE box[k]]

Publish(t) ==
    /\ up = "on"
    /\ box' = Given(t, Subscribers(t))
    /\ UNCHANGED <<up, online, gone, pending, subs>>

\* Sending to a client that has left may end the server, in the middle.
Die(t) ==
    /\ up = "on" /\ Subscribers(t) \cap gone # {}
    /\ up' = "killed"
    /\ \E S \in SUBSET Subscribers(t) : box' = Given(t, S)
    /\ UNCHANGED <<online, gone, pending, subs>>

Exit ==
    /\ up = "on" /\ up' = "exit"
    /\ UNCHANGED <<online, gone, pending, subs, box>>

Next ==
    \/ \E k \in Ids : \/ Join(k) \/ Ask(k) \/ Read(k) \/ Leave(k)
                      \/ Handle(k) \/ Phantom(k) \/ Part(k)
    \/ \E t \in Sent : Publish(t) \/ Die(t)
    \/ Exit

Spec == Init /\ [][Next]_vars
=============================================================================
