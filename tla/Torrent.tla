------------------------------ MODULE Torrent ------------------------------
(***************************************************************************)
(* Torrent MPI/tema2.cpp.  Rank 0 runs the tracker; ranks 1..N run a main  *)
(* thread and three others: download, upload and the "ready queue" that    *)
(* hands out the rank's upload slots.                                      *)
(*                                                                         *)
(* MPI_Send of a short message is a mailbox; MPI_Ssend is a rendezvous, so *)
(* its sender's pc stays where it is until the receiver takes the message. *)
(* The messages of one request (tags 0,1,2), of one swarm list (3..6), of  *)
(* one list of hashes (7,8) and of one segment request (11,12,13) are      *)
(* sent back to back to a receiver that waits for nothing else: each group *)
(* is one message here.  The hashes of a file are its segment numbers.     *)
(***************************************************************************)
EXTENDS Integers, Sequences, FiniteSets

CONSTANTS
    N,              \* numtasks - 1
    Files,          \* file names
    NoFile,         \* what is in the file variable before the first download
    Segs,           \* nr_hashes of each file
    Own,            \* own_files of each rank at the start
    Wish,           \* wish_files of each rank, in order
    MaxDownloaders, \* max_downloaders of the ready queue
    MaxFiles        \* MAX_FILES: segments between two swarm updates

Clients == 1 .. N
Segments(f) == 0 .. Segs[f] - 1

(***************************************************************************)
(* The inputs the program is written for.  A wished file that its own rank *)
(* already has would be overwritten at line 90, one that is wished twice   *)
(* would wait forever at line 74, one that nobody has would read           *)
(* oth_clients.peer[0] of an empty list at line 102, and a file with no    *)
(* hashes would read hashes[0] at line 114.                                *)
(***************************************************************************)
ASSUME ParametersAssumption ==
    /\ N \in Nat \ {0}
    /\ NoFile \notin Files
    /\ MaxDownloaders \in Nat \ {0}
    /\ MaxFiles \in Nat \ {0}
    /\ Segs \in [Files -> Nat \ {0}]
    /\ Own \in [Clients -> SUBSET Files]
    /\ Wish \in [Clients -> Seq(Files)]

ASSUME InputAssumption ==
    \A c \in Clients : \A i \in 1 .. Len(Wish[c]) :
        /\ Wish[c][i] \notin Own[c]
        /\ \E d \in Clients : Wish[c][i] \in Own[d]
        /\ \A j \in 1 .. Len(Wish[c]) : Wish[c][i] = Wish[c][j] => i = j

VARIABLES
    \* the tracker
    phase,      \* the loop of tracker() it is in
    unreg,      \* unreg[c]: own files whose registration is still in transit
    initSent,   \* ranks whose type 0 of the Init phase is still in transit
    finished,   \* the counter of the loop it is in
    swarm,      \* file_swarn
    stop,       \* the next rank to get the final type 0
    \* messages in transit
    requests,   \* to the tracker, tags 0..2 of the Transfer phase
    lists,      \* lists[c]: from the tracker, tags 3..6
    hashes,     \* hashes[c]: from the tracker, tags 7 and 8
    allow,      \* allow[c]: from a ready queue, tag 31
    \* the download thread of each rank; seg is segments_downloaded
    pc, wish, file, oth, next, peer, seg, exists,
    \* the maps shared by the threads of a rank, and its output
    present,    \* keys of own_files
    have,       \* have[c][f]: indices of own_files[f].hashes that are filled
    output,     \* files written
    \* the upload thread (answer is its exists) and the ready queue
    upPc, upSrc, answer, cur, rqOn,
    aborted     \* a rank crashed, and MPI ended the job with it

tracker == <<phase, unreg, initSent, finished, swarm, stop>>
download == <<pc, wish, file, oth, next, peer, seg, exists>>
store == <<present, have, output>>
upload == <<upPc, upSrc, answer>>
slots == <<cur, rqOn>>
vars == <<tracker, requests, lists, hashes, allow, download, store, upload,
          slots, aborted>>

-----------------------------------------------------------------------------
(* Helpers *)

SeedPeer == [seed : Seq(Clients), peer : Seq(Clients)]
NoPeers == [seed |-> <<>>, peer |-> <<>>]
IsIn(c, s) == \E i \in 1 .. Len(s) : s[i] = c

\* oth_clients.seed followed by oth_clients.peer, and the client at `next`.
Others(c) == oth[c].seed \o oth[c].peer
Target(c) == Others(c)[next[c] + 1]

SwarmRequest(c, f) == [type |-> 1, src |-> c, file |-> f]
DoneMessage(c) == [type |-> 0, src |-> c]

Requests == [type : {1}, src : Clients, file : Files]
              \cup [type : {0}, src : Clients]

-----------------------------------------------------------------------------
(* The program's conditions and counters.  A definition named "Bad..." is a  *)
(* slip the one after it could have; nothing else refers to it.              *)

\* finished == numtasks-1, for a counter that was n before it was raised: in
\* the Init loop, and in the Transfer loop.
LastToRegister(n) == n + 1 = N
BadLastToFinish(n) == n + 2 = N
LastToFinish(n) == n + 1 = N

\* std::find(...peer...) != end: c asked for f before.
BadKnownPeer(c, f) == FALSE
KnownPeer(c, f) == IsIn(c, swarm[f].peer)

\* cur_downloaders + 1 <= max_downloaders
BadSlotFree(p) == cur[p] <= MaxDownloaders
SlotFree(p) == cur[p] + 1 <= MaxDownloaders

\* cur_downloaders--
BadReleased(n) == n
Released(n) == n - 1

\* The keys of own_files when the download of file[c] begins.
BadKeys(c) == present[c]
Keys(c) == present[c] \cup {file[c]}

\* What the scan of own_files[file] for the hash finds, for the request that
\* the upload thread of p has: line 222.
BadFound(p) == file[upSrc[p]] \in present[p]
Found(p) == seg[upSrc[p]] \in have[p][file[upSrc[p]]]

\* segments_downloaded % MAX_FILES == 0
UpdateDue(s) == s % MaxFiles = 0

\* segments_downloaded == own_files[file].hashes.size()
BadComplete(c) == seg[c] + 1 = Segs[file[c]]
Complete(c) == seg[c] = Segs[file[c]]

\* The index of the client to ask next.
BadNextIndex(c) == next[c] + 1
NextIndex(c) == (next[c] + 1) % Len(Others(c))

-----------------------------------------------------------------------------
Init ==
    /\ phase = "init"
    /\ unreg = Own
    /\ initSent = Clients
    /\ finished = 0
    /\ swarm = [f \in Files |-> NoPeers]
    /\ stop = 1
    /\ requests = {}
    /\ lists = [c \in Clients |-> <<>>]
    /\ hashes = [c \in Clients |-> <<>>]
    /\ allow = [c \in Clients |-> "none"]
    /\ pc = [c \in Clients |-> "bcast"]
    /\ wish = Wish
    /\ file = [c \in Clients |-> NoFile]
    /\ oth = [c \in Clients |-> NoPeers]
    /\ next = [c \in Clients |-> 0]
    /\ peer = [c \in Clients |-> 0]
    /\ seg = [c \in Clients |-> 0]
    /\ exists = [c \in Clients |-> FALSE]
    /\ present = Own
    /\ have = [c \in Clients |->
                  [f \in Files |-> IF f \in Own[c] THEN Segments(f) ELSE {}]]
    /\ output = [c \in Clients |-> {}]
    /\ upPc = [c \in Clients |-> "idle"]
    /\ upSrc = [c \in Clients |-> 0]
    /\ answer = [c \in Clients |-> FALSE]
    /\ cur = [c \in Clients |-> 0]
    /\ rqOn = [c \in Clients |-> TRUE]
    /\ aborted = FALSE

-----------------------------------------------------------------------------
(* The tracker *)

\* Init loop, type 1: c has file f.
TrackerRegister(c, f) ==
    /\ phase = "init"
    /\ f \in unreg[c]
    /\ unreg' = [unreg EXCEPT ![c] = @ \ {f}]
    /\ swarm' = [swarm EXCEPT ![f].seed = Append(@, c)]
    /\ UNCHANGED <<phase, initSent, finished, stop, requests, lists, hashes,
                   allow, download, store, upload, slots, aborted>>

\* Init loop, type 0; with the last one the broadcast and the Transfer loop.
TrackerInitDone(c) ==
    /\ phase = "init"
    /\ unreg[c] = {}
    /\ c \in initSent
    /\ initSent' = initSent \ {c}
    /\ IF LastToRegister(finished)
       THEN phase' = "transfer" /\ finished' = 0
       ELSE finished' = finished + 1 /\ UNCHANGED phase
    /\ UNCHANGED <<unreg, swarm, stop, requests, lists, hashes, allow,
                   download, store, upload, slots, aborted>>

(***************************************************************************)
(* Transfer loop, type 1.  Every request gets the lists; the hashes follow *)
(* only for a client that was not yet a peer of the file, and make it one. *)
(***************************************************************************)
TrackerSwarm(c) ==
    /\ phase = "transfer"
    /\ \E f \in Files :
        /\ SwarmRequest(c, f) \in requests
        /\ requests' = requests \ {SwarmRequest(c, f)}
        /\ lists' = [lists EXCEPT ![c] = Append(@, swarm[f])]
        /\ IF KnownPeer(c, f)
           THEN UNCHANGED <<swarm, hashes>>
           ELSE /\ swarm' = [swarm EXCEPT ![f].peer = Append(@, c)]
                /\ hashes' = [hashes EXCEPT ![c] = Append(@, f)]
    /\ UNCHANGED <<phase, unreg, initSent, finished, stop, allow, download,
                   store, upload, slots, aborted>>

\* Transfer loop, type 0.
TrackerDone(c) ==
    /\ phase = "transfer"
    /\ DoneMessage(c) \in requests
    /\ requests' = requests \ {DoneMessage(c)}
    /\ finished' = finished + 1
    /\ phase' = IF LastToFinish(finished) THEN "stop" ELSE phase
    /\ UNCHANGED <<unreg, initSent, swarm, stop, lists, hashes, allow,
                   download, store, upload, slots, aborted>>

\* The final Ssend of type 0 to the upload thread of rank `stop`.
TrackerStop ==
    /\ phase = "stop"
    /\ upPc[stop] = "idle"
    /\ upPc' = [upPc EXCEPT ![stop] = "exit"]
    /\ stop' = stop + 1
    /\ phase' = IF stop = N THEN "exit" ELSE phase
    /\ UNCHANGED <<unreg, initSent, finished, swarm, requests, lists, hashes,
                   allow, download, store, upSrc, answer, slots, aborted>>

-----------------------------------------------------------------------------
(* The download thread of client c *)

\* The broadcast returns, and main creates the threads.
Start(c) ==
    /\ pc[c] = "bcast"
    /\ phase # "init"
    /\ pc' = [pc EXCEPT ![c] = "head"]
    /\ UNCHANGED <<tracker, requests, lists, hashes, allow, wish, file, oth,
                   next, peer, seg, exists, store, upload, slots, aborted>>

\* The next wish, and the request for its swarm and hashes.
RequestFile(c) ==
    /\ pc[c] = "head"
    /\ wish[c] # <<>>
    /\ file' = [file EXCEPT ![c] = Head(wish[c])]
    /\ wish' = [wish EXCEPT ![c] = Tail(@)]
    /\ requests' = requests \cup {SwarmRequest(c, Head(wish[c]))}
    /\ pc' = [pc EXCEPT ![c] = "lists"]
    /\ UNCHANGED <<tracker, lists, hashes, allow, oth, next, peer, seg,
                   exists, store, upload, slots, aborted>>

\* No wish is left: type 0 to the tracker, and the thread returns.
DoneDownloading(c) ==
    /\ pc[c] = "head"
    /\ wish[c] = <<>>
    /\ requests' = requests \cup {DoneMessage(c)}
    /\ pc' = [pc EXCEPT ![c] = "exit"]
    /\ UNCHANGED <<tracker, lists, hashes, allow, wish, file, oth, next, peer,
                   seg, exists, store, upload, slots, aborted>>

ReceiveLists(c) ==
    /\ pc[c] = "lists"
    /\ lists[c] # <<>>
    /\ oth' = [oth EXCEPT ![c] = [seed |-> @.seed \o Head(lists[c]).seed,
                                  peer |-> @.peer \o Head(lists[c]).peer]]
    /\ lists' = [lists EXCEPT ![c] = Tail(@)]
    /\ pc' = [pc EXCEPT ![c] = "hashes"]
    /\ UNCHANGED <<tracker, requests, hashes, allow, wish, file, next, peer,
                   seg, exists, store, upload, slots, aborted>>

ReceiveHashes(c) ==
    /\ pc[c] = "hashes"
    /\ hashes[c] # <<>>
    /\ hashes' = [hashes EXCEPT ![c] = Tail(@)]
    /\ seg' = [seg EXCEPT ![c] = 0]
    /\ pc' = [pc EXCEPT ![c] = "publish"]
    /\ UNCHANGED <<tracker, requests, lists, allow, wish, file, oth, next,
                   peer, exists, store, upload, slots, aborted>>

\* own_files[file] = file_download: the entry, with every hash still empty.
Publish(c) ==
    /\ pc[c] = "publish"
    /\ present' = [present EXCEPT ![c] = Keys(c)]
    /\ have' = [have EXCEPT ![c][file[c]] = {}]
    /\ next' = [next EXCEPT ![c] = 0]
    /\ pc' = [pc EXCEPT ![c] = "ask"]
    /\ UNCHANGED <<tracker, requests, lists, hashes, allow, wish, file, oth,
                   peer, seg, exists, output, upload, slots, aborted>>

\* The ready queue's answer: ask for a segment, or go on to the next client.
ReceiveAllow(c) ==
    /\ pc[c] = "allow"
    /\ allow[c] # "none"
    /\ allow' = [allow EXCEPT ![c] = "none"]
    /\ pc' = [pc EXCEPT ![c] = IF allow[c] = "yes" THEN "fetch" ELSE "check"]
    /\ UNCHANGED <<tracker, requests, lists, hashes, wish, file, oth, next,
                   peer, seg, exists, store, upload, slots, aborted>>

(***************************************************************************)
(* The uploader's answer is here: store the segment if it has it, under    *)
(* the file's mutex, and every MaxFiles segments ask the tracker for the   *)
(* swarm again.                                                            *)
(***************************************************************************)
Store(c) ==
    /\ pc[c] = "store"
    /\ IF exists[c]
       THEN /\ have' = [have EXCEPT ![c][file[c]] = @ \cup {seg[c]}]
            /\ seg' = [seg EXCEPT ![c] = @ + 1]
       ELSE UNCHANGED <<have, seg>>
    /\ IF UpdateDue(seg'[c])
       THEN /\ requests' = requests \cup {SwarmRequest(c, file[c])}
            /\ pc' = [pc EXCEPT ![c] = "update"]
       ELSE /\ pc' = [pc EXCEPT ![c] = "release"]
            /\ UNCHANGED requests
    /\ UNCHANGED <<tracker, lists, hashes, allow, wish, file, oth, next, peer,
                   exists, present, output, upload, slots, aborted>>

\* The new lists replace the old ones; no hashes are received here.
ReceiveUpdate(c) ==
    /\ pc[c] = "update"
    /\ lists[c] # <<>>
    /\ oth' = [oth EXCEPT ![c] = Head(lists[c])]
    /\ lists' = [lists EXCEPT ![c] = Tail(@)]
    /\ pc' = [pc EXCEPT ![c] = "release"]
    /\ UNCHANGED <<tracker, requests, hashes, allow, wish, file, next, peer,
                   seg, exists, store, upload, slots, aborted>>

\* Complete, or on to the next client of the list.
Check(c) ==
    /\ pc[c] = "check"
    /\ IF Complete(c)
       THEN pc' = [pc EXCEPT ![c] = "output"] /\ UNCHANGED next
       ELSE /\ pc' = [pc EXCEPT ![c] = "ask"]
            /\ next' = [next EXCEPT ![c] = NextIndex(c)]
    /\ UNCHANGED <<tracker, requests, lists, hashes, allow, wish, file, oth,
                   peer, seg, exists, store, upload, slots, aborted>>

WriteOutput(c) ==
    /\ pc[c] = "output"
    /\ output' = [output EXCEPT ![c] = @ \cup {file[c]}]
    /\ oth' = [oth EXCEPT ![c] = NoPeers]
    /\ pc' = [pc EXCEPT ![c] = "head"]
    /\ UNCHANGED <<tracker, requests, lists, hashes, allow, wish, file, next,
                   peer, seg, exists, present, have, upload, slots, aborted>>

-----------------------------------------------------------------------------
(* The upload thread of client p *)

(***************************************************************************)
(* The type, the hash and the file name of a segment request by c.  They   *)
(* are file[c] and seg[c], which c leaves alone until it has the answer.   *)
(***************************************************************************)
UploadAccept(p, c) ==
    /\ upPc[p] = "idle"
    /\ pc[p] # "bcast"
    /\ pc[c] = "fetch"
    /\ peer[c] = p
    /\ upPc' = [upPc EXCEPT ![p] = "scan"]
    /\ upSrc' = [upSrc EXCEPT ![p] = c]
    /\ pc' = [pc EXCEPT ![c] = "exists"]
    /\ UNCHANGED <<tracker, requests, lists, hashes, allow, wish, file, oth,
                   next, peer, seg, exists, store, answer, slots, aborted>>

(***************************************************************************)
(* The scan of own_files[file]; operator[] inserts an empty entry for a    *)
(* file that is not there.  own_files is read and written here without a   *)
(* lock: if the rank's download thread is at the assignment of line 90,    *)
(* which inserts and fills an entry, the behaviour is undefined.  The      *)
(* outcomes allowed then are the right answer, "not there" (an entry not   *)
(* found while the table grows, or with its hashes still empty) and a      *)
(* crash (a hash read through the empty vector).                           *)
(***************************************************************************)
UploadScan(p) ==
    LET f == file[upSrc[p]]
        race == pc[p] = "publish"
    IN  /\ upPc[p] = "scan"
        /\ upPc' = [upPc EXCEPT ![p] = "reply"]
        /\ present' = [present EXCEPT ![p] = @ \cup {f}]
        /\ \/ answer' = [answer EXCEPT ![p] = Found(p)] /\ UNCHANGED aborted
           \/ /\ race
              /\ answer' = [answer EXCEPT ![p] = FALSE]
              /\ aborted' \in BOOLEAN
        /\ UNCHANGED <<tracker, requests, lists, hashes, allow, download,
                       have, output, upSrc, slots>>

\* The Ssend of the answer meets the client's receive.
UploadReply(p) ==
    /\ upPc[p] = "reply"
    /\ pc[upSrc[p]] = "exists"
    /\ exists' = [exists EXCEPT ![upSrc[p]] = answer[p]]
    /\ pc' = [pc EXCEPT ![upSrc[p]] = "store"]
    /\ upPc' = [upPc EXCEPT ![p] = "idle"]
    /\ UNCHANGED <<tracker, requests, lists, hashes, allow, wish, file, oth,
                   next, peer, seg, store, upSrc, answer, slots, aborted>>

-----------------------------------------------------------------------------
(* The ready queue of client p *)

\* Type 0 from c: a slot if one is free.
ReadyAsk(p, c) ==
    /\ rqOn[p]
    /\ pc[p] # "bcast"
    /\ pc[c] = "ask"
    /\ p = Target(c)
    /\ peer' = [peer EXCEPT ![c] = p]
    /\ pc' = [pc EXCEPT ![c] = "allow"]
    /\ IF SlotFree(p)
       THEN /\ cur' = [cur EXCEPT ![p] = @ + 1]
            /\ allow' = [allow EXCEPT ![c] = "yes"]
       ELSE /\ allow' = [allow EXCEPT ![c] = "no"]
            /\ UNCHANGED cur
    /\ UNCHANGED <<tracker, requests, lists, hashes, wish, file, oth, next,
                   seg, exists, store, upload, rqOn, aborted>>

\* Type 1 from c: its slot is free again.
ReadyRelease(p, c) ==
    /\ rqOn[p]
    /\ pc[c] = "release"
    /\ peer[c] = p
    /\ cur' = [cur EXCEPT ![p] = Released(@)]
    /\ pc' = [pc EXCEPT ![c] = "check"]
    /\ UNCHANGED <<tracker, requests, lists, hashes, allow, wish, file, oth,
                   next, peer, seg, exists, store, upload, rqOn, aborted>>

\* Type 2 from main, which has joined the other two threads.
ReadyStop(p) ==
    /\ rqOn[p]
    /\ pc[p] = "exit"
    /\ upPc[p] = "exit"
    /\ rqOn' = [rqOn EXCEPT ![p] = FALSE]
    /\ UNCHANGED <<tracker, requests, lists, hashes, allow, download, store,
                   upload, cur, aborted>>

-----------------------------------------------------------------------------
(* The program *)

Serve(c) ==
    \/ \E f \in Files : TrackerRegister(c, f)
    \/ TrackerInitDone(c)
    \/ TrackerSwarm(c)
    \/ TrackerDone(c)

Download(c) ==
    \/ Start(c) \/ RequestFile(c) \/ DoneDownloading(c)
    \/ ReceiveLists(c) \/ ReceiveHashes(c) \/ Publish(c)
    \/ ReceiveAllow(c) \/ Store(c) \/ ReceiveUpdate(c)
    \/ Check(c) \/ WriteOutput(c)

Upload(p) ==
    \/ \E c \in Clients : UploadAccept(p, c)
    \/ UploadScan(p)
    \/ UploadReply(p)

Ready(p, c) == ReadyAsk(p, c) \/ ReadyRelease(p, c)

Terminated == phase = "exit" /\ \A c \in Clients : ~rqOn[c]

\* Every process returned, or the job was ended by a crash.
Halt == (Terminated \/ aborted) /\ UNCHANGED vars

Next ==
    \/ /\ ~aborted
       /\ \/ TrackerStop
          \/ \E c \in Clients :
                \/ Serve(c)
                \/ Download(c)
                \/ Upload(c)
                \/ ReadyStop(c)
                \/ \E p \in Clients : Ready(p, c)
    \/ Halt

Spec == Init /\ [][Next]_vars

(***************************************************************************)
(* Every thread keeps running, and the tracker and the ready queues take   *)
(* every message sent to them some time: MPI matches the sends that wait   *)
(* for one receive in the order they arrived.  The upload threads need     *)
(* less: any request, when there is one.                                   *)
(***************************************************************************)
Fairness ==
    /\ WF_vars(~aborted /\ TrackerStop)
    /\ \A c \in Clients :
        /\ WF_vars(~aborted /\ Serve(c))
        /\ WF_vars(~aborted /\ Download(c))
        /\ WF_vars(~aborted /\ Upload(c))
        /\ WF_vars(~aborted /\ ReadyStop(c))
        /\ \A p \in Clients : WF_vars(~aborted /\ Ready(p, c))

FairSpec == Spec /\ Fairness

-----------------------------------------------------------------------------
(* Properties *)

Pcs == {"bcast", "head", "lists", "hashes", "publish", "ask", "allow",
        "fetch", "exists", "store", "update", "release", "check", "output",
        "exit"}

\* Every variable keeps its type.
TypeOK ==
    /\ phase \in {"init", "transfer", "stop", "exit"}
    /\ unreg \in [Clients -> SUBSET Files]
    /\ initSent \subseteq Clients
    /\ finished \in Nat
    /\ swarm \in [Files -> SeedPeer]
    /\ stop \in Nat
    /\ requests \subseteq Requests
    /\ lists \in [Clients -> Seq(SeedPeer)]
    /\ hashes \in [Clients -> Seq(Files)]
    /\ allow \in [Clients -> {"none", "yes", "no"}]
    /\ pc \in [Clients -> Pcs]
    /\ wish \in [Clients -> Seq(Files)]
    /\ file \in [Clients -> Files \cup {NoFile}]
    /\ oth \in [Clients -> SeedPeer]
    /\ next \in [Clients -> Nat]
    /\ peer \in [Clients -> Clients \cup {0}]
    /\ seg \in [Clients -> Nat]
    /\ exists \in [Clients -> BOOLEAN]
    /\ present \in [Clients -> SUBSET Files]
    /\ have \in [Clients -> [Files -> SUBSET Nat]]
    /\ output \in [Clients -> SUBSET Files]
    /\ upPc \in [Clients -> {"idle", "scan", "reply", "exit"}]
    /\ upSrc \in [Clients -> Clients \cup {0}]
    /\ answer \in [Clients -> BOOLEAN]
    /\ cur \in [Clients -> Int]
    /\ rqOn \in [Clients -> BOOLEAN]
    /\ aborted \in BOOLEAN

\* Download threads that were granted a slot of p and have not released it.
GrantedPcs == {"fetch", "exists", "store", "update", "release"}
Granted(c) == pc[c] \in GrantedPcs \/ (pc[c] = "allow" /\ allow[c] = "yes")
Holders(p) == {c \in Clients : peer[c] = p /\ Granted(c)}

(***************************************************************************)
(* The ready queue's counter is the number of clients that hold a slot of  *)
(* its rank, counting a grant still in transit, and is never above         *)
(* max_downloaders: no slot leaks on any path of the download loop and no  *)
(* release is counted twice.                                               *)
(***************************************************************************)
GrantAccounting ==
    \A p \in Clients : cur[p] = Cardinality(Holders(p))
                       /\ cur[p] <= MaxDownloaders

(***************************************************************************)
(* The two receivers of a swarm request expect different replies: with     *)
(* hashes at lines 59-87, without at 136-150.  Which one the tracker sends *)
(* depends on its peer list alone.  The reply always has the form the      *)
(* client waits for, and nothing of it is left in a mailbox.               *)
(***************************************************************************)
Asking(c) == {r \in requests : r.type = 1 /\ r.src = c}
ReplyProtocol ==
    \A c \in Clients :
        LET f == file[c]
        IN  CASE Asking(c) # {} ->
                    /\ Asking(c) = {SwarmRequest(c, f)}
                    /\ pc[c] = IF IsIn(c, swarm[f].peer) THEN "update"
                                                         ELSE "lists"
                    /\ lists[c] = <<>> /\ hashes[c] = <<>>
              [] Asking(c) = {} /\ pc[c] = "lists" ->
                    Len(lists[c]) = 1 /\ hashes[c] = <<f>>
              [] Asking(c) = {} /\ pc[c] = "hashes" ->
                    lists[c] = <<>> /\ hashes[c] = <<f>>
              [] Asking(c) = {} /\ pc[c] = "update" ->
                    Len(lists[c]) = 1 /\ hashes[c] = <<>>
              [] OTHER -> lists[c] = <<>> /\ hashes[c] = <<>>

(***************************************************************************)
(* A positive answer is true when it is sent and still true when the       *)
(* client acts on it, though the uploader's entries change meanwhile; and  *)
(* it never comes from the client itself, which after a swarm update is in *)
(* its own list.                                                           *)
(***************************************************************************)
HonestAnswer ==
    \A c \in Clients :
        /\ upPc[c] = "reply" /\ answer[c] =>
              seg[upSrc[c]] \in have[c][file[upSrc[c]]]
        /\ pc[c] = "store" /\ exists[c] =>
              peer[c] # c /\ seg[c] \in have[peer[c]][file[c]]

(***************************************************************************)
(* What a client holds of the file it downloads is exactly the prefix that *)
(* segments_downloaded counts, and every file it has written, or had at    *)
(* the start, is complete.                                                 *)
(***************************************************************************)
DownloadingPcs == {"ask", "allow", "check", "output"} \cup GrantedPcs
PrefixHeld ==
    \A c \in Clients :
        /\ pc[c] \in DownloadingPcs =>
              /\ seg[c] <= Segs[file[c]]
              /\ have[c][file[c]] = 0 .. seg[c] - 1
        /\ \A f \in output[c] \cup Own[c] : have[c][f] = Segments(f)

(***************************************************************************)
(* The upload thread inserts into own_files (operator[] of a file that is  *)
(* not there) only while its rank's download thread has not yet reached    *)
(* the end of line 90 for that file: the unlocked reads of own_files at    *)
(* lines 122, 158 and 173-177 never meet an insertion.                     *)
(***************************************************************************)
InsertBeforePublish ==
    \A p \in Clients :
        upPc[p] = "scan" /\ file[upSrc[p]] \notin present[p] =>
            /\ file[p] = file[upSrc[p]]
            /\ pc[p] \in {"lists", "hashes", "publish"}

(***************************************************************************)
(* Threads stop in the right order: once the tracker has left the Transfer *)
(* loop, an upload thread has got its last message or a ready queue has    *)
(* returned, no download thread anywhere is left to wait for them.         *)
(***************************************************************************)
ShutdownOrder ==
    (\/ phase \in {"stop", "exit"}
     \/ \E p \in Clients : upPc[p] = "exit" \/ ~rqOn[p])
        => /\ \A c \in Clients : pc[c] = "exit"
           /\ requests = {}

(***************************************************************************)
(* `next` indexes the lists it is used with, also after an update changed  *)
(* them, and whoever they name had the file at the start or is one of its  *)
(* peers at the tracker, nobody twice.                                     *)
(***************************************************************************)
NextInBounds ==
    \A c \in Clients :
        pc[c] = "ask" =>
            LET all == swarm[file[c]].seed \o swarm[file[c]].peer
            IN  /\ next[c] < Len(Others(c))
                /\ \A i \in 1 .. Len(Others(c)) : IsIn(Others(c)[i], all)
                /\ \A i, j \in 1 .. Len(Others(c)) :
                      Others(c)[i] = Others(c)[j] => i = j

\* The promises of Swarm.tla.  Everything else of the state is hidden.
Abstract == INSTANCE Swarm WITH
                Clients <- Clients, Files <- Files, Segs <- Segs, Own <- Own,
                have <- have, output <- output, peer <- peer
Refinement == Abstract!Spec

(***************************************************************************)
(* Unless the race at line 90 ends the job, every client writes all the    *)
(* files it wishes and every thread returns.                               *)
(***************************************************************************)
AllWritten ==
    \A c \in Clients :
        output[c] = {Wish[c][i] : i \in 1 .. Len(Wish[c])}
Completion == <>(aborted \/ (Terminated /\ AllWritten))
=============================================================================
