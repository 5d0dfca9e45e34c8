--------------------------- MODULE TorrentProofs ---------------------------
(***************************************************************************)
(* Theorems about Torrent.tla, for any number of ranks, files, slots and   *)
(* segments.                                                               *)
(*   1. The tracker and the shape of the state.                            *)
(*   2. What the clients hold and what their uploaders tell them, and that *)
(*      the program implements Swarm.tla.                                  *)
(*   3. The protocol between clients and tracker: the replies, the lists   *)
(*      in them, what they let an upload thread do, and the order in which *)
(*      the threads stop.                                                  *)
(***************************************************************************)
EXTENDS Torrent, FiniteSetTheorems, TLAPS

(***************************************************************************)
(* The inductive invariant.                                                *)
(***************************************************************************)

\* Some rank had f at the start, so that the tracker knows a seed of it.
Seeded(f) == f \in Files /\ \E d \in Clients : f \in Own[d]

\* A busy upload thread has taken the request of a client that waits for it.
UploadLink ==
    \A p \in Clients :
        upPc[p] \in {"scan", "reply"} =>
            /\ upSrc[p] \in Clients
            /\ pc[upSrc[p]] = "exists"
            /\ peer[upSrc[p]] = p

\* Registration: the Transfer loop starts with every seed in the swarm.
Registration ==
    /\ phase = "init" => finished + Cardinality(initSent) = N
    /\ phase # "init" => initSent = {}
    /\ \A c \in Clients : c \notin initSent => unreg[c] = {}
    /\ \A c \in Clients : \A f \in Own[c] :
          f \in unreg[c] \/ swarm[f].seed # <<>>
    /\ \A c \in Clients : pc[c] # "bcast" => phase # "init"

\* What a client asks for has a seed, and so has every list it gets.
IdlePcs == {"bcast", "head", "exit"}
SeedKnown ==
    /\ \A c \in Clients : \A i \in 1 .. Len(wish[c]) : Seeded(wish[c][i])
    /\ \A c \in Clients : pc[c] \notin IdlePcs => Seeded(file[c])
    /\ \A r \in requests : r.type = 1 => Seeded(r.file)
    /\ \A c \in Clients : \A i \in 1 .. Len(lists[c]) :
          lists[c][i].seed # <<>>
    /\ \A c \in Clients : pc[c] \notin IdlePcs \cup {"lists"} =>
          oth[c].seed # <<>>

BaseInv == TypeOK /\ UploadLink /\ Registration /\ SeedKnown

-----------------------------------------------------------------------------
(* Types *)

\* The initial values have their types.
LEMMA InitType == Init => TypeOK
<1> SUFFICES ASSUME Init PROVE TypeOK
  OBVIOUS
<1> USE ParametersAssumption
<1>1. NoPeers \in SeedPeer
  BY DEF NoPeers, SeedPeer
<1>2. have \in [Clients -> [Files -> SUBSET Nat]]
  BY DEF Init, Segments
<1>3. wish \in [Clients -> Seq(Files)] /\ unreg \in [Clients -> SUBSET Files]
      /\ present \in [Clients -> SUBSET Files]
  BY DEF Init
<1>4. swarm \in [Files -> SeedPeer] /\ oth \in [Clients -> SeedPeer]
  BY <1>1 DEF Init
<1>5. lists \in [Clients -> Seq(SeedPeer)] /\ hashes \in [Clients -> Seq(Files)]
  BY DEF Init
<1>6. pc \in [Clients -> Pcs] /\ upPc \in [Clients -> {"idle", "scan", "reply", "exit"}]
      /\ allow \in [Clients -> {"none", "yes", "no"}]
  BY DEF Init, Pcs
<1>7. output \in [Clients -> SUBSET Files] /\ file \in [Clients -> Files \cup {NoFile}]
  BY DEF Init
<1>8. next \in [Clients -> Nat] /\ peer \in [Clients -> Clients \cup {0}]
      /\ seg \in [Clients -> Nat] /\ exists \in [Clients -> BOOLEAN]
      /\ upSrc \in [Clients -> Clients \cup {0}] /\ answer \in [Clients -> BOOLEAN]
      /\ cur \in [Clients -> Int] /\ rqOn \in [Clients -> BOOLEAN]
  BY DEF Init
<1>9. phase \in {"init", "transfer", "stop", "exit"} /\ initSent \subseteq Clients
      /\ finished \in Nat /\ stop \in Nat /\ requests \subseteq Requests
      /\ aborted \in BOOLEAN
  BY DEF Init
<1> QED
  BY <1>2, <1>3, <1>4, <1>5, <1>6, <1>7, <1>8, <1>9 DEF TypeOK

\* Adding a client to one list of a swarm entry.
LEMMA ExtendSwarm ==
  ASSUME NEW s \in SeedPeer, NEW c \in Clients
  PROVE  /\ [s EXCEPT !.seed = Append(@, c)] \in SeedPeer
         /\ [s EXCEPT !.peer = Append(@, c)] \in SeedPeer
         /\ [s EXCEPT !.seed = Append(@, c)].seed # <<>>
         /\ [s EXCEPT !.peer = Append(@, c)].seed = s.seed
<1>1. Append(s.seed, c) \in Seq(Clients) /\ Append(s.peer, c) \in Seq(Clients)
      /\ Append(s.seed, c) # <<>>
  BY DEF SeedPeer
<1>2. ASSUME NEW x \in Seq(Clients)
      PROVE  /\ [s EXCEPT !.seed = x] \in SeedPeer
             /\ [s EXCEPT !.peer = x] \in SeedPeer
             /\ [s EXCEPT !.seed = x].seed = x
             /\ [s EXCEPT !.peer = x].seed = s.seed
  BY DEF SeedPeer
<1> QED
  BY <1>1, <1>2

\* Every step keeps the types; a division by an empty list is ruled out by
\* SeedKnown, and a file that is no file by SeedKnown and UploadLink.
LEMMA NextType == BaseInv /\ [Next]_vars => TypeOK'
<1> SUFFICES ASSUME TypeOK, UploadLink, SeedKnown, [Next]_vars PROVE TypeOK'
  BY DEF BaseInv
<1> USE ParametersAssumption
    DEF tracker, download, store, upload, slots, LastToRegister, LastToFinish,
        KnownPeer,
        SlotFree, Released, Keys, Found, Complete, NextIndex
<1>0. \A c \in Clients : pc[c] \notin IdlePcs => file[c] \in Files
  BY DEF SeedKnown, Seeded
<1>1. ASSUME NEW c \in Clients, NEW f \in Files, TrackerRegister(c, f)
      PROVE  TypeOK'
  <2>1. swarm' \in [Files -> SeedPeer]
    <3>1. swarm' = [swarm EXCEPT ![f] = [swarm[f] EXCEPT !.seed = Append(@, c)]]
      BY <1>1 DEF TrackerRegister, TypeOK
    <3> QED
      BY <3>1, ExtendSwarm DEF TypeOK
  <2> QED
    BY <1>1, <2>1 DEF TrackerRegister, TypeOK
<1>2. ASSUME NEW c \in Clients, TrackerInitDone(c) PROVE TypeOK'
  BY <1>2 DEF TrackerInitDone, TypeOK
<1>3. ASSUME NEW c \in Clients, TrackerSwarm(c) PROVE TypeOK'
  <2>1. PICK f \in Files :
          /\ requests' = requests \ {SwarmRequest(c, f)}
          /\ lists' = [lists EXCEPT ![c] = Append(@, swarm[f])]
          /\ IF IsIn(c, swarm[f].peer)
             THEN UNCHANGED <<swarm, hashes>>
             ELSE /\ swarm' = [swarm EXCEPT ![f].peer = Append(@, c)]
                  /\ hashes' = [hashes EXCEPT ![c] = Append(@, f)]
    BY <1>3 DEF TrackerSwarm
  <2>2. swarm' \in [Files -> SeedPeer]
    <3>1. CASE IsIn(c, swarm[f].peer)
      BY <2>1, <3>1 DEF TypeOK
    <3>2. CASE ~IsIn(c, swarm[f].peer)
      <4>1. swarm' =
              [swarm EXCEPT ![f] = [swarm[f] EXCEPT !.peer = Append(@, c)]]
        BY <2>1, <3>2 DEF TypeOK
      <4> QED
        BY <4>1, ExtendSwarm DEF TypeOK
    <3> QED
      BY <3>1, <3>2
  <2>3. lists' \in [Clients -> Seq(SeedPeer)]
    <3>1. swarm[f] \in SeedPeer
      BY DEF TypeOK
    <3> QED
      BY <2>1, <3>1 DEF TypeOK
  <2>4. hashes' \in [Clients -> Seq(Files)]
    <3>1. hashes' = hashes \/ hashes' = [hashes EXCEPT ![c] = Append(@, f)]
      BY <2>1
    <3>2. Append(hashes[c], f) \in Seq(Files)
      BY DEF TypeOK
    <3> QED
      BY <3>1, <3>2 DEF TypeOK
  <2>5. requests' \subseteq Requests
    BY <2>1 DEF TypeOK
  <2> QED
    BY <1>3, <2>2, <2>3, <2>4, <2>5 DEF TrackerSwarm, TypeOK
<1>4. ASSUME NEW c \in Clients, TrackerDone(c) PROVE TypeOK'
  BY <1>4 DEF TrackerDone, TypeOK
<1>5. ASSUME TrackerStop PROVE TypeOK'
  <2>1. upPc' \in [Clients -> {"idle", "scan", "reply", "exit"}]
    BY <1>5 DEF TrackerStop, TypeOK
  <2> QED
    BY <1>5, <2>1 DEF TrackerStop, TypeOK
<1>6. ASSUME NEW c \in Clients, Start(c) PROVE TypeOK'
  BY <1>6 DEF Start, TypeOK, Pcs
<1>7. ASSUME NEW c \in Clients, RequestFile(c) PROVE TypeOK'
  BY <1>7 DEF RequestFile, TypeOK, Pcs, SwarmRequest, Requests
<1>8. ASSUME NEW c \in Clients, DoneDownloading(c) PROVE TypeOK'
  BY SMTT(30), <1>8 DEF DoneDownloading, TypeOK, Pcs, DoneMessage, Requests
<1>9. ASSUME NEW c \in Clients, ReceiveLists(c) PROVE TypeOK'
  <2>1. Head(lists[c]) \in SeedPeer /\ Tail(lists[c]) \in Seq(SeedPeer)
    BY <1>9 DEF ReceiveLists, TypeOK
  <2>2. [seed |-> oth[c].seed \o Head(lists[c]).seed,
         peer |-> oth[c].peer \o Head(lists[c]).peer] \in SeedPeer
    BY <2>1 DEF SeedPeer, TypeOK
  <2>3. oth' \in [Clients -> SeedPeer] /\ lists' \in [Clients -> Seq(SeedPeer)]
    BY <1>9, <2>1, <2>2 DEF ReceiveLists, TypeOK
  <2>4. pc' \in [Clients -> Pcs]
    BY <1>9 DEF ReceiveLists, TypeOK, Pcs
  <2> QED
    BY <1>9, <2>3, <2>4 DEF ReceiveLists, TypeOK
<1>10. ASSUME NEW c \in Clients, ReceiveHashes(c) PROVE TypeOK'
  BY <1>10 DEF ReceiveHashes, TypeOK, Pcs
<1>11. ASSUME NEW c \in Clients, Publish(c) PROVE TypeOK'
  <2>1. file[c] \in Files
    BY <1>0, <1>11 DEF Publish, IdlePcs
  <2>2. have' \in [Clients -> [Files -> SUBSET Nat]]
    BY <1>11, <2>1 DEF Publish, TypeOK
  <2> QED
    BY <1>11, <2>1, <2>2 DEF Publish, TypeOK, Pcs
<1>12. ASSUME NEW c \in Clients, ReceiveAllow(c) PROVE TypeOK'
  BY <1>12 DEF ReceiveAllow, TypeOK, Pcs
<1>13. ASSUME NEW c \in Clients, Store(c) PROVE TypeOK'
  <2>1. file[c] \in Files
    BY <1>0, <1>13 DEF Store, IdlePcs
  <2>2. have' \in [Clients -> [Files -> SUBSET Nat]]
        /\ seg' \in [Clients -> Nat]
    <3>1. CASE exists[c]
      <4>1. have[c][file[c]] \cup {seg[c]} \in SUBSET Nat /\ seg[c] + 1 \in Nat
        BY <2>1 DEF TypeOK
      <4>2. seg' = [seg EXCEPT ![c] = @ + 1]
            /\ have' = [have EXCEPT ![c] =
                           [have[c] EXCEPT ![file[c]] = @ \cup {seg[c]}]]
        BY <1>13, <3>1 DEF Store, TypeOK
      <4>3. [have[c] EXCEPT ![file[c]] = @ \cup {seg[c]}] \in [Files -> SUBSET Nat]
        BY <4>1 DEF TypeOK
      <4> QED
        BY <4>1, <4>2, <4>3 DEF TypeOK
    <3>2. CASE ~exists[c]
      BY <1>13, <3>2 DEF Store, TypeOK
    <3> QED
      BY <3>1, <3>2
  <2>3. pc' \in [Clients -> Pcs]
    BY <1>13 DEF Store, TypeOK, Pcs
  <2>4. requests' \subseteq Requests
    BY <1>13, <2>1 DEF Store, TypeOK, SwarmRequest, Requests
  <2> QED
    BY <1>13, <2>2, <2>3, <2>4 DEF Store, TypeOK
<1>14. ASSUME NEW c \in Clients, ReceiveUpdate(c) PROVE TypeOK'
  BY <1>14 DEF ReceiveUpdate, TypeOK, Pcs
<1>15. ASSUME NEW c \in Clients, Check(c) PROVE TypeOK'
  <2>1. oth[c].seed \in Seq(Clients) /\ oth[c].peer \in Seq(Clients)
    BY DEF TypeOK, SeedPeer
  <2>2. Len(Others(c)) \in Nat \ {0}
    <3>1. oth[c].seed # <<>>
      BY <1>15 DEF Check, SeedKnown, IdlePcs
    <3> DEFINE a == Len(oth[c].seed)
               b == Len(oth[c].peer)
    <3>2. a \in Nat /\ a > 0 /\ b \in Nat
      BY <2>1, <3>1
    <3>3. Len(Others(c)) = a + b
      BY <2>1 DEF Others
    <3> HIDE DEF a, b
    <3> QED
      BY <3>2, <3>3
  <2>3. (next[c] + 1) % Len(Others(c)) \in Nat
    BY <2>2 DEF TypeOK
  <2>4. next' \in [Clients -> Nat]
    <3>1. CASE seg[c] = Segs[file[c]]
      BY <1>15, <3>1 DEF Check, TypeOK
    <3>2. CASE seg[c] # Segs[file[c]]
      BY <1>15, <2>3, <3>2 DEF Check, TypeOK
    <3> QED
      BY <3>1, <3>2
  <2>5. pc' \in [Clients -> Pcs]
    BY <1>15 DEF Check, TypeOK, Pcs
  <2> QED
    BY <1>15, <2>4, <2>5 DEF Check, TypeOK
<1>16. ASSUME NEW c \in Clients, WriteOutput(c) PROVE TypeOK'
  <2>1. file[c] \in Files
    BY <1>0, <1>16 DEF WriteOutput, IdlePcs
  <2>2. NoPeers \in SeedPeer
    BY DEF NoPeers, SeedPeer
  <2> QED
    BY <1>16, <2>1, <2>2 DEF WriteOutput, TypeOK, Pcs
<1>17. ASSUME NEW p \in Clients, NEW c \in Clients, UploadAccept(p, c)
       PROVE  TypeOK'
  BY <1>17 DEF UploadAccept, TypeOK, Pcs
<1>18. ASSUME NEW p \in Clients, UploadScan(p) PROVE TypeOK'
  <2>1. upSrc[p] \in Clients /\ file[upSrc[p]] \in Files
    BY <1>0, <1>18 DEF UploadScan, UploadLink, IdlePcs
  <2>2. (seg[upSrc[p]] \in have[p][file[upSrc[p]]]) \in BOOLEAN
    OBVIOUS
  <2>3. answer' \in [Clients -> BOOLEAN] /\ aborted' \in BOOLEAN
    <3> DEFINE found == seg[upSrc[p]] \in have[p][file[upSrc[p]]]
    <3>1. found \in BOOLEAN
      BY <2>2
    <3>2. \/ answer' = [answer EXCEPT ![p] = found] /\ aborted' = aborted
          \/ answer' = [answer EXCEPT ![p] = FALSE] /\ aborted' \in BOOLEAN
      BY <1>18 DEF UploadScan
    <3> HIDE DEF found
    <3>3. \E x \in BOOLEAN : answer' = [answer EXCEPT ![p] = x]
      BY <3>1, <3>2
    <3> QED
      BY <3>2, <3>3 DEF TypeOK
  <2> QED
    BY <1>18, <2>1, <2>3 DEF UploadScan, TypeOK
<1>19. ASSUME NEW p \in Clients, UploadReply(p) PROVE TypeOK'
  BY <1>19 DEF UploadReply, TypeOK, Pcs
<1>20. ASSUME NEW p \in Clients, NEW c \in Clients, ReadyAsk(p, c)
       PROVE  TypeOK'
  <2>1. peer' \in [Clients -> Clients \cup {0}] /\ pc' \in [Clients -> Pcs]
    BY <1>20 DEF ReadyAsk, TypeOK, Pcs
  <2>2. cur' \in [Clients -> Int] /\ allow' \in [Clients -> {"none", "yes", "no"}]
    <3>1. cur' = cur \/ cur' = [cur EXCEPT ![p] = cur[p] + 1]
      BY <1>20 DEF ReadyAsk
    <3>2. \/ allow' = [allow EXCEPT ![c] = "yes"]
          \/ allow' = [allow EXCEPT ![c] = "no"]
      BY <1>20 DEF ReadyAsk
    <3>3. cur' \in [Clients -> Int]
      <4>1. cur \in [Clients -> Int] /\ cur[p] + 1 \in Int
        BY DEF TypeOK
      <4>2. CASE cur' = cur
        BY <4>1, <4>2
      <4>3. CASE cur' = [cur EXCEPT ![p] = cur[p] + 1]
        BY <4>1, <4>3
      <4> QED
        BY <3>1, <4>2, <4>3
    <3>4. allow' \in [Clients -> {"none", "yes", "no"}]
      BY <3>2 DEF TypeOK
    <3> QED
      BY <3>3, <3>4
  <2> QED
    BY <1>20, <2>1, <2>2 DEF ReadyAsk, TypeOK
<1>21. ASSUME NEW p \in Clients, NEW c \in Clients, ReadyRelease(p, c)
       PROVE  TypeOK'
  BY SMTT(30), <1>21 DEF ReadyRelease, TypeOK, Pcs
<1>22. ASSUME NEW p \in Clients, ReadyStop(p) PROVE TypeOK'
  BY <1>22 DEF ReadyStop, TypeOK
<1>23. CASE UNCHANGED vars
  BY <1>23 DEF vars, TypeOK
<1> QED
  BY <1>1, <1>2, <1>3, <1>4, <1>5, <1>6, <1>7, <1>8, <1>9, <1>10, <1>11,
     <1>12, <1>13, <1>14, <1>15, <1>16, <1>17, <1>18, <1>19, <1>20, <1>21,
     <1>22, <1>23
     DEF Next, Serve, Download, Upload, Ready, Halt

-----------------------------------------------------------------------------
(* The other parts of BaseInv *)

\* A swarm request adds no seed and removes none.
LEMMA SwarmSeeds ==
  ASSUME TypeOK, NEW c \in Clients, TrackerSwarm(c)
  PROVE  \A g \in Files : swarm'[g].seed = swarm[g].seed
<1>1. PICK f \in Files :
        IF IsIn(c, swarm[f].peer)
        THEN UNCHANGED <<swarm, hashes>>
        ELSE /\ swarm' = [swarm EXCEPT ![f].peer = Append(@, c)]
             /\ hashes' = [hashes EXCEPT ![c] = Append(@, f)]
  BY DEF TrackerSwarm, KnownPeer
<1>2. CASE IsIn(c, swarm[f].peer)
  BY <1>1, <1>2
<1>3. CASE ~IsIn(c, swarm[f].peer)
  <2>1. swarm' = [swarm EXCEPT ![f] = [swarm[f] EXCEPT !.peer = Append(@, c)]]
    BY <1>1, <1>3 DEF TypeOK
  <2> QED
    BY <2>1, ExtendSwarm DEF TypeOK
<1> QED
  BY <1>2, <1>3

\* The initial state satisfies them.
LEMMA InitBase == Init => BaseInv
<1> SUFFICES ASSUME Init PROVE BaseInv
  OBVIOUS
<1> USE ParametersAssumption
<1>1. TypeOK
  BY InitType
<1>2. UploadLink
  BY DEF Init, UploadLink
<1>3. Registration
  <2>1. IsFiniteSet(Clients) /\ Cardinality(Clients) = N
    BY FS_Interval DEF Clients
  <2> QED
    BY <2>1 DEF Init, Registration
<1>4. SeedKnown
  BY InputAssumption DEF Init, SeedKnown, Seeded, IdlePcs
<1> QED
  BY <1>1, <1>2, <1>3, <1>4 DEF BaseInv

\* A step of one download thread that was not waiting for an answer, and left
\* the upload threads and the rank it last asked alone, keeps UploadLink.
LEMMA LinkFrame ==
  ASSUME TypeOK, UploadLink, NEW c \in Clients, pc[c] # "exists",
         \A d \in Clients \ {c} : pc'[d] = pc[d],
         \A d \in Clients : pc[d] = "exists" => peer'[d] = peer[d],
         upPc' = upPc, upSrc' = upSrc
  PROVE  UploadLink'
BY DEF UploadLink, TypeOK

\* Every step keeps UploadLink.
LEMMA NextLink == TypeOK /\ UploadLink /\ [Next]_vars => UploadLink'
<1> SUFFICES ASSUME TypeOK, UploadLink, [Next]_vars PROVE UploadLink'
  OBVIOUS
<1> USE DEF tracker, download, store, upload, slots
<1>1. ASSUME NEW c \in Clients, Serve(c) PROVE UploadLink'
  BY <1>1 DEF Serve, TrackerRegister, TrackerInitDone, TrackerSwarm,
              TrackerDone, UploadLink
<1>2. ASSUME TrackerStop PROVE UploadLink'
  BY <1>2 DEF TrackerStop, UploadLink, TypeOK
<1>3. ASSUME NEW c \in Clients, Download(c) PROVE UploadLink'
  <2>1. /\ pc[c] # "exists"
        /\ \A d \in Clients \ {c} : pc'[d] = pc[d]
        /\ peer' = peer /\ upPc' = upPc /\ upSrc' = upSrc
    BY <1>3 DEF Download, Start, RequestFile, DoneDownloading, ReceiveLists,
                ReceiveHashes, Publish, ReceiveAllow, Store, ReceiveUpdate,
                Check, WriteOutput, TypeOK
  <2> QED
    BY <2>1, LinkFrame
<1>4. ASSUME NEW p \in Clients, NEW c \in Clients, UploadAccept(p, c)
      PROVE  UploadLink'
  BY <1>4 DEF UploadAccept, UploadLink, TypeOK
<1>5. ASSUME NEW p \in Clients, UploadScan(p) PROVE UploadLink'
  BY <1>5 DEF UploadScan, UploadLink, TypeOK
<1>6. ASSUME NEW p \in Clients, UploadReply(p) PROVE UploadLink'
  BY <1>6 DEF UploadReply, UploadLink, TypeOK
<1>7. ASSUME NEW p \in Clients, NEW c \in Clients, Ready(p, c)
      PROVE  UploadLink'
  <2>1. /\ pc[c] # "exists"
        /\ \A d \in Clients \ {c} : pc'[d] = pc[d]
        /\ \A d \in Clients : pc[d] = "exists" => peer'[d] = peer[d]
        /\ upPc' = upPc /\ upSrc' = upSrc
    BY <1>7 DEF Ready, ReadyAsk, ReadyRelease, TypeOK
  <2> QED
    BY <2>1, LinkFrame
<1>8. ASSUME NEW p \in Clients, ReadyStop(p) PROVE UploadLink'
  BY <1>8 DEF ReadyStop, UploadLink
<1>9. CASE UNCHANGED vars
  BY <1>9 DEF vars, UploadLink
<1> QED
  BY <1>1, <1>2, <1>3, <1>4, <1>5, <1>6, <1>7, <1>8, <1>9
     DEF Next, Upload, Halt

\* Every step keeps Registration.
LEMMA NextRegistration == BaseInv /\ [Next]_vars => Registration'
<1> SUFFICES ASSUME TypeOK, Registration, [Next]_vars PROVE Registration'
  BY DEF BaseInv
<1> USE ParametersAssumption
    DEF tracker, download, store, upload, slots, LastToRegister, LastToFinish,
        KnownPeer,
        SlotFree, Released, Keys, Found, Complete, NextIndex
<1>0. IsFiniteSet(initSent)
  <2>1. IsFiniteSet(Clients)
    BY FS_Interval DEF Clients
  <2>2. initSent \subseteq Clients
    BY DEF TypeOK
  <2> QED
    BY <2>1, <2>2, FS_Subset
<1>1. ASSUME NEW c \in Clients, NEW f \in Files, TrackerRegister(c, f)
      PROVE  Registration'
  <2>1. swarm' = [swarm EXCEPT ![f] = [swarm[f] EXCEPT !.seed = Append(@, c)]]
    BY <1>1 DEF TrackerRegister, TypeOK
  <2>2. swarm'[f].seed # <<>> /\ \A g \in Files \ {f} : swarm'[g] = swarm[g]
    BY ZenonT(30), <2>1, ExtendSwarm DEF TypeOK
  <2> QED
    BY ZenonT(30), <1>1, <2>2 DEF TrackerRegister, Registration, TypeOK
<1>2. ASSUME NEW c \in Clients, TrackerInitDone(c) PROVE Registration'
  <2>1. Cardinality(initSent \ {c}) = Cardinality(initSent) - 1
        /\ Cardinality(initSent) \in Nat
    BY <1>0, <1>2, FS_RemoveElement, FS_CardinalityType DEF TrackerInitDone
  <2>2. CASE finished + 1 = N
    <3>0. finished + Cardinality(initSent) = N /\ finished \in Nat
      BY <1>2 DEF TrackerInitDone, Registration, TypeOK
    <3>1. Cardinality(initSent \ {c}) = 0
      BY <2>1, <2>2, <3>0
    <3>2. initSent' = initSent \ {c} /\ IsFiniteSet(initSent \ {c})
      BY <1>0, <1>2, FS_RemoveElement DEF TrackerInitDone
    <3>3. initSent' = {}
      BY <3>1, <3>2, FS_EmptySet
    <3> QED
      BY <1>2, <2>2, <3>3 DEF TrackerInitDone, Registration, TypeOK
  <2>3. CASE finished + 1 # N
    BY SMTT(30), <1>2, <2>1, <2>3 DEF TrackerInitDone, Registration, TypeOK
  <2> QED
    BY <2>2, <2>3
<1>3. ASSUME NEW c \in Clients, TrackerSwarm(c) PROVE Registration'
  <2>1. \A g \in Files : swarm'[g].seed = swarm[g].seed
    BY <1>3, SwarmSeeds
  <2> QED
    BY <1>3, <2>1 DEF TrackerSwarm, Registration, TypeOK
<1>4. ASSUME NEW c \in Clients, TrackerDone(c) PROVE Registration'
  BY <1>4 DEF TrackerDone, Registration
<1>5. ASSUME TrackerStop PROVE Registration'
  BY <1>5 DEF TrackerStop, Registration
<1>6. ASSUME NEW c \in Clients, Download(c) PROVE Registration'
  <2>1. /\ UNCHANGED <<phase, unreg, initSent, finished, swarm>>
        /\ \A d \in Clients \ {c} : pc'[d] = pc[d]
        /\ pc[c] # "bcast" \/ phase # "init"
    BY <1>6 DEF Download, Start, RequestFile, DoneDownloading, ReceiveLists,
                ReceiveHashes, Publish, ReceiveAllow, Store, ReceiveUpdate,
                Check, WriteOutput, TypeOK
  <2> QED
    BY <2>1 DEF Registration
<1>7. ASSUME NEW p \in Clients, Upload(p) PROVE Registration'
  <2>1. /\ UNCHANGED <<phase, unreg, initSent, finished, swarm>>
        /\ \A d \in Clients : pc[d] = "bcast" => pc'[d] = pc[d]
    BY <1>7 DEF Upload, UploadAccept, UploadScan, UploadReply, TypeOK
  <2> QED
    BY <2>1 DEF Registration
<1>8. ASSUME NEW p \in Clients, NEW c \in Clients, Ready(p, c)
      PROVE  Registration'
  <2>1. /\ UNCHANGED <<phase, unreg, initSent, finished, swarm>>
        /\ \A d \in Clients : pc[d] = "bcast" => pc'[d] = pc[d]
    BY <1>8 DEF Ready, ReadyAsk, ReadyRelease, TypeOK
  <2> QED
    BY <2>1 DEF Registration
<1>9. ASSUME NEW p \in Clients, ReadyStop(p) PROVE Registration'
  BY <1>9 DEF ReadyStop, Registration
<1>10. CASE UNCHANGED vars
  BY <1>10 DEF vars, Registration
<1> QED
  BY <1>1, <1>2, <1>3, <1>4, <1>5, <1>6, <1>7, <1>8, <1>9, <1>10
     DEF Next, Serve, Halt

\* Every step keeps SeedKnown.
LEMMA NextSeedKnown == BaseInv /\ [Next]_vars => SeedKnown'
<1> SUFFICES ASSUME TypeOK, UploadLink, Registration, SeedKnown, [Next]_vars
             PROVE  SeedKnown'
  BY DEF BaseInv
<1> USE ParametersAssumption
    DEF tracker, download, store, upload, slots, LastToRegister, LastToFinish,
        KnownPeer,
        SlotFree, Released, Keys, Found, Complete, NextIndex
<1>1. ASSUME NEW c \in Clients, NEW f \in Files, TrackerRegister(c, f)
      PROVE  SeedKnown'
  BY <1>1 DEF TrackerRegister, SeedKnown
<1>2. ASSUME NEW c \in Clients, TrackerInitDone(c) PROVE SeedKnown'
  BY <1>2 DEF TrackerInitDone, SeedKnown
<1>3. ASSUME NEW c \in Clients, TrackerSwarm(c) PROVE SeedKnown'
  <2>1. PICK f \in Files :
          /\ SwarmRequest(c, f) \in requests
          /\ requests' = requests \ {SwarmRequest(c, f)}
          /\ lists' = [lists EXCEPT ![c] = Append(@, swarm[f])]
    BY <1>3 DEF TrackerSwarm
  <2>2. Seeded(f)
    BY <2>1 DEF SeedKnown, SwarmRequest
  <2>3. swarm[f].seed # <<>> /\ swarm[f] \in SeedPeer
    BY <1>3, <2>2 DEF TrackerSwarm, Registration, Seeded, TypeOK
  <2>4. lists[c] \in Seq(SeedPeer)
    BY DEF TypeOK
  <2>5. \A i \in 1 .. Len(Append(lists[c], swarm[f])) :
          Append(lists[c], swarm[f])[i].seed # <<>>
    BY <2>3, <2>4 DEF SeedKnown
  <2>6. \A d \in Clients : \A i \in 1 .. Len(lists'[d]) :
          lists'[d][i].seed # <<>>
    BY <2>1, <2>5 DEF SeedKnown, TypeOK
  <2> QED
    BY <1>3, <2>1, <2>6 DEF TrackerSwarm, SeedKnown
<1>4. ASSUME NEW c \in Clients, TrackerDone(c) PROVE SeedKnown'
  BY <1>4 DEF TrackerDone, SeedKnown
<1>5. ASSUME TrackerStop PROVE SeedKnown'
  BY <1>5 DEF TrackerStop, SeedKnown
<1>6. ASSUME NEW c \in Clients, Start(c) PROVE SeedKnown'
  BY <1>6 DEF Start, SeedKnown, IdlePcs, TypeOK
<1>7. ASSUME NEW c \in Clients, RequestFile(c) PROVE SeedKnown'
  <2>1. wish[c] \in Seq(Files) /\ wish[c] # <<>>
    BY <1>7 DEF RequestFile, TypeOK
  <2>2. Seeded(Head(wish[c]))
    BY <2>1 DEF SeedKnown
  <2>3. \A i \in 1 .. Len(Tail(wish[c])) : Seeded(Tail(wish[c])[i])
    BY <2>1 DEF SeedKnown
  <2>4. \A d \in Clients : \A i \in 1 .. Len(wish'[d]) : Seeded(wish'[d][i])
    BY <1>7, <2>3 DEF RequestFile, SeedKnown, TypeOK
  <2>5. \A r \in requests' : r.type = 1 => Seeded(r.file)
    BY <1>7, <2>2 DEF RequestFile, SeedKnown, SwarmRequest
  <2> QED
    BY <1>7, <2>2, <2>4, <2>5 DEF RequestFile, SeedKnown, IdlePcs, TypeOK
<1>8. ASSUME NEW c \in Clients, DoneDownloading(c) PROVE SeedKnown'
  BY <1>8 DEF DoneDownloading, SeedKnown, DoneMessage, IdlePcs, TypeOK
<1>9. ASSUME NEW c \in Clients, ReceiveLists(c) PROVE SeedKnown'
  <2>1. lists[c] \in Seq(SeedPeer) /\ lists[c] # <<>>
        /\ oth[c].seed \in Seq(Clients)
    BY <1>9 DEF ReceiveLists, TypeOK, SeedPeer
  <2>2. Head(lists[c]).seed # <<>> /\ Head(lists[c]).seed \in Seq(Clients)
    <3>1. Head(lists[c]) = lists[c][1] /\ 1 \in 1 .. Len(lists[c])
          /\ Head(lists[c]) \in SeedPeer
      BY <2>1
    <3> QED
      BY <3>1 DEF SeedKnown, SeedPeer
  <2>3. oth'[c].seed # <<>>
    <3>1. oth'[c].seed = oth[c].seed \o Head(lists[c]).seed
      BY <1>9 DEF ReceiveLists, TypeOK
    <3> QED
      BY <2>1, <2>2, <3>1
  <2>4. \A i \in 1 .. Len(Tail(lists[c])) : Tail(lists[c])[i].seed # <<>>
    BY <2>1 DEF SeedKnown
  <2>5. \A d \in Clients : \A i \in 1 .. Len(lists'[d]) :
          lists'[d][i].seed # <<>>
    BY <1>9, <2>4 DEF ReceiveLists, SeedKnown, TypeOK
  <2>6. \A d \in Clients : pc'[d] \notin IdlePcs \cup {"lists"} =>
          oth'[d].seed # <<>>
    BY <1>9, <2>3 DEF ReceiveLists, SeedKnown, TypeOK
  <2> QED
    BY <1>9, <2>5, <2>6 DEF ReceiveLists, SeedKnown, IdlePcs, TypeOK
<1>10. ASSUME NEW c \in Clients, ReceiveHashes(c) PROVE SeedKnown'
  BY <1>10 DEF ReceiveHashes, SeedKnown, IdlePcs, TypeOK
<1>11. ASSUME NEW c \in Clients, Publish(c) PROVE SeedKnown'
  BY <1>11 DEF Publish, SeedKnown, IdlePcs, TypeOK
<1>12. ASSUME NEW c \in Clients, ReceiveAllow(c) PROVE SeedKnown'
  BY <1>12 DEF ReceiveAllow, SeedKnown, IdlePcs, TypeOK
<1>13. ASSUME NEW c \in Clients, Store(c) PROVE SeedKnown'
  <2>1. Seeded(file[c])
    BY <1>13 DEF Store, SeedKnown, IdlePcs
  <2>2. requests' = requests \/ requests' = requests \cup {SwarmRequest(c, file[c])}
    BY <1>13 DEF Store
  <2>3. \A r \in requests' : r.type = 1 => Seeded(r.file)
    BY <2>1, <2>2 DEF SeedKnown, SwarmRequest
  <2>4. /\ \A d \in Clients \ {c} : pc'[d] = pc[d]
        /\ pc[c] \notin IdlePcs \cup {"lists"}
        /\ UNCHANGED <<wish, file, lists, oth>>
    BY <1>13 DEF Store, TypeOK, IdlePcs
  <2> QED
    BY <2>3, <2>4 DEF SeedKnown
<1>14. ASSUME NEW c \in Clients, ReceiveUpdate(c) PROVE SeedKnown'
  <2>1. lists[c] \in Seq(SeedPeer) /\ lists[c] # <<>>
    BY <1>14 DEF ReceiveUpdate, TypeOK
  <2>2. Head(lists[c]).seed # <<>>
    <3>1. Head(lists[c]) = lists[c][1] /\ 1 \in 1 .. Len(lists[c])
      BY <2>1
    <3> QED
      BY <3>1 DEF SeedKnown
  <2>3. \A i \in 1 .. Len(Tail(lists[c])) : Tail(lists[c])[i].seed # <<>>
    BY <2>1 DEF SeedKnown
  <2>4. \A d \in Clients : \A i \in 1 .. Len(lists'[d]) :
          lists'[d][i].seed # <<>>
    BY <1>14, <2>3 DEF ReceiveUpdate, SeedKnown, TypeOK
  <2>5. \A d \in Clients : pc'[d] \notin IdlePcs \cup {"lists"} =>
          oth'[d].seed # <<>>
    BY <1>14, <2>2 DEF ReceiveUpdate, SeedKnown, IdlePcs, TypeOK
  <2> QED
    BY <1>14, <2>4, <2>5 DEF ReceiveUpdate, SeedKnown, IdlePcs, TypeOK
<1>15. ASSUME NEW c \in Clients, Check(c) PROVE SeedKnown'
  BY <1>15 DEF Check, SeedKnown, IdlePcs, TypeOK
<1>16. ASSUME NEW c \in Clients, WriteOutput(c) PROVE SeedKnown'
  BY <1>16 DEF WriteOutput, SeedKnown, IdlePcs, TypeOK
<1>17. ASSUME NEW p \in Clients, Upload(p) PROVE SeedKnown'
  <2>1. /\ UNCHANGED <<wish, file, lists, oth, requests>>
        /\ \A d \in Clients : pc'[d] # pc[d] =>
              pc[d] \notin IdlePcs \cup {"lists"}
    BY SMTT(30), <1>17 DEF Upload, UploadAccept, UploadScan, UploadReply, TypeOK, IdlePcs
  <2> QED
    BY <2>1 DEF SeedKnown
<1>18. ASSUME NEW p \in Clients, NEW c \in Clients, Ready(p, c)
       PROVE  SeedKnown'
  <2>1. /\ UNCHANGED <<wish, file, lists, oth, requests>>
        /\ \A d \in Clients : pc'[d] # pc[d] =>
              pc[d] \notin IdlePcs \cup {"lists"}
    BY <1>18 DEF Ready, ReadyAsk, ReadyRelease, TypeOK, IdlePcs
  <2> QED
    BY <2>1 DEF SeedKnown
<1>19. ASSUME NEW p \in Clients, ReadyStop(p) PROVE SeedKnown'
  BY <1>19 DEF ReadyStop, SeedKnown
<1>20. CASE UNCHANGED vars
  BY <1>20 DEF vars, SeedKnown
<1> QED
  BY <1>1, <1>2, <1>3, <1>4, <1>5, <1>6, <1>7, <1>8, <1>9, <1>10, <1>11,
     <1>12, <1>13, <1>14, <1>15, <1>16, <1>17, <1>18, <1>19, <1>20
     DEF Next, Serve, Download, Halt

(***************************************************************************)
(* Type correctness of the program: no step divides by the length of an    *)
(* empty list, indexes a map with a file that is no file, or answers a     *)
(* client that does not exist.  The strengthening is BaseInv.              *)
(***************************************************************************)
THEOREM BaseInvariant == Spec => []BaseInv
<1>1. Init => BaseInv
  BY InitBase
<1>2. BaseInv /\ [Next]_vars => BaseInv'
  BY NextType, NextLink, NextRegistration, NextSeedKnown DEF BaseInv
<1> QED
  BY <1>1, <1>2, PTL DEF Spec

\* Every variable has its type in every reachable state.
THEOREM TypeCorrect == Spec => []TypeOK
<1>1. BaseInv => TypeOK
  BY DEF BaseInv
<1> QED
  BY <1>1, BaseInvariant, PTL

-----------------------------------------------------------------------------
(* Upload slots *)

\* The clients that hold a slot of p are finitely many.
LEMMA HoldersFinite ==
  ASSUME NEW p \in Clients
  PROVE  IsFiniteSet(Holders(p)) /\ Cardinality(Holders(p)) \in Nat
<1>1. IsFiniteSet(Clients)
  BY FS_Interval, ParametersAssumption DEF Clients
<1>2. Holders(p) \subseteq Clients
  BY DEF Holders
<1> QED
  BY <1>1, <1>2, FS_Subset, FS_CardinalityType

\* A step that grants nothing, releases nothing and leaves the counters alone.
LEMMA GrantFrame ==
  ASSUME GrantAccounting, cur' = cur,
         \A c \in Clients : (Granted(c))' <=> Granted(c),
         \A c \in Clients : Granted(c) => peer'[c] = peer[c]
  PROVE  GrantAccounting'
<1>1. \A p \in Clients : (Holders(p))' = Holders(p)
  BY DEF Holders
<1> QED
  BY <1>1 DEF GrantAccounting

\* A step of download thread c that is neither a grant nor a release.
LEMMA DownloadGrants ==
  ASSUME TypeOK, NEW c \in Clients, Download(c)
  PROVE  /\ cur' = cur /\ peer' = peer
         /\ \A d \in Clients : (Granted(d))' <=> Granted(d)
<1> USE DEF slots, download
<1>1. cur' = cur /\ peer' = peer
  BY DEF Download, Start, RequestFile, DoneDownloading, ReceiveLists,
         ReceiveHashes, Publish, ReceiveAllow, Store, ReceiveUpdate, Check,
         WriteOutput
<1>2. \A d \in Clients \ {c} : pc'[d] = pc[d] /\ allow'[d] = allow[d]
  BY DEF Download, Start, RequestFile, DoneDownloading, ReceiveLists,
         ReceiveHashes, Publish, ReceiveAllow, Store, ReceiveUpdate, Check,
         WriteOutput, TypeOK
<1>3. (Granted(c))' <=> Granted(c)
  <2>1. CASE ReceiveAllow(c)
    BY <2>1 DEF ReceiveAllow, Granted, GrantedPcs, TypeOK
  <2>2. CASE Store(c) \/ ReceiveUpdate(c) \/ Check(c) \/ WriteOutput(c)
    BY <2>2 DEF Store, ReceiveUpdate, Check, WriteOutput, Granted, GrantedPcs,
                TypeOK
  <2>3. CASE Start(c) \/ RequestFile(c) \/ DoneDownloading(c)
             \/ ReceiveLists(c) \/ ReceiveHashes(c) \/ Publish(c)
    BY <2>3 DEF Start, RequestFile, DoneDownloading, ReceiveLists,
                ReceiveHashes, Publish, Granted, GrantedPcs, TypeOK
  <2> QED
    BY <2>1, <2>2, <2>3 DEF Download
<1> QED
  BY <1>1, <1>2, <1>3 DEF Granted

\* Every step keeps the counters equal to the numbers of holders.
LEMMA NextGrant ==
  BaseInv /\ GrantAccounting /\ [Next]_vars => GrantAccounting'
<1> SUFFICES ASSUME TypeOK, UploadLink, GrantAccounting, [Next]_vars
             PROVE  GrantAccounting'
  BY DEF BaseInv
<1> USE ParametersAssumption
    DEF tracker, download, store, upload, slots, LastToRegister, LastToFinish,
        KnownPeer,
        SlotFree, Released, Keys, Found, Complete, NextIndex
<1>1. ASSUME NEW c \in Clients, Serve(c) PROVE GrantAccounting'
  <2>1. UNCHANGED <<cur, pc, allow, peer>>
    BY <1>1 DEF Serve, TrackerRegister, TrackerInitDone, TrackerSwarm,
                TrackerDone
  <2> QED
    BY <2>1, GrantFrame DEF Granted
<1>2. ASSUME TrackerStop PROVE GrantAccounting'
  BY <1>2, GrantFrame DEF TrackerStop, Granted
<1>3. ASSUME NEW c \in Clients, Download(c) PROVE GrantAccounting'
  BY <1>3, DownloadGrants, GrantFrame
<1>4. ASSUME NEW p \in Clients, Upload(p) PROVE GrantAccounting'
  <2>1. UNCHANGED <<cur, allow, peer>>
    BY <1>4 DEF Upload, UploadAccept, UploadScan, UploadReply
  <2>2. \A d \in Clients :
          \/ pc'[d] = pc[d]
          \/ pc[d] \in {"fetch", "exists"} /\ pc'[d] \in {"exists", "store"}
    BY <1>4 DEF Upload, UploadAccept, UploadScan, UploadReply, TypeOK
  <2>3. \A d \in Clients : (Granted(d))' <=> Granted(d)
    BY <2>1, <2>2 DEF Granted, GrantedPcs
  <2> QED
    BY <2>1, <2>3, GrantFrame
<1>5. ASSUME NEW p \in Clients, NEW c \in Clients, ReadyAsk(p, c)
      PROVE  GrantAccounting'
  <2>1. c \notin Holders(p) /\ ~Granted(c)
    BY <1>5 DEF ReadyAsk, Holders, Granted, GrantedPcs
  <2>2. \A d \in Clients \ {c} :
          peer'[d] = peer[d] /\ ((Granted(d))' <=> Granted(d))
    BY <1>5 DEF ReadyAsk, Granted, TypeOK
  <2>3. peer'[c] = p /\ pc'[c] = "allow"
    BY <1>5 DEF ReadyAsk, TypeOK
  <2>4. CASE cur[p] + 1 <= MaxDownloaders
    <3>1. (Granted(c))'
      BY <1>5, <2>3, <2>4 DEF ReadyAsk, Granted, TypeOK
    <3>2. (Holders(p))' = Holders(p) \cup {c}
      BY <2>2, <2>3, <3>1 DEF Holders
    <3>3. \A q \in Clients \ {p} : (Holders(q))' = Holders(q)
      BY <2>1, <2>2, <2>3 DEF Holders
    <3>4. Cardinality(Holders(p) \cup {c}) = Cardinality(Holders(p)) + 1
      BY <2>1, HoldersFinite, FS_AddElement
    <3>5. cur'[p] = cur[p] + 1 /\ \A q \in Clients \ {p} : cur'[q] = cur[q]
      BY <1>5, <2>4 DEF ReadyAsk, TypeOK
    <3> QED
      BY <2>4, <3>2, <3>3, <3>4, <3>5 DEF GrantAccounting
  <2>5. CASE ~(cur[p] + 1 <= MaxDownloaders)
    <3>1. ~(Granted(c))'
      BY <1>5, <2>3, <2>5 DEF ReadyAsk, Granted, GrantedPcs, TypeOK
    <3>2. cur' = cur
      BY <1>5, <2>5 DEF ReadyAsk
    <3>3. \A d \in Clients : Granted(d) => peer'[d] = peer[d]
      BY <2>1, <2>2
    <3>4. \A d \in Clients : (Granted(d))' <=> Granted(d)
      BY <2>1, <2>2, <3>1
    <3> QED
      BY <3>2, <3>3, <3>4, GrantFrame
  <2> QED
    BY <2>4, <2>5
<1>6. ASSUME NEW p \in Clients, NEW c \in Clients, ReadyRelease(p, c)
      PROVE  GrantAccounting'
  <2>1. c \in Holders(p)
    BY <1>6 DEF ReadyRelease, Holders, Granted, GrantedPcs
  <2>2. ~(Granted(c))'
    BY <1>6 DEF ReadyRelease, Granted, GrantedPcs, TypeOK
  <2>3. peer' = peer
        /\ \A d \in Clients \ {c} : (Granted(d))' <=> Granted(d)
    BY <1>6 DEF ReadyRelease, Granted, TypeOK
  <2>4. (Holders(p))' = Holders(p) \ {c}
    BY <2>2, <2>3 DEF Holders
  <2>5. \A q \in Clients \ {p} : (Holders(q))' = Holders(q)
    <3>1. peer[c] = p
      BY <1>6 DEF ReadyRelease
    <3> QED
      BY <2>3, <3>1 DEF Holders
  <2>6. Cardinality(Holders(p) \ {c}) = Cardinality(Holders(p)) - 1
    BY <2>1, HoldersFinite, FS_RemoveElement
  <2>7. cur'[p] = cur[p] - 1 /\ \A q \in Clients \ {p} : cur'[q] = cur[q]
    BY <1>6 DEF ReadyRelease, TypeOK
  <2>8. cur[p] = Cardinality(Holders(p)) /\ cur[p] <= MaxDownloaders
        /\ cur[p] \in Int
    BY DEF GrantAccounting, TypeOK
  <2>9. cur'[p] = Cardinality((Holders(p))') /\ cur'[p] <= MaxDownloaders
    BY <2>4, <2>6, <2>7, <2>8
  <2> QED
    BY <2>5, <2>7, <2>9 DEF GrantAccounting
<1>7. ASSUME NEW p \in Clients, ReadyStop(p) PROVE GrantAccounting'
  BY <1>7, GrantFrame DEF ReadyStop, Granted
<1>8. CASE UNCHANGED vars
  BY <1>8, GrantFrame DEF vars, Granted
<1> QED
  BY <1>1, <1>2, <1>3, <1>4, <1>5, <1>6, <1>7, <1>8 DEF Next, Ready, Halt

(***************************************************************************)
(* For any number of ranks and slots, the ready queue's counter is the     *)
(* number of clients holding a slot, and never above max_downloaders.      *)
(* GrantAccounting is inductive relative to the types.                     *)
(***************************************************************************)
THEOREM GrantTheorem == Spec => []GrantAccounting
<1>1. Init => GrantAccounting
  <2> SUFFICES ASSUME Init PROVE GrantAccounting
    OBVIOUS
  <2>1. \A p \in Clients : Holders(p) = {}
    BY DEF Init, Holders, Granted, GrantedPcs
  <2>2. \A p \in Clients : cur[p] = 0 /\ 0 <= MaxDownloaders
    BY ParametersAssumption DEF Init
  <2>3. Cardinality({}) = 0
    BY FS_EmptySet
  <2> QED
    BY <2>1, <2>2, <2>3 DEF GrantAccounting
<1> QED
  BY <1>1, NextGrant, BaseInvariant, PTL DEF Spec

-----------------------------------------------------------------------------
(* 2. What the clients hold.                                               *)

(***************************************************************************)
(* The inductive invariant.                                                *)
(***************************************************************************)

\* A file in the making: requested, and its own_files entry not yet there.
EarlyPcs == {"lists", "hashes", "publish"}

\* Every wish of c is new to c in every respect.
FreshWish(c) ==
    \A i \in 1 .. Len(wish[c]) :
        /\ have[c][wish[c][i]] = {}
        /\ wish[c][i] \notin Own[c] \cup output[c]
        /\ wish[c][i] # file[c]
        /\ \A j \in 1 .. Len(wish[c]) : wish[c][i] = wish[c][j] => i = j

\* c holds segments only, none of a file in the making; while it downloads,
\* a prefix; and all of every file that it had or has written, to which the
\* file that it downloads does not belong.
HoldsPrefix(c) ==
    /\ \A f \in Files : have[c][f] \subseteq Segments(f)
    /\ \A f \in output[c] \cup Own[c] : have[c][f] = Segments(f)
    /\ pc[c] \notin IdlePcs => file[c] \notin output[c] \cup Own[c]
    /\ pc[c] \in EarlyPcs => have[c][file[c]] = {}
    /\ pc[c] = "publish" => seg[c] = 0
    /\ pc[c] \in DownloadingPcs =>
          seg[c] <= Segs[file[c]] /\ have[c][file[c]] = 0 .. seg[c] - 1
    /\ pc[c] = "output" => seg[c] = Segs[file[c]]

Held(c) == FreshWish(c) /\ HoldsPrefix(c)
HeldInv == \A c \in Clients : Held(c)

\* A client that deals with another one knows whom it deals with.
PeerSet ==
    \A c \in Clients : pc[c] \in {"allow"} \cup GrantedPcs => peer[c] \in Clients

SafeInv == BaseInv /\ PeerSet /\ HeldInv /\ HonestAnswer

-----------------------------------------------------------------------------
(* What a client holds *)

\* HeldInv says what PrefixHeld does, and more.
LEMMA HeldIsPrefix == HeldInv => PrefixHeld
BY DEF HeldInv, Held, HoldsPrefix, PrefixHeld

\* The initial state satisfies SafeInv.
LEMMA InitSafe == Init => SafeInv
<1> SUFFICES ASSUME Init PROVE SafeInv
  OBVIOUS
<1> USE ParametersAssumption
<1>1. \A c \in Clients : /\ pc[c] = "bcast" /\ upPc[c] = "idle"
                         /\ file[c] = NoFile /\ wish[c] = Wish[c]
                         /\ output[c] = {}
  BY DEF Init
<1>2. \A c \in Clients : \A f \in Files :
        have[c][f] = IF f \in Own[c] THEN Segments(f) ELSE {}
  BY DEF Init
<1>3. ASSUME NEW c \in Clients PROVE FreshWish(c)
  <2>1. Wish[c] \in Seq(Files)
    OBVIOUS
  <2>2. \A i \in 1 .. Len(Wish[c]) :
          /\ Wish[c][i] \notin Own[c]
          /\ \A j \in 1 .. Len(Wish[c]) : Wish[c][i] = Wish[c][j] => i = j
    BY InputAssumption
  <2>3. \A i \in 1 .. Len(Wish[c]) : Wish[c][i] \in Files
    BY <2>1
  <2>4. \A i \in 1 .. Len(Wish[c]) :
          have[c][Wish[c][i]] = {} /\ Wish[c][i] # NoFile
    BY <1>2, <2>2, <2>3
  <2> QED
    BY <1>1, <2>2, <2>4 DEF FreshWish
<1>4. ASSUME NEW c \in Clients PROVE HoldsPrefix(c)
  <2>1. Own[c] \subseteq Files
    OBVIOUS
  <2> QED
    BY <1>1, <1>2, <2>1
       DEF HoldsPrefix, EarlyPcs, IdlePcs, DownloadingPcs, GrantedPcs
<1>5. HonestAnswer /\ PeerSet
  BY <1>1 DEF HonestAnswer, PeerSet, GrantedPcs
<1> QED
  BY <1>3, <1>4, <1>5, InitBase DEF SafeInv, HeldInv, Held

\* A client whose files and segments a step leaves alone, and whose thread it
\* moves to no part of the code that says more about them.
LEMMA HeldFrame ==
  ASSUME NEW c \in Clients, Held(c),
         wish'[c] = wish[c], file'[c] = file[c], have'[c] = have[c],
         output'[c] = output[c], seg'[c] = seg[c],
         pc'[c] \in EarlyPcs => pc[c] \in EarlyPcs,
         pc'[c] \notin IdlePcs => pc[c] \notin IdlePcs,
         pc'[c] \in DownloadingPcs => pc[c] \in DownloadingPcs,
         pc'[c] = "publish" => seg[c] = 0,
         pc'[c] = "output" => seg[c] = Segs[file[c]]
  PROVE  Held(c)'
<1>1. FreshWish(c)'
  BY DEF Held, FreshWish
<1>2. HoldsPrefix(c)'
  BY DEF Held, HoldsPrefix
<1> QED
  BY <1>1, <1>2 DEF Held

\* A client that a step does not touch.
LEMMA HeldSame ==
  ASSUME NEW c \in Clients, Held(c),
         wish'[c] = wish[c], file'[c] = file[c], have'[c] = have[c],
         output'[c] = output[c], seg'[c] = seg[c], pc'[c] = pc[c]
  PROVE  Held(c)'
<1>1. FreshWish(c)'
  BY DEF Held, FreshWish
<1>2. HoldsPrefix(c)'
  BY DEF Held, HoldsPrefix
<1> QED
  BY <1>1, <1>2 DEF Held

\* A step of c's own that touches no other client's files or thread.
LEMMA HeldOne ==
  ASSUME HeldInv, NEW c \in Clients, Held(c)',
         \A d \in Clients \ {c} :
            /\ wish'[d] = wish[d] /\ file'[d] = file[d] /\ have'[d] = have[d]
            /\ output'[d] = output[d] /\ seg'[d] = seg[d] /\ pc'[d] = pc[d]
  PROVE  HeldInv'
<1>1. \A d \in Clients \ {c} : Held(d)'
  BY HeldSame DEF HeldInv
<1> QED
  BY <1>1 DEF HeldInv

\* The next wish becomes the file in the making.
LEMMA RequestHeld ==
  ASSUME TypeOK, NEW c \in Clients, Held(c), RequestFile(c)
  PROVE  Held(c)'
<1> USE ParametersAssumption
<1>1. /\ wish[c] \in Seq(Files) /\ wish[c] # <<>>
      /\ file'[c] = wish[c][1] /\ wish'[c] = Tail(wish[c])
      /\ pc'[c] = "lists"
      /\ UNCHANGED <<have, output, seg>>
  BY DEF RequestFile, TypeOK, store
<1>2. 1 \in 1 .. Len(wish[c])
      /\ \A i \in 1 .. Len(wish'[c]) : /\ wish'[c][i] = wish[c][i + 1]
                                      /\ i + 1 \in 1 .. Len(wish[c])
                                      /\ i + 1 # 1 /\ i \in Int
  BY <1>1
<1>3. \A i \in 1 .. Len(wish[c]) :
        /\ have[c][wish[c][i]] = {}
        /\ wish[c][i] \notin Own[c] \cup output[c]
        /\ \A j \in 1 .. Len(wish[c]) : wish[c][i] = wish[c][j] => i = j
  BY DEF Held, FreshWish
<1>4. ASSUME NEW i \in 1 .. Len(wish'[c])
      PROVE  /\ have'[c][wish'[c][i]] = {}
             /\ wish'[c][i] \notin Own[c] \cup output'[c]
             /\ wish'[c][i] # file'[c]
             /\ \A j \in 1 .. Len(wish'[c]) : wish'[c][i] = wish'[c][j] => i = j
  <2>1. wish'[c][i] = wish[c][i + 1] /\ i + 1 \in 1 .. Len(wish[c])
        /\ i + 1 # 1
    BY <1>2
  <2>2. /\ have[c][wish[c][i + 1]] = {}
        /\ wish[c][i + 1] \notin Own[c] \cup output[c]
        /\ wish[c][i + 1] # wish[c][1]
    BY <1>2, <1>3, <2>1
  <2>3. ASSUME NEW j \in 1 .. Len(wish'[c]), wish'[c][i] = wish'[c][j]
        PROVE  i = j
    <3>1. wish[c][i + 1] = wish[c][j + 1] /\ j + 1 \in 1 .. Len(wish[c])
      BY <1>2, <2>1, <2>3
    <3>2. i + 1 = j + 1
      BY <1>3, <2>1, <3>1
    <3>3. i \in Int /\ j \in Int
      BY <1>2
    <3> QED
      BY <3>2, <3>3
  <2> QED
    BY <1>1, <2>1, <2>2, <2>3
<1>5. FreshWish(c)'
  BY <1>4 DEF FreshWish
<1>6. /\ have[c][wish[c][1]] = {}
      /\ wish[c][1] \notin Own[c] \cup output[c]
  BY <1>2, <1>3
<1>7. "lists" \notin DownloadingPcs
  BY DEF DownloadingPcs, GrantedPcs
<1>8. HoldsPrefix(c)'
  BY <1>1, <1>6, <1>7 DEF Held, HoldsPrefix
<1> QED
  BY <1>5, <1>8 DEF Held

\* The entry is published empty, as the file's segments were before.
LEMMA PublishHeld ==
  ASSUME SafeInv, NEW c \in Clients, Publish(c)
  PROVE  have' = have /\ Held(c)'
<1> USE ParametersAssumption
<1>1. TypeOK /\ Held(c) /\ pc[c] = "publish"
  BY DEF SafeInv, BaseInv, HeldInv, Publish
<1>2. file[c] \in Files
  BY <1>1 DEF SafeInv, BaseInv, SeedKnown, Seeded, IdlePcs
<1>3. have[c][file[c]] = {} /\ seg[c] = 0
      /\ file[c] \notin output[c] \cup Own[c]
  BY <1>1 DEF Held, HoldsPrefix, EarlyPcs, IdlePcs
<1>4. have' = [have EXCEPT ![c][file[c]] = {}]
  BY DEF Publish
<1>5. have' = have
  BY <1>1, <1>2, <1>3, <1>4 DEF TypeOK
<1>6. /\ UNCHANGED <<wish, file, have, output, seg>>
      /\ pc'[c] = "ask"
  BY <1>1, <1>5 DEF Publish, TypeOK
<1>7. FreshWish(c)'
  BY <1>1, <1>6 DEF Held, FreshWish
<1>8. 0 <= Segs[file[c]] /\ 0 .. 0 - 1 = {}
  BY <1>2
<1>9. HoldsPrefix(c)'
  BY <1>1, <1>3, <1>6, <1>8 DEF Held, HoldsPrefix, EarlyPcs, IdlePcs
<1> QED
  BY <1>5, <1>7, <1>9 DEF Held

\* A segment that arrives is the next one, and its uploader has it.
LEMMA StoreNext ==
  ASSUME SafeInv, NEW c \in Clients, Store(c), exists[c]
  PROVE  /\ file[c] \in Files
         /\ peer[c] \in Clients \ {c}
         /\ seg[c] \in have[peer[c]][file[c]] \ have[c][file[c]]
         /\ seg[c] \in Segments(file[c])
         /\ have[c][file[c]] = 0 .. seg[c] - 1
<1>1. pc[c] = "store" /\ Held(c)
  BY DEF Store, SafeInv, HeldInv
<1>2. file[c] \in Files
  BY <1>1 DEF SafeInv, BaseInv, SeedKnown, Seeded, IdlePcs
<1>3. seg[c] \in Nat /\ have[c][file[c]] = 0 .. seg[c] - 1
  BY <1>1 DEF SafeInv, BaseInv, TypeOK, Held, HoldsPrefix, DownloadingPcs,
              GrantedPcs
<1>4. peer[c] # c /\ seg[c] \in have[peer[c]][file[c]]
  BY <1>1 DEF SafeInv, HonestAnswer
<1>5. peer[c] \in Clients
  BY <1>1 DEF SafeInv, PeerSet, GrantedPcs
<1>6. seg[c] \in Segments(file[c])
  BY <1>2, <1>4, <1>5 DEF SafeInv, HeldInv, Held, HoldsPrefix
<1> QED
  BY <1>2, <1>3, <1>4, <1>5, <1>6

\* Storing it makes the prefix one longer.
LEMMA StoreHeld ==
  ASSUME SafeInv, NEW c \in Clients, Store(c), exists[c]
  PROVE  /\ Held(c)'
         /\ \A d \in Clients \ {c} : have'[d] = have[d]
         /\ have' = [have EXCEPT ![c][file[c]] = @ \cup {seg[c]}]
<1> USE ParametersAssumption
<1> DEFINE f == file[c]
<1>1. /\ f \in Files /\ seg[c] \in Segments(f) /\ TypeOK /\ Held(c)
      /\ have[c][f] = 0 .. seg[c] - 1
  BY StoreNext DEF SafeInv, BaseInv, HeldInv
<1>2. /\ have' = [have EXCEPT ![c][f] = @ \cup {seg[c]}]
      /\ seg' = [seg EXCEPT ![c] = @ + 1]
      /\ UNCHANGED <<wish, file, output>>
      /\ pc[c] = "store" /\ pc'[c] \in {"update", "release"}
  BY <1>1 DEF Store, TypeOK, store
<1>3. /\ have'[c][f] = have[c][f] \cup {seg[c]}
      /\ \A g \in Files : g # f => have'[c][g] = have[c][g]
      /\ \A d \in Clients \ {c} : have'[d] = have[d]
      /\ seg'[c] = seg[c] + 1
  BY <1>1, <1>2 DEF TypeOK
<1>4. /\ seg[c] \in Nat /\ Segs[f] \in Nat /\ seg[c] < Segs[f]
      /\ f \notin output[c] \cup Own[c]
  BY <1>1, <1>2 DEF Segments, TypeOK, Held, HoldsPrefix, IdlePcs
<1>5. FreshWish(c)'
  <2>1. \A i \in 1 .. Len(wish[c]) : wish[c][i] \in Files
    BY DEF SafeInv, BaseInv, SeedKnown, Seeded
  <2>2. \A i \in 1 .. Len(wish[c]) : have'[c][wish[c][i]] = have[c][wish[c][i]]
    BY <1>1, <1>3, <2>1 DEF Held, FreshWish
  <2> QED
    BY <1>1, <1>2, <2>2 DEF Held, FreshWish
<1>6. HoldsPrefix(c)'
  <2>1. output[c] \cup Own[c] \subseteq Files
    BY <1>1 DEF TypeOK
  <2>2. ASSUME NEW g \in Files PROVE have'[c][g] \subseteq Segments(g)
    <3>1. have[c][g] \subseteq Segments(g)
      BY <1>1 DEF Held, HoldsPrefix
    <3>2. CASE g = f
      BY ONLY <1>1, <1>3, <3>1, <3>2
    <3>3. CASE g # f
      BY ONLY <1>3, <3>1, <3>3
    <3> QED
      BY <3>2, <3>3
  <2>3. ASSUME NEW g \in output[c] \cup Own[c] PROVE have'[c][g] = Segments(g)
    <3>1. have[c][g] = Segments(g)
      BY <1>1 DEF Held, HoldsPrefix
    <3>2. g \in Files /\ g # f
      BY <1>4, <2>1
    <3> QED
      BY <1>3, <3>1, <3>2
  <2>4. have'[c][f] = 0 .. (seg[c] + 1) - 1
    BY <1>1, <1>3, <1>4
  <2>5. seg[c] + 1 <= Segs[f]
    BY <1>4
  <2> QED
    BY <1>2, <1>3, <1>4, <2>2, <2>3, <2>4, <2>5 DEF HoldsPrefix, EarlyPcs
<1> QED
  BY <1>2, <1>3, <1>5, <1>6 DEF Held

\* The file that is written out is complete.
LEMMA OutputHeld ==
  ASSUME SafeInv, NEW c \in Clients, WriteOutput(c)
  PROVE  /\ Held(c)'
         /\ file[c] \in Files /\ file[c] \notin Own[c] \cup output[c]
         /\ have[c][file[c]] = Segments(file[c])
<1> USE ParametersAssumption
<1>1. TypeOK /\ Held(c) /\ pc[c] = "output"
  BY DEF SafeInv, BaseInv, HeldInv, WriteOutput
<1>2. file[c] \in Files
  BY <1>1 DEF SafeInv, BaseInv, SeedKnown, Seeded, IdlePcs
<1>3. /\ have[c][file[c]] = Segments(file[c])
      /\ file[c] \notin output[c] \cup Own[c]
  BY <1>1 DEF Held, HoldsPrefix, DownloadingPcs, IdlePcs, Segments
<1>4. /\ UNCHANGED <<wish, file, have, seg>>
      /\ pc'[c] = "head" /\ output'[c] = output[c] \cup {file[c]}
  BY <1>1 DEF WriteOutput, TypeOK
<1>5. FreshWish(c)'
  BY <1>1, <1>4 DEF Held, FreshWish
<1>6. HoldsPrefix(c)'
  BY <1>1, <1>3, <1>4
     DEF Held, HoldsPrefix, EarlyPcs, IdlePcs, DownloadingPcs, GrantedPcs
<1> QED
  BY <1>2, <1>3, <1>5, <1>6 DEF Held

\* Every step keeps HeldInv.
LEMMA NextHeld == SafeInv /\ [Next]_vars => HeldInv'
<1> SUFFICES ASSUME SafeInv, [Next]_vars PROVE HeldInv'
  OBVIOUS
<1> USE DEF tracker, download, store, upload, slots
<1>1. HeldInv /\ TypeOK
  BY DEF SafeInv, BaseInv
<1>2. ASSUME UNCHANGED <<wish, file, have, output, seg>>,
             \A d \in Clients :
                \/ pc'[d] = pc[d]
                \/ /\ pc[d] \in DownloadingPcs
                   /\ pc'[d] \in DownloadingPcs \ {"output"}
      PROVE  HeldInv'
  <2> SUFFICES ASSUME NEW d \in Clients PROVE Held(d)'
    BY DEF HeldInv
  <2>1. CASE pc'[d] = pc[d]
    BY <1>1, <1>2, <2>1, HeldSame DEF HeldInv
  <2>2. CASE pc'[d] # pc[d]
    BY <1>1, <1>2, <2>2, HeldFrame
       DEF HeldInv, DownloadingPcs, GrantedPcs, EarlyPcs, IdlePcs
  <2> QED
    BY <2>1, <2>2
<1>3. ASSUME NEW c \in Clients, Serve(c) PROVE HeldInv'
  BY <1>2, <1>3
     DEF Serve, TrackerRegister, TrackerInitDone, TrackerSwarm, TrackerDone
<1>4. ASSUME TrackerStop PROVE HeldInv'
  BY <1>2, <1>4 DEF TrackerStop
<1>5. ASSUME NEW c \in Clients,
             Start(c) \/ DoneDownloading(c) \/ ReceiveLists(c)
               \/ ReceiveAllow(c) \/ ReceiveUpdate(c) \/ Check(c)
      PROVE  HeldInv'
  <2>1. /\ UNCHANGED <<wish, file, have, output, seg>>
        /\ \A d \in Clients \ {c} : pc'[d] = pc[d]
        /\ \/ pc'[c] \in {"head", "exit"}
           \/ pc[c] = "lists" /\ pc'[c] = "hashes"
           \/ pc[c] = "allow" /\ pc'[c] \in {"fetch", "check"}
           \/ pc[c] = "update" /\ pc'[c] = "release"
           \/ pc[c] = "check" /\ pc'[c] = "ask"
           \/ pc[c] = "check" /\ pc'[c] = "output" /\ seg[c] = Segs[file[c]]
    BY <1>1, <1>5 DEF Start, DoneDownloading, ReceiveLists, ReceiveAllow,
                      ReceiveUpdate, Check, Complete, TypeOK
  <2>2. Held(c)'
    BY <1>1, <2>1, HeldFrame
       DEF HeldInv, EarlyPcs, IdlePcs, DownloadingPcs, GrantedPcs
  <2> QED
    BY <1>1, <2>1, <2>2, HeldOne
<1>6. ASSUME NEW c \in Clients, RequestFile(c) PROVE HeldInv'
  <2>1. /\ UNCHANGED <<have, output, seg>>
        /\ \A d \in Clients \ {c} :
              wish'[d] = wish[d] /\ file'[d] = file[d] /\ pc'[d] = pc[d]
    BY <1>1, <1>6 DEF RequestFile, TypeOK
  <2> QED
    BY <1>1, <1>6, <2>1, RequestHeld, HeldOne DEF HeldInv
<1>7. ASSUME NEW c \in Clients, ReceiveHashes(c) PROVE HeldInv'
  <2>1. /\ UNCHANGED <<wish, file, have, output>>
        /\ pc[c] = "hashes" /\ pc'[c] = "publish" /\ seg'[c] = 0
        /\ \A d \in Clients \ {c} : pc'[d] = pc[d] /\ seg'[d] = seg[d]
    BY <1>1, <1>7 DEF ReceiveHashes, TypeOK
  <2>2. FreshWish(c)'
    BY <1>1, <2>1 DEF HeldInv, Held, FreshWish
  <2>3. HoldsPrefix(c)'
    BY <1>1, <2>1 DEF HeldInv, Held, HoldsPrefix, EarlyPcs, IdlePcs,
                      DownloadingPcs, GrantedPcs
  <2> QED
    BY <1>1, <2>1, <2>2, <2>3, HeldOne DEF Held
<1>8. ASSUME NEW c \in Clients, Publish(c) PROVE HeldInv'
  <2>1. /\ UNCHANGED <<wish, file, have, output, seg>>
        /\ \A d \in Clients \ {c} : pc'[d] = pc[d]
    BY <1>1, <1>8, PublishHeld DEF Publish, TypeOK
  <2> QED
    BY <1>1, <1>8, <2>1, PublishHeld, HeldOne
<1>9. ASSUME NEW c \in Clients, Store(c) PROVE HeldInv'
  <2>1. /\ UNCHANGED <<wish, file, output>>
        /\ pc[c] = "store" /\ pc'[c] \in {"update", "release"}
        /\ \A d \in Clients \ {c} : pc'[d] = pc[d]
    BY <1>1, <1>9 DEF Store, TypeOK
  <2>2. CASE exists[c]
    <3>1. \A d \in Clients \ {c} : seg'[d] = seg[d]
      BY <1>1, <1>9, <2>2 DEF Store, TypeOK
    <3> QED
      BY <1>1, <1>9, <2>1, <2>2, <3>1, StoreHeld, HeldOne
  <2>3. CASE ~exists[c]
    BY <1>2, <1>9, <2>1, <2>3 DEF Store, DownloadingPcs, GrantedPcs
  <2> QED
    BY <2>2, <2>3
<1>10. ASSUME NEW c \in Clients, WriteOutput(c) PROVE HeldInv'
  <2>1. /\ UNCHANGED <<wish, file, have, seg>>
        /\ \A d \in Clients \ {c} : pc'[d] = pc[d] /\ output'[d] = output[d]
    BY <1>1, <1>10 DEF WriteOutput, TypeOK
  <2> QED
    BY <1>1, <1>10, <2>1, OutputHeld, HeldOne
<1>11. ASSUME NEW p \in Clients, Upload(p) PROVE HeldInv'
  <2>1. /\ UNCHANGED <<wish, file, have, output, seg>>
        /\ \A d \in Clients :
              \/ pc'[d] = pc[d]
              \/ /\ pc[d] \in {"fetch", "exists"}
                 /\ pc'[d] \in {"exists", "store"}
    BY <1>1, <1>11 DEF Upload, UploadAccept, UploadScan, UploadReply, TypeOK
  <2> QED
    BY <1>2, <2>1 DEF DownloadingPcs, GrantedPcs
<1>12. ASSUME NEW p \in Clients, NEW c \in Clients, Ready(p, c) PROVE HeldInv'
  <2>1. /\ UNCHANGED <<wish, file, have, output, seg>>
        /\ \A d \in Clients :
              \/ pc'[d] = pc[d]
              \/ /\ pc[d] \in {"ask", "release"}
                 /\ pc'[d] \in {"allow", "check"}
    BY <1>1, <1>12 DEF Ready, ReadyAsk, ReadyRelease, TypeOK
  <2> QED
    BY <1>2, <2>1 DEF DownloadingPcs, GrantedPcs
<1>13. ASSUME NEW p \in Clients, ReadyStop(p) PROVE HeldInv'
  BY <1>2, <1>13 DEF ReadyStop
<1>14. CASE UNCHANGED vars
  BY <1>2, <1>14 DEF vars
<1> QED
  BY <1>3, <1>4, <1>5, <1>6, <1>7, <1>8, <1>9, <1>10, <1>11, <1>12, <1>13,
     <1>14
     DEF Next, Download, Halt

-----------------------------------------------------------------------------
(* What an uploader says *)

\* Every step keeps PeerSet.
LEMMA NextPeerSet == TypeOK /\ PeerSet /\ [Next]_vars => PeerSet'
<1> SUFFICES ASSUME TypeOK, PeerSet, [Next]_vars PROVE PeerSet'
  OBVIOUS
<1> USE DEF tracker, download, store, upload, slots
<1>1. ASSUME NEW c \in Clients, Serve(c) PROVE PeerSet'
  BY <1>1 DEF Serve, TrackerRegister, TrackerInitDone, TrackerSwarm,
              TrackerDone, PeerSet
<1>2. ASSUME TrackerStop PROVE PeerSet'
  BY <1>2 DEF TrackerStop, PeerSet
<1>3. ASSUME NEW c \in Clients, Download(c) PROVE PeerSet'
  <2>1. /\ peer' = peer
        /\ \A d \in Clients \ {c} : pc'[d] = pc[d]
        /\ pc'[c] \in {"allow"} \cup GrantedPcs =>
              pc[c] \in {"allow"} \cup GrantedPcs
    BY <1>3 DEF Download, Start, RequestFile, DoneDownloading, ReceiveLists,
                ReceiveHashes, Publish, ReceiveAllow, Store, ReceiveUpdate,
                Check, WriteOutput, TypeOK, GrantedPcs
  <2> QED
    BY <2>1 DEF PeerSet
<1>4. ASSUME NEW p \in Clients, Upload(p) PROVE PeerSet'
  <2>1. /\ peer' = peer
        /\ \A d \in Clients :
              pc'[d] = pc[d] \/ pc[d] \in {"fetch", "exists"}
    BY <1>4 DEF Upload, UploadAccept, UploadScan, UploadReply, TypeOK
  <2> QED
    BY <2>1 DEF PeerSet, GrantedPcs
<1>5. ASSUME NEW p \in Clients, NEW c \in Clients, Ready(p, c) PROVE PeerSet'
  <2>1. /\ \A d \in Clients \ {c} : pc'[d] = pc[d] /\ peer'[d] = peer[d]
        /\ peer'[c] = p \/ pc'[c] = "check"
    BY <1>5 DEF Ready, ReadyAsk, ReadyRelease, TypeOK
  <2> QED
    BY <2>1 DEF PeerSet, GrantedPcs
<1>6. ASSUME NEW p \in Clients, ReadyStop(p) PROVE PeerSet'
  BY <1>6 DEF ReadyStop, PeerSet
<1>7. CASE UNCHANGED vars
  BY <1>7 DEF vars, PeerSet
<1> QED
  BY <1>1, <1>2, <1>3, <1>4, <1>5, <1>6, <1>7 DEF Next, Halt

\* No client loses a segment.
LEMMA HaveGrows ==
  SafeInv /\ [Next]_vars =>
     \A d \in Clients : \A f \in Files : have[d][f] \subseteq have'[d][f]
<1> SUFFICES ASSUME SafeInv, [Next]_vars
             PROVE  \A d \in Clients : \A f \in Files :
                       have[d][f] \subseteq have'[d][f]
  OBVIOUS
<1> USE DEF tracker, download, store, upload, slots
<1>1. TypeOK
  BY DEF SafeInv, BaseInv
<1>2. CASE have' = have
  BY <1>2
<1>3. ASSUME NEW c \in Clients, Store(c), exists[c]
      PROVE  \A d \in Clients : \A f \in Files : have[d][f] \subseteq have'[d][f]
  <2>1. /\ file[c] \in Files
        /\ have' = [have EXCEPT ![c][file[c]] = @ \cup {seg[c]}]
    BY <1>3, StoreNext, StoreHeld
  <2> QED
    BY <1>1, <2>1 DEF TypeOK
<1>4. ASSUME NEW c \in Clients, Store(c), ~exists[c] PROVE have' = have
  BY <1>4 DEF Store
<1>5. ASSUME NEW c \in Clients, Publish(c) PROVE have' = have
  BY <1>5, PublishHeld
<1>6. ASSUME NEW c \in Clients, Serve(c) PROVE have' = have
  BY <1>6 DEF Serve, TrackerRegister, TrackerInitDone, TrackerSwarm, TrackerDone
<1>7. ASSUME NEW c \in Clients,
             Start(c) \/ RequestFile(c) \/ DoneDownloading(c)
               \/ ReceiveLists(c) \/ ReceiveHashes(c) \/ ReceiveAllow(c)
               \/ ReceiveUpdate(c) \/ Check(c) \/ WriteOutput(c)
               \/ Upload(c) \/ ReadyStop(c)
      PROVE  have' = have
  BY <1>7 DEF Start, RequestFile, DoneDownloading, ReceiveLists, ReceiveHashes,
              ReceiveAllow, ReceiveUpdate, Check, WriteOutput, Upload,
              UploadAccept, UploadScan, UploadReply, ReadyStop
<1>8. ASSUME NEW p \in Clients, NEW c \in Clients, Ready(p, c) PROVE have' = have
  BY <1>8 DEF Ready, ReadyAsk, ReadyRelease
<1>9. TrackerStop \/ UNCHANGED vars => have' = have
  BY DEF TrackerStop, vars
<1> QED
  BY <1>2, <1>3, <1>4, <1>5, <1>6, <1>7, <1>8, <1>9 DEF Next, Download, Halt

\* A step that leaves the upload threads alone, and also the clients that wait
\* for an answer or have just got one.
LEMMA HonestFrame ==
  ASSUME SafeInv,
         \A d \in Clients : \A f \in Files : have[d][f] \subseteq have'[d][f],
         \A p \in Clients : upPc'[p] = "reply" =>
            /\ upPc[p] = "reply"
            /\ upSrc'[p] = upSrc[p] /\ answer'[p] = answer[p],
         \A d \in Clients : pc[d] = "exists" =>
            seg'[d] = seg[d] /\ file'[d] = file[d],
         \A d \in Clients : pc'[d] = "store" =>
            /\ pc[d] = "store" /\ exists'[d] = exists[d]
            /\ peer'[d] = peer[d] /\ seg'[d] = seg[d] /\ file'[d] = file[d]
  PROVE  HonestAnswer'
<1>1. \A d \in Clients : pc[d] \in {"exists", "store"} => file[d] \in Files
  BY DEF SafeInv, BaseInv, SeedKnown, Seeded, IdlePcs
<1>2. ASSUME NEW p \in Clients, upPc'[p] = "reply", answer'[p]
      PROVE  seg'[upSrc'[p]] \in have'[p][file'[upSrc'[p]]]
  <2>1. /\ upSrc[p] \in Clients /\ pc[upSrc[p]] = "exists"
        /\ seg[upSrc[p]] \in have[p][file[upSrc[p]]]
    BY <1>2 DEF SafeInv, BaseInv, UploadLink, HonestAnswer
  <2> QED
    BY <1>1, <1>2, <2>1
<1>3. ASSUME NEW d \in Clients, pc'[d] = "store", exists'[d]
      PROVE  peer'[d] # d /\ seg'[d] \in have'[peer'[d]][file'[d]]
  <2>1. /\ pc[d] = "store" /\ exists[d] /\ file[d] \in Files
        /\ peer[d] # d /\ seg[d] \in have[peer[d]][file[d]]
    BY <1>1, <1>3 DEF SafeInv, HonestAnswer
  <2>2. peer[d] \in Clients
    BY <2>1 DEF SafeInv, PeerSet, GrantedPcs
  <2> QED
    BY <1>3, <2>1, <2>2
<1> QED
  BY <1>2, <1>3 DEF HonestAnswer

\* Every step keeps HonestAnswer.
LEMMA NextHonest == SafeInv /\ [Next]_vars => HonestAnswer'
<1> SUFFICES ASSUME SafeInv, [Next]_vars PROVE HonestAnswer'
  OBVIOUS
<1> USE DEF tracker, download, store, upload, slots
<1>1. TypeOK /\ UploadLink /\ HonestAnswer
      /\ \A d \in Clients : \A f \in Files : have[d][f] \subseteq have'[d][f]
  BY HaveGrows DEF SafeInv, BaseInv
<1>2. ASSUME NEW c \in Clients, Serve(c) PROVE HonestAnswer'
  BY <1>1, <1>2, HonestFrame
     DEF Serve, TrackerRegister, TrackerInitDone, TrackerSwarm, TrackerDone
<1>3. ASSUME TrackerStop PROVE HonestAnswer'
  BY <1>1, <1>3, HonestFrame DEF TrackerStop, TypeOK
<1>4. ASSUME NEW c \in Clients, Download(c) PROVE HonestAnswer'
  <2>1. /\ UNCHANGED <<peer, exists, upPc, upSrc, answer>>
        /\ \A d \in Clients \ {c} :
              pc'[d] = pc[d] /\ seg'[d] = seg[d] /\ file'[d] = file[d]
        /\ pc[c] # "exists" /\ pc'[c] # "store"
    BY <1>1, <1>4
       DEF Download, Start, RequestFile, DoneDownloading, ReceiveLists,
           ReceiveHashes, Publish, ReceiveAllow, Store, ReceiveUpdate, Check,
           WriteOutput, TypeOK
  <2> QED
    BY <1>1, <2>1, HonestFrame
<1>5. ASSUME NEW p \in Clients, NEW c \in Clients, UploadAccept(p, c)
      PROVE  HonestAnswer'
  BY <1>1, <1>5, HonestFrame DEF UploadAccept, TypeOK
<1>6. ASSUME NEW p \in Clients, UploadScan(p) PROVE HonestAnswer'
  <2>1. /\ UNCHANGED <<pc, seg, file, have, upSrc, exists, peer>>
        /\ upPc[p] = "scan"
        /\ answer'[p] => seg[upSrc[p]] \in have[p][file[upSrc[p]]]
        /\ \A q \in Clients \ {p} : upPc'[q] = upPc[q] /\ answer'[q] = answer[q]
    BY <1>1, <1>6 DEF UploadScan, Found, TypeOK
  <2> QED
    BY <1>1, <2>1 DEF HonestAnswer
<1>7. ASSUME NEW p \in Clients, UploadReply(p) PROVE HonestAnswer'
  <2> DEFINE c == upSrc[p]
  <2>1. c \in Clients /\ pc[c] = "exists" /\ peer[c] = p /\ upPc[p] = "reply"
    BY <1>1, <1>7 DEF UploadReply, UploadLink
  <2>2. /\ UNCHANGED <<seg, file, have, upSrc, answer, peer>>
        /\ upPc'[p] = "idle" /\ exists'[c] = answer[p]
        /\ \A q \in Clients \ {p} : upPc'[q] = upPc[q]
        /\ \A d \in Clients \ {c} : pc'[d] = pc[d] /\ exists'[d] = exists[d]
    BY <1>1, <1>7, <2>1 DEF UploadReply, TypeOK
  <2>3. ASSUME answer[p]
        PROVE  p # c /\ seg[c] \in have[p][file[c]]
    <3>1. seg[c] \in have[p][file[c]]
      BY <1>1, <2>1, <2>3 DEF HonestAnswer
    <3>2. have[c][file[c]] = 0 .. seg[c] - 1 /\ seg[c] \in Nat
      BY <1>1, <2>1 DEF SafeInv, HeldInv, Held, HoldsPrefix, DownloadingPcs,
                        GrantedPcs, TypeOK
    <3>3. seg[c] \notin have[c][file[c]]
      BY <3>2
    <3> QED
      BY <3>1, <3>3
  <2> HIDE DEF c
  <2> QED
    BY <1>1, <2>1, <2>2, <2>3 DEF HonestAnswer
<1>8. ASSUME NEW p \in Clients, NEW c \in Clients, Ready(p, c)
      PROVE  HonestAnswer'
  <2>1. /\ UNCHANGED <<seg, file, have, exists, upPc, upSrc, answer>>
        /\ pc[c] \in {"ask", "release"} /\ pc'[c] \in {"allow", "check"}
        /\ \A d \in Clients \ {c} : pc'[d] = pc[d] /\ peer'[d] = peer[d]
    BY <1>1, <1>8 DEF Ready, ReadyAsk, ReadyRelease, TypeOK
  <2> QED
    BY <1>1, <2>1, HonestFrame
<1>9. ASSUME NEW p \in Clients, ReadyStop(p) PROVE HonestAnswer'
  BY <1>1, <1>9, HonestFrame DEF ReadyStop
<1>10. CASE UNCHANGED vars
  BY <1>1, <1>10, HonestFrame DEF vars
<1> QED
  BY <1>2, <1>3, <1>4, <1>5, <1>6, <1>7, <1>8, <1>9, <1>10
     DEF Next, Upload, Halt

\* SafeInv is an invariant.
THEOREM SafeInvariant == Spec => []SafeInv
<1>1. SafeInv /\ [Next]_vars => SafeInv'
  <2> SUFFICES ASSUME SafeInv, [Next]_vars PROVE SafeInv'
    OBVIOUS
  <2>1. BaseInv'
    BY NextType, NextLink, NextRegistration, NextSeedKnown DEF SafeInv, BaseInv
  <2>2. PeerSet' /\ HeldInv' /\ HonestAnswer'
    BY NextPeerSet, NextHeld, NextHonest DEF SafeInv, BaseInv
  <2> QED
    BY <2>1, <2>2 DEF SafeInv
<1> QED
  BY <1>1, InitSafe, PTL DEF Spec

(***************************************************************************)
(* What a client holds of its file is the prefix that its counter says,    *)
(* and what it has written is complete, whatever the other ranks do.       *)
(***************************************************************************)
THEOREM PrefixTheorem == Spec => []PrefixHeld
<1>1. SafeInv => PrefixHeld
  BY HeldIsPrefix DEF SafeInv
<1> QED
  BY <1>1, SafeInvariant, PTL

(***************************************************************************)
(* A positive answer of an upload thread is true, also when the client     *)
(* acts on it, and comes from another client.                              *)
(***************************************************************************)
THEOREM HonestTheorem == Spec => []HonestAnswer
<1>1. SafeInv => HonestAnswer
  BY DEF SafeInv
<1> QED
  BY <1>1, SafeInvariant, PTL

-----------------------------------------------------------------------------
(* The program implements the swarm *)

\* A step of the program is a step of the swarm, or none.
LEMMA StepRefinement ==
  SafeInv /\ [Next]_vars => [Abstract!Next]_(Abstract!vars)
<1> SUFFICES ASSUME SafeInv, [Next]_vars
             PROVE  [Abstract!Next]_(Abstract!vars)
  OBVIOUS
<1> USE DEF tracker, download, store, upload, slots, Abstract!vars
<1>1. TypeOK
  BY DEF SafeInv, BaseInv
<1>2. CASE UNCHANGED <<have, output, peer>>
  BY <1>2
<1>3. ASSUME NEW c \in Clients, Serve(c) PROVE UNCHANGED <<have, output, peer>>
  BY <1>3 DEF Serve, TrackerRegister, TrackerInitDone, TrackerSwarm, TrackerDone
<1>4. ASSUME NEW c \in Clients,
             Start(c) \/ RequestFile(c) \/ DoneDownloading(c)
               \/ ReceiveLists(c) \/ ReceiveHashes(c) \/ ReceiveAllow(c)
               \/ ReceiveUpdate(c) \/ Check(c) \/ Upload(c) \/ ReadyStop(c)
      PROVE  UNCHANGED <<have, output, peer>>
  BY <1>4 DEF Start, RequestFile, DoneDownloading, ReceiveLists, ReceiveHashes,
              ReceiveAllow, ReceiveUpdate, Check, Upload, UploadAccept,
              UploadScan, UploadReply, ReadyStop
<1>5. ASSUME NEW c \in Clients, Publish(c)
      PROVE  UNCHANGED <<have, output, peer>>
  BY <1>5, PublishHeld DEF Publish
<1>6. ASSUME NEW c \in Clients, Store(c)
      PROVE  UNCHANGED <<have, output, peer>> \/ Abstract!Next
  <2>1. CASE exists[c]
    <3>1. /\ file[c] \in Files /\ seg[c] \in Segments(file[c])
          /\ peer[c] \in Clients \ {c}
          /\ seg[c] \in have[peer[c]][file[c]] \ have[c][file[c]]
          /\ have' = [have EXCEPT ![c][file[c]] = @ \cup {seg[c]}]
      BY <1>6, <2>1, StoreNext, StoreHeld
    <3>2. UNCHANGED <<output, peer>>
      BY <1>6 DEF Store
    <3>3. Abstract!Copy(c, file[c], seg[c])
      BY <3>1, <3>2 DEF Abstract!Copy
    <3> QED
      BY <3>1, <3>3 DEF Abstract!Next, Abstract!Segments, Segments
  <2>2. CASE ~exists[c]
    BY <1>6, <2>2 DEF Store
  <2> QED
    BY <2>1, <2>2
<1>7. ASSUME NEW c \in Clients, WriteOutput(c) PROVE Abstract!Next
  <2>1. /\ file[c] \in Files /\ file[c] \notin Own[c] \cup output[c]
        /\ have[c][file[c]] = Segments(file[c])
    BY <1>7, OutputHeld
  <2>2. Abstract!WriteOut(c, file[c])
    BY <1>7, <2>1
       DEF WriteOutput, Abstract!WriteOut, Abstract!Segments, Segments
  <2> QED
    BY <2>1, <2>2 DEF Abstract!Next
<1>8. ASSUME NEW p \in Clients, NEW c \in Clients, Ready(p, c)
      PROVE  UNCHANGED <<have, output, peer>> \/ Abstract!Next
  <2>1. CASE ReadyAsk(p, c)
    <3>1. Abstract!TurnTo(c, p)
      BY <2>1 DEF ReadyAsk, Abstract!TurnTo
    <3> QED
      BY <3>1 DEF Abstract!Next
  <2>2. CASE ReadyRelease(p, c)
    BY <2>2 DEF ReadyRelease
  <2> QED
    BY <1>8, <2>1, <2>2 DEF Ready
<1>9. TrackerStop \/ UNCHANGED vars => UNCHANGED <<have, output, peer>>
  BY DEF TrackerStop, vars
<1> QED
  BY <1>2, <1>3, <1>4, <1>5, <1>6, <1>7, <1>8, <1>9 DEF Next, Download, Halt

(***************************************************************************)
(* For any number of ranks and files, and any inputs that satisfy          *)
(* InputAssumption: the program implements the swarm.                      *)
(***************************************************************************)
THEOREM RefinementTheorem == Spec => Refinement
<1>1. Init => Abstract!Init
  BY DEF Init, Abstract!Init, Abstract!Segments, Segments
<1>2. Spec => [][Abstract!Next]_(Abstract!vars)
  BY StepRefinement, SafeInvariant, PTL DEF Spec
<1> QED
  BY <1>1, <1>2, PTL DEF Spec, Refinement, Abstract!Spec

-----------------------------------------------------------------------------
(* 3. The protocol.                                                        *)

(***************************************************************************)
(* The inductive invariant, on top of SafeInv.                             *)
(***************************************************************************)

\* The tracker has d in its lists of file f.
Known(d, f) == IsIn(d, swarm[f].seed) \/ IsIn(d, swarm[f].peer)

\* A copy of the lists of f that was right when it was made; nobody is on it twice.
Copy(s, f) ==
    /\ \A i \in 1 .. Len(s.seed) : IsIn(s.seed[i], swarm[f].seed)
    /\ \A i \in 1 .. Len(s.peer) : IsIn(s.peer[i], swarm[f].peer)
    /\ \A i, j \in 1 .. Len(s.seed) : s.seed[i] = s.seed[j] => i = j
    /\ \A i, j \in 1 .. Len(s.peer) : s.peer[i] = s.peer[j] => i = j
    /\ \A i \in 1 .. Len(s.seed) : \A j \in 1 .. Len(s.peer) : s.seed[i] # s.peer[j]

\* What c has asked the tracker and what is on its way to it; the tracker has
\* c as a peer of its file from the first request on, and of no file to come.
ReplyOf(c) ==
    /\ Asking(c) # {} =>
          /\ Asking(c) = {SwarmRequest(c, file[c])} /\ pc[c] \in {"lists", "update"}
          /\ lists[c] = <<>> /\ hashes[c] = <<>>
    /\ Asking(c) = {} =>
          /\ pc[c] \in {"lists", "update"} => Len(lists[c]) = 1
          /\ pc[c] \notin {"lists", "update"} => lists[c] = <<>>
          /\ pc[c] \in {"lists", "hashes"} => hashes[c] = <<file[c]>>
          /\ pc[c] \notin {"lists", "hashes"} => hashes[c] = <<>>
    /\ pc[c] \notin IdlePcs =>
          (IsIn(c, swarm[file[c]].peer) <=> ~(pc[c] = "lists" /\ Asking(c) # {}))
    /\ \A f \in Files : IsIn(c, swarm[f].peer) =>
          \A i \in 1 .. Len(wish[c]) : wish[c][i] # f

\* The lists that c has and is sent are those of its file, and whom it deals
\* with is from them.
ListsOf(c) ==
    /\ pc[c] \in IdlePcs \cup {"lists"} => oth[c] = NoPeers
    /\ \A i \in 1 .. Len(lists[c]) : Copy(lists[c][i], file[c])
    /\ pc[c] \notin IdlePcs => Copy(oth[c], file[c])
    /\ pc[c] = "ask" => next[c] < Len(Others(c))
    /\ pc[c] \in {"allow"} \cup GrantedPcs => Known(peer[c], file[c])

\* The tracker's lists have no client twice; seeds own the file, and peers
\* have an entry for it, or will have one when they pass line 90.
SwarmOf(f) ==
    /\ Copy(swarm[f], f)
    /\ \A c \in Clients :
          /\ IsIn(c, swarm[f].seed) => f \in Own[c] \ unreg[c]
          /\ IsIn(c, swarm[f].peer) =>
                /\ f \notin Own[c]
                /\ f \in present[c] \/ (file[c] = f /\ pc[c] \in EarlyPcs)

Stores == \A c \in Clients : unreg[c] \subseteq Own[c] /\ Own[c] \subseteq present[c]

\* Clients whose last message the tracker has counted.
Settled == {c \in Clients : pc[c] = "exit" /\ DoneMessage(c) \notin requests}

Order ==
    /\ \A c \in Clients : DoneMessage(c) \in requests => pc[c] = "exit"
    /\ phase = "transfer" => finished = Cardinality(Settled)
    /\ phase \in {"stop", "exit"} => Settled = Clients
    /\ \A p \in Clients : upPc[p] = "exit" => phase \in {"stop", "exit"}
    /\ \A p \in Clients : ~rqOn[p] => upPc[p] = "exit"

ProtoInv ==
    /\ \A c \in Clients : ReplyOf(c) /\ ListsOf(c)
    /\ \A f \in Files : SwarmOf(f)
    /\ Stores
    /\ Order

-----------------------------------------------------------------------------
(* What the invariant says *)

LEMMA ProtoReply ==
  ASSUME TypeOK, ProtoInv
  PROVE  ReplyProtocol
<1> SUFFICES ASSUME NEW c \in Clients
             PROVE  LET f == file[c]
                    IN  CASE Asking(c) # {} ->
                              /\ Asking(c) = {SwarmRequest(c, f)}
                              /\ pc[c] = IF IsIn(c, swarm[f].peer)
                                         THEN "update" ELSE "lists"
                              /\ lists[c] = <<>> /\ hashes[c] = <<>>
                        [] Asking(c) = {} /\ pc[c] = "lists" ->
                              Len(lists[c]) = 1 /\ hashes[c] = <<f>>
                        [] Asking(c) = {} /\ pc[c] = "hashes" ->
                              lists[c] = <<>> /\ hashes[c] = <<f>>
                        [] Asking(c) = {} /\ pc[c] = "update" ->
                              Len(lists[c]) = 1 /\ hashes[c] = <<>>
                        [] OTHER -> lists[c] = <<>> /\ hashes[c] = <<>>
  BY DEF ReplyProtocol
<1>1. ReplyOf(c)
  BY DEF ProtoInv
<1>2. CASE Asking(c) # {}
  BY <1>1, <1>2 DEF ReplyOf, IdlePcs
<1>3. CASE Asking(c) = {}
  BY <1>1, <1>3 DEF ReplyOf
<1> QED
  BY <1>2, <1>3

\* An element of the two lists, one after the other, is one of either.
LEMMA InOthers ==
  ASSUME NEW a \in Seq(Clients), NEW b \in Seq(Clients), NEW i \in 1 .. Len(a \o b)
  PROVE  \/ \E j \in 1 .. Len(a) : (a \o b)[i] = a[j]
         \/ \E j \in 1 .. Len(b) : (a \o b)[i] = b[j]
<1>1. /\ Len(a) \in Nat /\ Len(b) \in Nat /\ Len(a \o b) = Len(a) + Len(b)
      /\ (a \o b)[i] = IF i <= Len(a) THEN a[i] ELSE b[i - Len(a)]
  OBVIOUS
<1>2. CASE i <= Len(a)
  BY <1>1, <1>2
<1>3. CASE ~(i <= Len(a))
  <2>1. i - Len(a) \in 1 .. Len(b)
    BY <1>1, <1>3
  <2> QED
    BY <1>1, <1>3, <2>1
<1> QED
  BY <1>2, <1>3

\* A list of two parts contains what either contains.
LEMMA InBoth ==
  ASSUME NEW a \in Seq(Clients), NEW b \in Seq(Clients), NEW d,
         IsIn(d, a) \/ IsIn(d, b)
  PROVE  IsIn(d, a \o b)
<1>1. Len(a) \in Nat /\ Len(b) \in Nat /\ Len(a \o b) = Len(a) + Len(b)
  OBVIOUS
<1>2. \A i \in 1 .. Len(a) : i \in 1 .. Len(a \o b) /\ (a \o b)[i] = a[i]
  OBVIOUS
<1>3. \A i \in 1 .. Len(b) : Len(a) + i \in 1 .. Len(a \o b) /\ (a \o b)[Len(a) + i] = b[i]
  OBVIOUS
<1> QED
  BY <1>2, <1>3 DEF IsIn

\* Two lists without repetition that have nobody in common make one.
LEMMA NoRepeat ==
  ASSUME NEW a \in Seq(Clients), NEW b \in Seq(Clients),
         \A i, j \in 1 .. Len(a) : a[i] = a[j] => i = j,
         \A i, j \in 1 .. Len(b) : b[i] = b[j] => i = j,
         \A i \in 1 .. Len(a) : \A j \in 1 .. Len(b) : a[i] # b[j],
         NEW i \in 1 .. Len(a \o b), NEW j \in 1 .. Len(a \o b),
         (a \o b)[i] = (a \o b)[j]
  PROVE  i = j
<1> DEFINE m == Len(a)
           n == Len(b)
<1>1. /\ m \in Nat /\ n \in Nat /\ Len(a \o b) = m + n
      /\ (a \o b)[i] = IF i <= m THEN a[i] ELSE b[i - m]
      /\ (a \o b)[j] = IF j <= m THEN a[j] ELSE b[j - m]
  OBVIOUS
<1> HIDE DEF m, n
<1>2. /\ i <= m => i \in 1 .. m
      /\ j <= m => j \in 1 .. m
      /\ ~(i <= m) => i - m \in 1 .. n
      /\ ~(j <= m) => j - m \in 1 .. n
  BY <1>1
<1>3. CASE i <= m /\ j <= m
  BY <1>1, <1>2, <1>3 DEF m
<1>4. CASE ~(i <= m) /\ ~(j <= m)
  <2>1. i - m = j - m
    BY <1>1, <1>2, <1>4 DEF n
  <2> QED
    BY <1>1, <2>1
<1>5. CASE (i <= m /\ ~(j <= m)) \/ (~(i <= m) /\ j <= m)
  BY <1>1, <1>2, <1>5 DEF m, n
<1> QED
  BY <1>3, <1>4, <1>5

\* Whoever is on a client's lists is known to the tracker.
LEMMA OthersKnown ==
  ASSUME TypeOK, NEW c \in Clients, Copy(oth[c], file[c]), NEW i \in 1 .. Len(Others(c))
  PROVE  Known(Others(c)[i], file[c])
<1>1. oth[c].seed \in Seq(Clients) /\ oth[c].peer \in Seq(Clients)
  BY DEF TypeOK, SeedPeer
<1>2. \/ \E j \in 1 .. Len(oth[c].seed) : Others(c)[i] = oth[c].seed[j]
      \/ \E j \in 1 .. Len(oth[c].peer) : Others(c)[i] = oth[c].peer[j]
  BY <1>1, InOthers DEF Others
<1> QED
  BY <1>2 DEF Copy, Known

LEMMA ProtoNext ==
  ASSUME SafeInv, ProtoInv
  PROVE  NextInBounds
<1>1. TypeOK /\ SeedKnown
  BY DEF SafeInv, BaseInv
<1> SUFFICES ASSUME NEW c \in Clients, pc[c] = "ask"
             PROVE  LET all == swarm[file[c]].seed \o swarm[file[c]].peer
                    IN  /\ next[c] < Len(Others(c))
                        /\ \A i \in 1 .. Len(Others(c)) : IsIn(Others(c)[i], all)
                        /\ \A i, j \in 1 .. Len(Others(c)) :
                              Others(c)[i] = Others(c)[j] => i = j
  BY DEF NextInBounds
<1>2. ListsOf(c) /\ Copy(oth[c], file[c]) /\ file[c] \in Files
  BY <1>1 DEF ProtoInv, ListsOf, IdlePcs, SeedKnown, Seeded
<1>3. swarm[file[c]].seed \in Seq(Clients) /\ swarm[file[c]].peer \in Seq(Clients)
  BY <1>1, <1>2 DEF TypeOK, SeedPeer
<1>4. \A i \in 1 .. Len(Others(c)) :
         IsIn(Others(c)[i], swarm[file[c]].seed \o swarm[file[c]].peer)
  BY <1>1, <1>2, <1>3, OthersKnown, InBoth DEF Known
<1>5. oth[c].seed \in Seq(Clients) /\ oth[c].peer \in Seq(Clients)
  BY <1>1 DEF TypeOK, SeedPeer
<1>6. \A i, j \in 1 .. Len(Others(c)) : Others(c)[i] = Others(c)[j] => i = j
  BY <1>2, <1>5, NoRepeat DEF Copy, Others
<1> QED
  BY <1>2, <1>4, <1>6 DEF ListsOf

LEMMA ProtoInsert ==
  ASSUME SafeInv, ProtoInv
  PROVE  InsertBeforePublish
<1>1. UploadLink /\ SeedKnown
  BY DEF SafeInv, BaseInv
<1> SUFFICES ASSUME NEW p \in Clients, upPc[p] = "scan", file[upSrc[p]] \notin present[p]
             PROVE  file[p] = file[upSrc[p]] /\ pc[p] \in {"lists", "hashes", "publish"}
  BY DEF InsertBeforePublish
<1>2. PICK c \in Clients : c = upSrc[p] /\ pc[c] = "exists" /\ peer[c] = p
  BY <1>1 DEF UploadLink
<1>3. file[c] \in Files /\ Known(p, file[c])
  BY <1>1, <1>2 DEF SeedKnown, Seeded, IdlePcs, ProtoInv, ListsOf, GrantedPcs
<1>4. SwarmOf(file[c]) /\ Own[p] \subseteq present[p]
  BY <1>3 DEF ProtoInv, Stores
<1> QED
  BY <1>2, <1>3, <1>4 DEF Known, SwarmOf, EarlyPcs

LEMMA ProtoShutdown ==
  ASSUME SafeInv, ProtoInv
  PROVE  ShutdownOrder
<1>1. requests \subseteq Requests
  BY DEF SafeInv, BaseInv, TypeOK
<1> SUFFICES ASSUME \/ phase \in {"stop", "exit"}
                    \/ \E p \in Clients : upPc[p] = "exit" \/ ~rqOn[p]
             PROVE  (\A c \in Clients : pc[c] = "exit") /\ requests = {}
  BY DEF ShutdownOrder
<1>2. Settled = Clients
  BY DEF ProtoInv, Order
<1>3. \A c \in Clients : pc[c] = "exit" /\ DoneMessage(c) \notin requests
  BY <1>2 DEF Settled
<1>4. \A c \in Clients : Asking(c) = {}
  BY <1>3 DEF ProtoInv, ReplyOf
<1>5. ASSUME NEW r \in requests PROVE FALSE
  <2>1. CASE r \in [type : {0}, src : Clients]
    <3>1. r = DoneMessage(r.src) /\ r.src \in Clients
      BY <2>1 DEF DoneMessage
    <3> QED
      BY <1>3, <1>5, <3>1
  <2>2. CASE r \in [type : {1}, src : Clients, file : Files]
    BY <1>4, <1>5, <2>2 DEF Asking
  <2> QED
    BY <1>1, <1>5, <2>1, <2>2 DEF Requests
<1> QED
  BY <1>3, <1>5

LEMMA InitProto == Init => ProtoInv
<1> SUFFICES ASSUME Init PROVE ProtoInv
  OBVIOUS
<1> USE ParametersAssumption
<1>1. \A c \in Clients : ReplyOf(c)
  BY DEF Init, ReplyOf, Asking, IdlePcs, IsIn, NoPeers
<1>2. \A c \in Clients : ListsOf(c)
  BY DEF Init, ListsOf, IdlePcs, GrantedPcs
<1>3. \A f \in Files : SwarmOf(f)
  <2>1. Len(<<>> \o <<>>) = 0 /\ Len(<<>>) = 0
    OBVIOUS
  <2> QED
    BY <2>1 DEF Init, SwarmOf, Copy, IsIn, NoPeers
<1>4. Stores
  BY DEF Init, Stores
<1>5. Order
  BY DEF Init, Order
<1> QED
  BY <1>1, <1>2, <1>3, <1>4, <1>5 DEF ProtoInv

-----------------------------------------------------------------------------
(* What a step leaves alone *)

\* The tracker's lists only grow.
Grows ==
    \A f \in Files : \A d :
        /\ IsIn(d, swarm[f].seed) => IsIn(d, swarm'[f].seed)
        /\ IsIn(d, swarm[f].peer) => IsIn(d, swarm'[f].peer)

\* A copy that was right remains so.
LEMMA CopyGrows ==
  ASSUME NEW s, NEW f \in Files, Copy(s, f), Grows
  PROVE  (Copy(s, f))'
BY DEF Copy, Grows

\* A step that leaves alone what client d asked for, has and is sent.
LEMMA Bystander ==
  ASSUME SafeInv, ProtoInv, NEW d \in Clients, Grows,
         \A f \in Files : IsIn(d, swarm'[f].peer) => IsIn(d, swarm[f].peer),
         (Asking(d))' = Asking(d),
         pc'[d] = pc[d], file'[d] = file[d], lists'[d] = lists[d],
         hashes'[d] = hashes[d], wish'[d] = wish[d], oth'[d] = oth[d],
         next'[d] = next[d], peer'[d] = peer[d]
  PROVE  (ReplyOf(d))' /\ (ListsOf(d))'
<1>1. ReplyOf(d) /\ ListsOf(d)
  BY DEF ProtoInv
<1>2. pc[d] \notin IdlePcs => file[d] \in Files
  BY DEF SafeInv, BaseInv, SeedKnown, Seeded
<1>3. (ReplyOf(d))'
  <2>1. \A f \in Files : IsIn(d, swarm'[f].peer) <=> IsIn(d, swarm[f].peer)
    BY DEF Grows
  <2> QED
    BY <1>1, <1>2, <2>1 DEF ReplyOf, SwarmRequest
<1>4. (ListsOf(d))'
  <2>1. lists[d] # <<>> => file[d] \in Files
    BY <1>1, <1>2 DEF ReplyOf, IdlePcs
  <2>2. \A i \in 1 .. Len(lists[d]) : file[d] \in Files
    BY <2>1
  <2>3. \A i \in 1 .. Len(lists'[d]) : (Copy(lists[d][i], file[d]))'
    <3> SUFFICES ASSUME NEW i \in 1 .. Len(lists[d]) PROVE (Copy(lists[d][i], file[d]))'
      OBVIOUS
    <3>1. PICK f \in Files : f = file[d]
      BY <2>2
    <3>2. PICK s : s = lists[d][i] /\ Copy(s, f)
      BY <1>1, <3>1 DEF ListsOf
    <3>3. (Copy(s, f))'
      BY <3>2, CopyGrows
    <3> QED
      BY <3>1, <3>2, <3>3 DEF Copy
  <2>4. pc'[d] \notin IdlePcs => (Copy(oth[d], file[d]))'
    <3> SUFFICES ASSUME pc[d] \notin IdlePcs PROVE (Copy(oth[d], file[d]))'
      OBVIOUS
    <3>1. PICK f \in Files : f = file[d]
      BY <1>2
    <3>2. PICK s : s = oth[d] /\ Copy(s, f)
      BY <1>1, <3>1 DEF ListsOf
    <3>3. (Copy(s, f))'
      BY <3>2, CopyGrows
    <3> QED
      BY <3>1, <3>2, <3>3 DEF Copy
  <2>5. pc'[d] \in {"allow"} \cup GrantedPcs => (Known(peer[d], file[d]))'
    BY <1>1, <1>2 DEF ListsOf, Known, Grows, IdlePcs, GrantedPcs
  <2> QED
    BY <1>1, <2>3, <2>4, <2>5 DEF ListsOf, Others
<1> QED
  BY <1>3, <1>4

\* All clients but c, when the step is one of c.
LEMMA OtherClients ==
  ASSUME SafeInv, ProtoInv, NEW c \in Clients, Grows,
         \A d \in Clients \ {c} :
            /\ \A f \in Files : IsIn(d, swarm'[f].peer) => IsIn(d, swarm[f].peer)
            /\ (Asking(d))' = Asking(d)
            /\ pc'[d] = pc[d] /\ file'[d] = file[d] /\ lists'[d] = lists[d]
            /\ hashes'[d] = hashes[d] /\ wish'[d] = wish[d] /\ oth'[d] = oth[d]
            /\ next'[d] = next[d] /\ peer'[d] = peer[d]
  PROVE  \A d \in Clients \ {c} : (ReplyOf(d))' /\ (ListsOf(d))'
BY Bystander

\* Client c goes on without the tracker.
QuietPcs == Pcs \ (IdlePcs \cup {"lists", "hashes", "update"})
LEMMA QuietReply ==
  ASSUME SafeInv, ProtoInv, NEW c \in Clients, swarm' = swarm,
         (Asking(c))' = Asking(c), file'[c] = file[c], lists'[c] = lists[c],
         hashes'[c] = hashes[c], wish'[c] = wish[c],
         {pc[c], pc'[c]} \subseteq QuietPcs
  PROVE  (ReplyOf(c))'
<1>1. ReplyOf(c)
  BY DEF ProtoInv
<1> QED
  BY <1>1 DEF ReplyOf, QuietPcs, Pcs, IdlePcs, SwarmRequest

LEMMA QuietLists ==
  ASSUME SafeInv, ProtoInv, NEW c \in Clients, swarm' = swarm,
         file'[c] = file[c], lists'[c] = lists[c], oth'[c] = oth[c],
         {pc[c], pc'[c]} \subseteq QuietPcs,
         pc'[c] = "ask" => next'[c] < Len(Others(c)),
         pc'[c] \in {"allow"} \cup GrantedPcs => Known(peer'[c], file[c])
  PROVE  (ListsOf(c))'
<1>1. ListsOf(c)
  BY DEF ProtoInv
<1>2. \A x, y : (Copy(x, y))' <=> Copy(x, y)
  BY DEF Copy
<1>3. \A i \in 1 .. Len(lists'[c]) : (Copy(lists[c][i], file[c]))'
  BY <1>1, <1>2 DEF ListsOf, Copy
<1>4. (Copy(oth[c], file[c]))'
  BY <1>1 DEF ListsOf, Copy, QuietPcs
<1>5. pc'[c] \in {"allow"} \cup GrantedPcs => (Known(peer[c], file[c]))'
  BY DEF Known
<1> QED
  BY <1>1, <1>3, <1>4, <1>5 DEF ListsOf, Others, QuietPcs

\* The tracker's lists, in a step that is not the tracker's.
LEMMA SwarmFrame ==
  ASSUME ProtoInv, swarm' = swarm, unreg' = unreg,
         \A c \in Clients :
            /\ present[c] \subseteq present'[c]
            /\ pc[c] \in EarlyPcs =>
                  \/ file'[c] = file[c] /\ pc'[c] \in EarlyPcs
                  \/ file[c] \in present'[c]
  PROVE  (\A f \in Files : (SwarmOf(f))') /\ Stores'
<1>1. ASSUME NEW f \in Files PROVE (SwarmOf(f))'
  <2>1. SwarmOf(f)
    BY DEF ProtoInv
  <2>2. (Copy(swarm[f], f))'
    BY <2>1 DEF SwarmOf, Copy
  <2> QED
    BY <2>1, <2>2 DEF SwarmOf
<1>2. Stores'
  BY DEF ProtoInv, Stores
<1> QED
  BY <1>1, <1>2

\* The end of the threads, in a step that has nothing to do with it.
LEMMA OrderFrame ==
  ASSUME ProtoInv, phase' = phase, finished' = finished, rqOn' = rqOn,
         \A p \in Clients : upPc'[p] = "exit" <=> upPc[p] = "exit",
         \A c \in Clients :
            /\ DoneMessage(c) \in requests' <=> DoneMessage(c) \in requests
            /\ pc'[c] = "exit" <=> pc[c] = "exit"
  PROVE  Order'
<1>1. \A c \in Clients : (DoneMessage(c))' = DoneMessage(c)
  BY DEF DoneMessage
<1>2. \A c \in Clients :
         (pc'[c] = "exit" /\ DoneMessage(c) \notin requests')
         <=> (pc[c] = "exit" /\ DoneMessage(c) \notin requests)
  OBVIOUS
<1>3. Settled' = Settled
  BY <1>1, <1>2 DEF Settled
<1>4. Order
  BY DEF ProtoInv
<1>5. (\A c \in Clients : DoneMessage(c) \in requests => pc[c] = "exit")'
  BY <1>1, <1>4 DEF Order
<1> QED
  BY <1>3, <1>4, <1>5 DEF Order

-----------------------------------------------------------------------------
(* The steps of the tracker *)

LEMMA RegisterProto ==
  ASSUME SafeInv, ProtoInv, NEW c \in Clients, NEW f \in Files, TrackerRegister(c, f)
  PROVE  ProtoInv'
<1>1. /\ f \in unreg[c] /\ unreg' = [unreg EXCEPT ![c] = @ \ {f}]
      /\ swarm' = [swarm EXCEPT ![f].seed = Append(@, c)]
      /\ UNCHANGED <<phase, initSent, finished, stop, requests, lists, hashes, allow,
                     pc, wish, file, oth, next, peer, seg, exists, present, upPc, rqOn>>
  BY DEF TrackerRegister, download, store, upload, slots
<1>2. TypeOK /\ unreg \in [Clients -> SUBSET Files] /\ swarm \in [Files -> SeedPeer]
  BY DEF SafeInv, BaseInv, TypeOK
<1>3. PICK a \in Seq(Clients), b \in Seq(Clients) :
         a = swarm[f].seed /\ b = swarm[f].peer
  BY <1>2 DEF SeedPeer
<1>4. /\ swarm'[f].seed = Append(a, c) /\ swarm'[f].peer = b
      /\ \A g \in Files \ {f} : swarm'[g] = swarm[g]
  BY <1>1, <1>2, <1>3 DEF SeedPeer
<1>5. /\ Len(Append(a, c)) = Len(a) + 1 /\ Append(a, c)[Len(a) + 1] = c
      /\ Len(a) \in Nat /\ \A i \in 1 .. Len(a) : Append(a, c)[i] = a[i]
  BY <1>3
<1>6. \A d : IsIn(d, Append(a, c)) <=> d = c \/ IsIn(d, a)
  <2> HIDE <1>3
  <2>1. /\ Len(a) + 1 \in 1 .. Len(Append(a, c))
        /\ \A i \in 1 .. Len(Append(a, c)) : i = Len(a) + 1 \/ i \in 1 .. Len(a)
        /\ \A i \in 1 .. Len(a) : i \in 1 .. Len(Append(a, c))
    BY <1>5
  <2> QED
    BY <1>5, <2>1 DEF IsIn
<1>7. Grows
  BY <1>3, <1>4, <1>6 DEF Grows
<1>8. \A d \in Clients : (ReplyOf(d))' /\ (ListsOf(d))'
  <2>1. \A g \in Files : swarm'[g].peer = swarm[g].peer
    BY <1>3, <1>4
  <2>2. \A d \in Clients : (Asking(d))' = Asking(d)
    BY <1>1 DEF Asking
  <2> QED
    BY <1>1, <1>7, <2>1, <2>2, Bystander
<1>9. Stores'
  BY <1>1, <1>2 DEF ProtoInv, Stores
<1>10. f \in Own[c] /\ ~IsIn(c, a) /\ ~IsIn(c, b)
  BY <1>1, <1>3 DEF ProtoInv, SwarmOf, Stores
<1>11. (Copy(swarm[f], f))'
  <2>1. /\ \A i \in 1 .. Len(a) : \A j \in 1 .. Len(b) : a[i] # b[j]
        /\ \A i, j \in 1 .. Len(a) : a[i] = a[j] => i = j
        /\ \A i, j \in 1 .. Len(b) : b[i] = b[j] => i = j
    BY <1>3 DEF ProtoInv, SwarmOf, Copy
  <2>2. \A i \in 1 .. Len(Append(a, c)) : i = Len(a) + 1 \/ i \in 1 .. Len(a)
    BY <1>5
  <2>3. \A i, j \in 1 .. Len(Append(a, c)) : Append(a, c)[i] = Append(a, c)[j] => i = j
    BY <1>5, <1>10, <2>1, <2>2 DEF IsIn
  <2>4. \A i \in 1 .. Len(Append(a, c)) : \A j \in 1 .. Len(b) : Append(a, c)[i] # b[j]
    BY <1>5, <1>10, <2>1, <2>2 DEF IsIn
  <2> QED
    BY <1>4, <2>1, <2>3, <2>4 DEF Copy, IsIn
<1>12. ASSUME NEW g \in Files PROVE (SwarmOf(g))'
  <2>1. SwarmOf(g)
    BY DEF ProtoInv
  <2>2. \A d \in Clients : unreg'[d] \subseteq unreg[d] /\ f \notin unreg'[c]
    BY <1>1, <1>2
  <2>3. CASE g = f
    BY <1>1, <1>3, <1>4, <1>6, <1>10, <1>11, <2>1, <2>2, <2>3 DEF SwarmOf
  <2>4. CASE g # f
    <3>1. (Copy(swarm[g], g))'
      BY SMTT(30), <1>4, <2>1, <2>4 DEF SwarmOf, Copy
    <3> QED
      BY <1>1, <1>4, <2>1, <2>2, <2>4, <3>1 DEF SwarmOf
  <2> QED
    BY <2>3, <2>4
<1>13. Order'
  BY <1>1, OrderFrame DEF ProtoInv, Order
<1> QED
  BY <1>8, <1>9, <1>12, <1>13 DEF ProtoInv

\* What the tracker finds when it takes a swarm request.
LEMMA SwarmStep ==
  ASSUME SafeInv, ProtoInv, NEW c \in Clients, TrackerSwarm(c)
  PROVE  LET f == file[c]
         IN  /\ f \in Files /\ pc[c] \in {"lists", "update"}
             /\ Asking(c) = {SwarmRequest(c, f)}
             /\ requests' = requests \ {SwarmRequest(c, f)}
             /\ lists[c] = <<>> /\ hashes[c] = <<>>
             /\ lists' = [lists EXCEPT ![c] = <<swarm[f]>>]
             /\ \/ /\ pc[c] = "update" /\ IsIn(c, swarm[f].peer)
                   /\ UNCHANGED <<swarm, hashes>>
                \/ /\ pc[c] = "lists" /\ ~IsIn(c, swarm[f].peer)
                   /\ swarm' = [swarm EXCEPT ![f].peer = Append(@, c)]
                   /\ hashes' = [hashes EXCEPT ![c] = <<f>>]
<1>1. PICK f \in Files :
        /\ SwarmRequest(c, f) \in requests
        /\ requests' = requests \ {SwarmRequest(c, f)}
        /\ lists' = [lists EXCEPT ![c] = Append(@, swarm[f])]
        /\ IF KnownPeer(c, f)
           THEN UNCHANGED <<swarm, hashes>>
           ELSE /\ swarm' = [swarm EXCEPT ![f].peer = Append(@, c)]
                /\ hashes' = [hashes EXCEPT ![c] = Append(@, f)]
  BY DEF TrackerSwarm
<1>2. SwarmRequest(c, f) \in Asking(c)
  BY <1>1 DEF Asking, SwarmRequest
<1>3. /\ Asking(c) = {SwarmRequest(c, file[c])} /\ pc[c] \in {"lists", "update"}
      /\ lists[c] = <<>> /\ hashes[c] = <<>>
      /\ IsIn(c, swarm[file[c]].peer) <=> pc[c] # "lists"
  BY <1>2 DEF ProtoInv, ReplyOf, IdlePcs
<1>4. f = file[c]
  BY <1>2, <1>3 DEF SwarmRequest
<1>5. /\ lists \in [Clients -> Seq(SeedPeer)] /\ hashes \in [Clients -> Seq(Files)]
      /\ Append(lists[c], swarm[f]) = <<swarm[f]>> /\ Append(hashes[c], f) = <<f>>
  BY <1>3 DEF SafeInv, BaseInv, TypeOK
<1> QED
  BY <1>1, <1>3, <1>4, <1>5 DEF KnownPeer

LEMMA SwarmProto ==
  ASSUME SafeInv, ProtoInv, NEW c \in Clients, TrackerSwarm(c)
  PROVE  ProtoInv'
<1>1. PICK f \in Files : f = file[c]
  BY SwarmStep
<1>2. /\ pc[c] \in {"lists", "update"} /\ Asking(c) = {SwarmRequest(c, f)}
      /\ requests' = requests \ {SwarmRequest(c, f)}
      /\ lists[c] = <<>> /\ hashes[c] = <<>>
      /\ lists' = [lists EXCEPT ![c] = <<swarm[f]>>]
      /\ \/ /\ pc[c] = "update" /\ IsIn(c, swarm[f].peer)
            /\ UNCHANGED <<swarm, hashes>>
         \/ /\ pc[c] = "lists" /\ ~IsIn(c, swarm[f].peer)
            /\ swarm' = [swarm EXCEPT ![f].peer = Append(@, c)]
            /\ hashes' = [hashes EXCEPT ![c] = <<f>>]
  BY <1>1, SwarmStep
<1>3. UNCHANGED <<phase, unreg, initSent, finished, stop, pc, wish, file, oth, next,
                  peer, present, upPc, rqOn>>
  BY DEF TrackerSwarm, download, store, upload, slots
<1>4. /\ swarm \in [Files -> SeedPeer] /\ lists \in [Clients -> Seq(SeedPeer)]
      /\ hashes \in [Clients -> Seq(Files)]
  BY DEF SafeInv, BaseInv, TypeOK
<1>5. /\ \A g \in Files : \A d :
            /\ IsIn(d, swarm'[g].seed) <=> IsIn(d, swarm[g].seed)
            /\ IsIn(d, swarm'[g].peer) <=> IsIn(d, swarm[g].peer) \/ (g = f /\ d = c)
      /\ \A g \in Files : SwarmOf(g) => (Copy(swarm[g], g))'
  <2>1. CASE UNCHANGED swarm /\ IsIn(c, swarm[f].peer)
    BY <2>1 DEF SwarmOf, Copy
  <2>2. CASE swarm' = [swarm EXCEPT ![f].peer = Append(@, c)] /\ ~IsIn(c, swarm[f].peer)
    <3>1. PICK a \in Seq(Clients), b \in Seq(Clients) :
             a = swarm[f].seed /\ b = swarm[f].peer
      BY <1>4 DEF SeedPeer
    <3>2. /\ swarm'[f].seed = a /\ swarm'[f].peer = Append(b, c)
          /\ \A g \in Files \ {f} : swarm'[g] = swarm[g]
      BY <1>4, <2>2, <3>1 DEF SeedPeer
    <3>3. /\ Len(Append(b, c)) = Len(b) + 1 /\ Append(b, c)[Len(b) + 1] = c
          /\ Len(b) \in Nat /\ \A i \in 1 .. Len(b) : Append(b, c)[i] = b[i]
      BY <3>1
    <3>4. /\ Len(b) + 1 \in 1 .. Len(Append(b, c))
          /\ \A i \in 1 .. Len(Append(b, c)) : i = Len(b) + 1 \/ i \in 1 .. Len(b)
          /\ \A i \in 1 .. Len(b) : i \in 1 .. Len(Append(b, c))
      BY <3>3
    <3>5. \A d : IsIn(d, Append(b, c)) <=> d = c \/ IsIn(d, b)
      BY <3>3, <3>4 DEF IsIn
    <3>6. SwarmOf(f) => (Copy(swarm[f], f))'
      <4> SUFFICES ASSUME SwarmOf(f) PROVE (Copy(swarm[f], f))'
        OBVIOUS
      <4>1. /\ \A i \in 1 .. Len(a) : \A j \in 1 .. Len(b) : a[i] # b[j]
            /\ \A i, j \in 1 .. Len(a) : a[i] = a[j] => i = j
            /\ \A i, j \in 1 .. Len(b) : b[i] = b[j] => i = j
        BY <3>1 DEF SwarmOf, Copy
      <4>2. ~IsIn(c, b) /\ ~IsIn(c, a)
        <5>1. f \notin Own[c]
          BY <1>1, <1>2 DEF SafeInv, HeldInv, Held, HoldsPrefix, IdlePcs
        <5> QED
          BY <2>2, <3>1, <5>1 DEF SwarmOf
      <4>3. \A i, j \in 1 .. Len(Append(b, c)) : Append(b, c)[i] = Append(b, c)[j] => i = j
        BY <3>3, <3>4, <4>1, <4>2 DEF IsIn
      <4>4. \A i \in 1 .. Len(a) : \A j \in 1 .. Len(Append(b, c)) : a[i] # Append(b, c)[j]
        BY <3>3, <3>4, <4>1, <4>2 DEF IsIn
      <4> QED
        BY <3>2, <4>1, <4>3, <4>4 DEF Copy, IsIn
    <3>7. ASSUME NEW g \in Files \ {f}, SwarmOf(g) PROVE (Copy(swarm[g], g))'
      <4>1. swarm'[g] = swarm[g] /\ Copy(swarm[g], g)
        BY <3>2, <3>7 DEF SwarmOf
      <4> QED
        BY <4>1 DEF Copy
    <3>8. ASSUME NEW g \in Files, NEW d
          PROVE  /\ IsIn(d, swarm'[g].seed) <=> IsIn(d, swarm[g].seed)
                 /\ IsIn(d, swarm'[g].peer) <=> IsIn(d, swarm[g].peer) \/ (g = f /\ d = c)
      <4>1. CASE g = f
        BY <3>1, <3>2, <3>5, <4>1
      <4>2. CASE g # f
        BY <3>2, <4>2
      <4> QED
        BY <4>1, <4>2
    <3> QED
      BY <3>6, <3>7, <3>8
  <2> QED
    BY <1>2, <2>1, <2>2
<1>6. Grows
  BY <1>5 DEF Grows
<1>7. \A d \in Clients \ {c} : (ReplyOf(d))' /\ (ListsOf(d))'
  <2>1. \A d \in Clients \ {c} : (Asking(d))' = Asking(d)
    BY <1>2 DEF Asking, SwarmRequest
  <2>2. \A d \in Clients \ {c} : lists'[d] = lists[d] /\ hashes'[d] = hashes[d]
    BY <1>2, <1>4
  <2> QED
    BY <1>3, <1>5, <1>6, <2>1, <2>2, OtherClients
<1>8. (Asking(c))' = {}
  BY <1>2 DEF Asking
<1>9. /\ lists'[c] = <<swarm[f]>> /\ hashes'[c] = IF pc[c] = "lists" THEN <<f>> ELSE <<>>
      /\ IsIn(c, swarm'[f].peer)
  BY <1>2, <1>4, <1>5
<1>10. (ReplyOf(c))'
  <2>1. \A i \in 1 .. Len(wish[c]) : wish[c][i] # f
    BY <1>1 DEF SafeInv, HeldInv, Held, FreshWish
  <2>2. \A g \in Files : IsIn(c, swarm'[g].peer) => \A i \in 1 .. Len(wish'[c]) : wish'[c][i] # g
    BY <1>3, <1>5, <2>1 DEF ProtoInv, ReplyOf
  <2>3. Len(lists'[c]) = 1
    BY <1>9
  <2> QED
    BY <1>1, <1>2, <1>3, <1>8, <1>9, <2>2, <2>3 DEF ReplyOf, IdlePcs
<1>11. (ListsOf(c))'
  <2>1. ListsOf(c)
    BY DEF ProtoInv
  <2>2. (Copy(swarm[f], f))
    BY DEF ProtoInv, SwarmOf
  <2>3. PICK s : s = swarm[f] /\ Copy(s, f)
    BY <2>2
  <2>4. (Copy(s, f))'
    BY <1>6, <2>3, CopyGrows
  <2>5. Len(lists'[c]) = 1 /\ lists'[c][1] = s
    BY <1>9, <2>3
  <2>6. \A i \in 1 .. Len(lists'[c]) : (Copy(lists[c][i], file[c]))'
    <3> SUFFICES ASSUME NEW i \in 1 .. Len(lists'[c]) PROVE (Copy(lists[c][i], file[c]))'
      OBVIOUS
    <3>1. lists'[c][i] = s /\ file'[c] = f
      BY <1>1, <1>3, <2>5
    <3> QED
      BY <2>4, <3>1 DEF Copy
  <2>7. (Copy(oth[c], file[c]))'
    <3>1. PICK o : o = oth[c] /\ Copy(o, f)
      BY <1>1, <1>2, <2>1 DEF ListsOf, IdlePcs
    <3>2. (Copy(o, f))'
      BY <1>6, <3>1, CopyGrows
    <3> QED
      BY <1>1, <1>3, <3>1, <3>2 DEF Copy
  <2>8. pc[c] \in GrantedPcs => (Known(peer[c], file[c]))'
    BY <1>1, <1>2, <1>3, <1>5, <2>1 DEF ListsOf, Known
  <2> QED
    BY <1>2, <1>3, <2>1, <2>6, <2>7, <2>8 DEF ListsOf, Others
<1>12. ASSUME NEW g \in Files PROVE (SwarmOf(g))'
  <2>1. SwarmOf(g)
    BY DEF ProtoInv
  <2>2. (Copy(swarm[g], g))'
    BY <1>5, <2>1
  <2>3. IsIn(c, swarm[f].peer) \/ pc[c] = "lists"
    BY <1>2
  <2>4. f \notin Own[c]
    BY <1>1, <1>2 DEF SafeInv, HeldInv, Held, HoldsPrefix, IdlePcs
  <2>5. \A d \in Clients : IsIn(d, swarm'[g].peer) =>
           g \notin Own[d] /\ (g \in present[d] \/ (file[d] = g /\ pc[d] \in EarlyPcs))
    BY <1>1, <1>5, <2>1, <2>3, <2>4 DEF SwarmOf, EarlyPcs
  <2> QED
    BY <1>3, <1>5, <2>1, <2>2, <2>5 DEF SwarmOf
<1>13. Stores'
  BY <1>3 DEF ProtoInv, Stores
<1>14. Order'
  <2>1. \A d \in Clients : DoneMessage(d) \in requests' <=> DoneMessage(d) \in requests
    BY <1>2 DEF DoneMessage, SwarmRequest
  <2> QED
    BY <1>3, <2>1, OrderFrame
<1> QED
  BY <1>7, <1>10, <1>11, <1>12, <1>13, <1>14 DEF ProtoInv

LEMMA InitDoneProto ==
  ASSUME SafeInv, ProtoInv, NEW c \in Clients, TrackerInitDone(c)
  PROVE  ProtoInv'
<1>1. /\ phase = "init" /\ phase' \in {"init", "transfer"}
      /\ phase' = "transfer" => finished' = 0
      /\ UNCHANGED <<unreg, swarm, requests, lists, hashes, pc, wish, file, oth, next,
                     peer, present, upPc, rqOn>>
  BY DEF TrackerInitDone, download, store, upload, slots
<1>2. \A d \in Clients : (ReplyOf(d))' /\ (ListsOf(d))'
  <2>1. Grows /\ \A d \in Clients : (Asking(d))' = Asking(d)
    BY <1>1 DEF Grows, Asking
  <2> QED
    BY <1>1, <2>1, Bystander
<1>3. (\A f \in Files : (SwarmOf(f))') /\ Stores'
  BY <1>1, SwarmFrame
<1>4. Order'
  <2>1. \A d \in Clients : pc[d] = "bcast"
    BY <1>1 DEF SafeInv, BaseInv, Registration
  <2>2. Settled' = {}
    BY <1>1, <2>1 DEF Settled
  <2>3. phase' = "transfer" => finished' = Cardinality(Settled')
    BY <1>1, <2>2, FS_EmptySet
  <2>4. \A d \in Clients : (DoneMessage(d))' = DoneMessage(d)
    BY DEF DoneMessage
  <2> QED
    BY <1>1, <2>3, <2>4 DEF ProtoInv, Order
<1> QED
  BY <1>2, <1>3, <1>4 DEF ProtoInv

\* The counter of the Transfer loop reaches N when the last message is counted.
LEMMA DoneProto ==
  ASSUME SafeInv, ProtoInv, NEW c \in Clients, TrackerDone(c)
  PROVE  ProtoInv'
<1>1. /\ phase = "transfer" /\ DoneMessage(c) \in requests
      /\ requests' = requests \ {DoneMessage(c)} /\ finished' = finished + 1
      /\ phase' = IF LastToFinish(finished) THEN "stop" ELSE phase
      /\ UNCHANGED <<unreg, swarm, lists, hashes, pc, wish, file, oth, next,
                     peer, present, upPc, rqOn>>
  BY DEF TrackerDone, download, store, upload, slots
<1>2. \A d \in Clients : (ReplyOf(d))' /\ (ListsOf(d))'
  <2>1. Grows /\ \A d \in Clients : (Asking(d))' = Asking(d)
    BY <1>1 DEF Grows, Asking, DoneMessage
  <2> QED
    BY <1>1, <2>1, Bystander
<1>3. (\A f \in Files : (SwarmOf(f))') /\ Stores'
  BY <1>1, SwarmFrame
<1>4. Order
  BY DEF ProtoInv
<1>5. Settled' = Settled \cup {c} /\ c \notin Settled
  BY <1>1, <1>4 DEF Settled, Order, DoneMessage
<1>6. IsFiniteSet(Clients) /\ Cardinality(Clients) = N /\ N \in Nat
  BY FS_Interval, ParametersAssumption DEF Clients
<1>7. IsFiniteSet(Settled) /\ Settled' \subseteq Clients
  BY <1>6, FS_Subset DEF Settled
<1>8. finished' = Cardinality(Settled')
  BY <1>1, <1>4, <1>5, <1>7, FS_AddElement DEF Order
<1>9. LastToFinish(finished) => Settled' = Clients
  BY <1>1, <1>6, <1>7, <1>8, FS_Subset DEF LastToFinish
<1>10. Order'
  <2>1. \A d \in Clients : (DoneMessage(d))' = DoneMessage(d)
    BY DEF DoneMessage
  <2> QED
    BY <1>1, <1>4, <1>8, <1>9, <2>1 DEF Order
<1> QED
  BY <1>2, <1>3, <1>10 DEF ProtoInv

\* The steps that only end a thread.
LEMMA EndProto ==
  ASSUME SafeInv, ProtoInv, TrackerStop \/ \E p \in Clients : ReadyStop(p)
  PROVE  ProtoInv'
<1>1. /\ UNCHANGED <<unreg, finished, swarm, requests, lists, hashes, pc, wish, file,
                     oth, next, peer, present>>
      /\ phase' = phase \/ {phase, phase'} \subseteq {"stop", "exit"}
  BY DEF TrackerStop, ReadyStop, tracker, download, store, upload, slots
<1>2. \A d \in Clients : (ReplyOf(d))' /\ (ListsOf(d))'
  <2>1. Grows /\ \A d \in Clients : (Asking(d))' = Asking(d)
    BY <1>1 DEF Grows, Asking
  <2> QED
    BY <1>1, <2>1, Bystander
<1>3. (\A f \in Files : (SwarmOf(f))') /\ Stores'
  BY <1>1, SwarmFrame
<1>4. /\ \A p \in Clients : upPc'[p] = "exit" => upPc[p] = "exit" \/ phase = "stop"
      /\ \A p \in Clients : upPc[p] = "exit" => upPc'[p] = "exit"
      /\ \A p \in Clients : ~rqOn'[p] => ~rqOn[p] \/ upPc[p] = "exit"
  BY DEF TrackerStop, ReadyStop, SafeInv, BaseInv, TypeOK, upload, slots
<1>5. \A d \in Clients : (DoneMessage(d))' = DoneMessage(d)
  BY DEF DoneMessage
<1>6. Settled' = Settled
  BY <1>1, <1>5 DEF Settled
<1>7. Order'
  BY <1>1, <1>4, <1>5, <1>6 DEF ProtoInv, Order
<1> QED
  BY <1>2, <1>3, <1>7 DEF ProtoInv

-----------------------------------------------------------------------------
(* The steps of one client *)

\* A step of c, as the others see it.
LEMMA OneClient ==
  ASSUME SafeInv, ProtoInv, NEW c \in Clients, swarm' = swarm, unreg' = unreg,
         \A d \in Clients \ {c} :
            /\ (Asking(d))' = Asking(d)
            /\ pc'[d] = pc[d] /\ file'[d] = file[d] /\ lists'[d] = lists[d]
            /\ hashes'[d] = hashes[d] /\ wish'[d] = wish[d] /\ oth'[d] = oth[d]
            /\ next'[d] = next[d] /\ peer'[d] = peer[d],
         \A d \in Clients : present[d] \subseteq present'[d],
         pc[c] \in EarlyPcs =>
            \/ file'[c] = file[c] /\ pc'[c] \in EarlyPcs
            \/ file[c] \in present'[c],
         (ReplyOf(c))', (ListsOf(c))', Order'
  PROVE  ProtoInv'
<1>1. Grows
  BY DEF Grows
<1>2. \A d \in Clients \ {c} : (ReplyOf(d))' /\ (ListsOf(d))'
  BY <1>1, OtherClients
<1>3. (\A f \in Files : (SwarmOf(f))') /\ Stores'
  BY SwarmFrame
<1> QED
  BY <1>2, <1>3 DEF ProtoInv

\* A step of c that has nothing to do with the tracker.
LEMMA QuietProto ==
  ASSUME SafeInv, ProtoInv, NEW c \in Clients,
         UNCHANGED <<phase, unreg, finished, swarm, requests, lists, hashes, wish, file,
                     oth, rqOn>>,
         \A d \in Clients \ {c} : pc'[d] = pc[d] /\ next'[d] = next[d] /\ peer'[d] = peer[d],
         \A d \in Clients : present[d] \subseteq present'[d],
         \A d \in Clients : upPc'[d] = "exit" <=> upPc[d] = "exit",
         {pc[c], pc'[c]} \subseteq QuietPcs,
         pc[c] = "publish" => file[c] \in present'[c],
         pc'[c] = "ask" => next'[c] < Len(Others(c)),
         pc'[c] \in {"allow"} \cup GrantedPcs => Known(peer'[c], file[c])
  PROVE  ProtoInv'
<1>1. \A d \in Clients : (Asking(d))' = Asking(d)
  BY DEF Asking
<1>2. (ReplyOf(c))'
  BY <1>1, QuietReply
<1>3. (ListsOf(c))'
  BY QuietLists
<1>4. Order'
  <2>1. pc'[c] = "exit" <=> pc[c] = "exit"
    BY DEF QuietPcs, IdlePcs
  <2> QED
    BY <2>1, OrderFrame
<1>5. pc[c] \in EarlyPcs => pc[c] = "publish"
  BY DEF EarlyPcs, QuietPcs
<1> QED
  BY <1>1, <1>2, <1>3, <1>4, <1>5, OneClient

\* c asked for nothing, and nothing is on its way to it.
LEMMA Unasked ==
  ASSUME SafeInv, ProtoInv, NEW c \in Clients, pc[c] \notin {"lists", "update"}
  PROVE  Asking(c) = {} /\ lists[c] = <<>>
BY DEF ProtoInv, ReplyOf

\* What c has asked for after it asked for file f.
LEMMA AskOne ==
  ASSUME SafeInv, ProtoInv, NEW c \in Clients, NEW f \in Files,
         requests' = requests \cup {SwarmRequest(c, f)}
  PROVE  /\ Asking(c) = {} => (Asking(c))' = {SwarmRequest(c, f)}
         /\ \A d \in Clients \ {c} : (Asking(d))' = Asking(d)
         /\ \A d \in Clients : DoneMessage(d) \in requests' <=> DoneMessage(d) \in requests
BY DEF Asking, SwarmRequest, DoneMessage

LEMMA StartProto ==
  ASSUME SafeInv, ProtoInv, NEW c \in Clients, Start(c)
  PROVE  ProtoInv'
<1>1. /\ pc[c] = "bcast" /\ pc' = [pc EXCEPT ![c] = "head"]
      /\ UNCHANGED <<phase, unreg, finished, swarm, requests, lists, hashes, wish, file,
                     oth, next, peer, present, upPc, rqOn>>
  BY DEF Start, tracker, store, upload, slots
<1>2. pc'[c] = "head" /\ \A d \in Clients \ {c} : pc'[d] = pc[d]
  BY <1>1 DEF SafeInv, BaseInv, TypeOK
<1>3. \A d \in Clients : (Asking(d))' = Asking(d)
  BY <1>1 DEF Asking
<1>4. ReplyOf(c) /\ ListsOf(c)
  BY DEF ProtoInv
<1>5. (ReplyOf(c))'
  BY <1>1, <1>2, <1>3, <1>4 DEF ReplyOf, IdlePcs
<1>6. (ListsOf(c))'
  <2>1. Asking(c) = {} /\ lists[c] = <<>>
    BY <1>1, Unasked
  <2> QED
    BY <1>1, <1>2, <1>4, <2>1 DEF ListsOf, IdlePcs, GrantedPcs
<1>7. Order'
  BY <1>1, <1>2, OrderFrame
<1> QED
  BY <1>1, <1>2, <1>3, <1>5, <1>6, <1>7, OneClient DEF EarlyPcs

LEMMA RequestProto ==
  ASSUME SafeInv, ProtoInv, NEW c \in Clients, RequestFile(c)
  PROVE  ProtoInv'
<1>1. /\ pc[c] = "head" /\ wish[c] # <<>>
      /\ file' = [file EXCEPT ![c] = Head(wish[c])]
      /\ wish' = [wish EXCEPT ![c] = Tail(@)]
      /\ requests' = requests \cup {SwarmRequest(c, Head(wish[c]))}
      /\ pc' = [pc EXCEPT ![c] = "lists"]
      /\ UNCHANGED <<phase, unreg, finished, swarm, lists, hashes,
                     oth, next, peer, present, upPc, rqOn>>
  BY DEF RequestFile, tracker, store, upload, slots
<1>2. wish[c] \in Seq(Files) /\ file \in [Clients -> Files \cup {NoFile}]
      /\ wish \in [Clients -> Seq(Files)] /\ pc \in [Clients -> Pcs]
  BY DEF SafeInv, BaseInv, TypeOK
<1>3. PICK f \in Files : f = Head(wish[c])
  BY <1>1, <1>2
<1>4. /\ pc'[c] = "lists" /\ file'[c] = f /\ wish'[c] = Tail(wish[c])
      /\ \A d \in Clients \ {c} :
            pc'[d] = pc[d] /\ file'[d] = file[d] /\ wish'[d] = wish[d]
  BY <1>1, <1>2, <1>3
<1>5. Asking(c) = {} /\ lists[c] = <<>>
  BY <1>1, Unasked
<1>6. /\ (Asking(c))' = {SwarmRequest(c, f)}
      /\ \A d \in Clients \ {c} : (Asking(d))' = Asking(d)
      /\ \A d \in Clients : DoneMessage(d) \in requests' <=> DoneMessage(d) \in requests
  BY <1>1, <1>3, <1>5, AskOne
<1>7. ReplyOf(c) /\ ListsOf(c)
  BY DEF ProtoInv
<1>8. (ReplyOf(c))'
  <2>1. 1 \in 1 .. Len(wish[c]) /\ wish[c][1] = f
        /\ \A i \in 1 .. Len(wish'[c]) : /\ wish'[c][i] = wish[c][i + 1]
                                        /\ i + 1 \in 1 .. Len(wish[c])
    BY <1>1, <1>2, <1>3, <1>4
  <2>2. ~IsIn(c, swarm[f].peer)
    BY <1>7, <2>1 DEF ReplyOf
  <2>3. \A g \in Files : IsIn(c, swarm[g].peer) => \A i \in 1 .. Len(wish'[c]) : wish'[c][i] # g
    BY <1>7, <2>1 DEF ReplyOf
  <2>4. hashes[c] = <<>>
    BY <1>1, <1>5, <1>7 DEF ReplyOf
  <2> QED
    BY <1>1, <1>4, <1>5, <1>6, <2>2, <2>3, <2>4 DEF ReplyOf, SwarmRequest
<1>9. (ListsOf(c))'
  <2>1. oth'[c] = NoPeers /\ lists'[c] = <<>>
    BY <1>1, <1>5, <1>7 DEF ListsOf, IdlePcs
  <2>2. (Copy(oth[c], file[c]))'
    BY <2>1 DEF Copy, NoPeers
  <2> QED
    BY <1>4, <2>1, <2>2 DEF ListsOf, GrantedPcs
<1>10. Order'
  BY <1>1, <1>4, <1>6, OrderFrame
<1> QED
  BY <1>1, <1>4, <1>6, <1>8, <1>9, <1>10, OneClient DEF EarlyPcs

LEMMA DoneDownloadingProto ==
  ASSUME SafeInv, ProtoInv, NEW c \in Clients, DoneDownloading(c)
  PROVE  ProtoInv'
<1>1. /\ pc[c] = "head" /\ requests' = requests \cup {DoneMessage(c)}
      /\ pc' = [pc EXCEPT ![c] = "exit"]
      /\ UNCHANGED <<phase, unreg, finished, swarm, lists, hashes, wish, file,
                     oth, next, peer, present, upPc, rqOn>>
  BY DEF DoneDownloading, tracker, store, upload, slots
<1>2. pc'[c] = "exit" /\ \A d \in Clients \ {c} : pc'[d] = pc[d]
  BY <1>1 DEF SafeInv, BaseInv, TypeOK
<1>3. \A d \in Clients : (Asking(d))' = Asking(d)
  BY <1>1 DEF Asking, DoneMessage
<1>4. ReplyOf(c) /\ ListsOf(c)
  BY DEF ProtoInv
<1>5. (ReplyOf(c))'
  BY <1>1, <1>2, <1>3, <1>4 DEF ReplyOf, IdlePcs
<1>6. (ListsOf(c))'
  <2>1. Asking(c) = {} /\ lists[c] = <<>>
    BY <1>1, Unasked
  <2> QED
    BY <1>1, <1>2, <1>4, <2>1 DEF ListsOf, IdlePcs, GrantedPcs
<1>7. Order'
  <2>1. Order /\ \A d \in Clients : (DoneMessage(d))' = DoneMessage(d)
    BY DEF ProtoInv, DoneMessage
  <2>2. \A d \in Clients \ {c} : DoneMessage(d) \in requests' <=> DoneMessage(d) \in requests
    BY <1>1 DEF DoneMessage
  <2>3. Settled' = Settled
    BY <1>1, <1>2, <2>1, <2>2 DEF Settled
  <2> QED
    BY <1>1, <1>2, <2>1, <2>2, <2>3 DEF Order
<1> QED
  BY <1>1, <1>2, <1>3, <1>5, <1>6, <1>7, OneClient DEF EarlyPcs

\* The one list that c is sent: its entries are copies, and empty the mailbox.
LEMMA TakeLists ==
  ASSUME SafeInv, ProtoInv, NEW c \in Clients, pc[c] \in {"lists", "update"},
         lists[c] # <<>>
  PROVE  /\ Asking(c) = {} /\ Tail(lists[c]) = <<>>
         /\ Head(lists[c]) \in SeedPeer /\ Copy(Head(lists[c]), file[c])
<1>1. lists[c] \in Seq(SeedPeer)
  BY DEF SafeInv, BaseInv, TypeOK
<1>2. Asking(c) = {} /\ Len(lists[c]) = 1
  BY DEF ProtoInv, ReplyOf
<1>3. 1 \in 1 .. Len(lists[c]) /\ Head(lists[c]) = lists[c][1]
  BY <1>1, <1>2
<1> QED
  BY <1>1, <1>2, <1>3 DEF ProtoInv, ListsOf

\* The lists of c are replaced, those in the mailbox and those it works with.
LEMMA ListsProto ==
  ASSUME SafeInv, ProtoInv, NEW c \in Clients, ReceiveLists(c) \/ ReceiveUpdate(c)
  PROVE  ProtoInv'
<1>1. /\ pc[c] \in {"lists", "update"} /\ lists[c] # <<>>
      /\ lists' = [lists EXCEPT ![c] = Tail(@)]
      /\ pc' = [pc EXCEPT ![c] = IF pc[c] = "lists" THEN "hashes" ELSE "release"]
      /\ UNCHANGED <<phase, unreg, finished, swarm, requests, hashes, wish, file,
                     next, peer, present, upPc, rqOn>>
  BY DEF ReceiveLists, ReceiveUpdate, tracker, store, upload, slots
<1>2. /\ Asking(c) = {} /\ Tail(lists[c]) = <<>>
      /\ Head(lists[c]) \in SeedPeer /\ Copy(Head(lists[c]), file[c])
  BY <1>1, TakeLists
<1>3. lists \in [Clients -> Seq(SeedPeer)] /\ pc \in [Clients -> Pcs]
      /\ oth \in [Clients -> SeedPeer]
  BY DEF SafeInv, BaseInv, TypeOK
<1>4. /\ lists'[c] = <<>> /\ pc'[c] = IF pc[c] = "lists" THEN "hashes" ELSE "release"
      /\ \A d \in Clients \ {c} : lists'[d] = lists[d] /\ pc'[d] = pc[d]
  BY <1>1, <1>2, <1>3
<1>5. ReplyOf(c) /\ ListsOf(c) /\ file[c] \in Files
  BY <1>1 DEF ProtoInv, SafeInv, BaseInv, SeedKnown, Seeded, IdlePcs
<1>6. /\ oth'[c] = Head(lists[c])
      /\ \A d \in Clients \ {c} : oth'[d] = oth[d]
  <2>1. CASE pc[c] = "lists"
    <3>1. oth' = [oth EXCEPT ![c] = [seed |-> @.seed \o Head(lists[c]).seed,
                                    peer |-> @.peer \o Head(lists[c]).peer]]
      BY <2>1 DEF ReceiveLists, ReceiveUpdate
    <3>2. oth[c].seed = <<>> /\ oth[c].peer = <<>>
      BY <1>5, <2>1 DEF ListsOf, NoPeers
    <3>3. PICK h \in SeedPeer : h = Head(lists[c])
      BY <1>2
    <3>4. <<>> \o h.seed = h.seed /\ <<>> \o h.peer = h.peer
          /\ h = [seed |-> h.seed, peer |-> h.peer]
      BY DEF SeedPeer
    <3> QED
      BY <1>3, <3>1, <3>2, <3>3, <3>4
  <2>2. CASE pc[c] = "update"
    BY <1>3, <2>2 DEF ReceiveLists, ReceiveUpdate
  <2> QED
    BY <1>1, <2>1, <2>2
<1>7. \A d \in Clients : (Asking(d))' = Asking(d)
  BY <1>1 DEF Asking
<1>8. (ReplyOf(c))'
  BY <1>1, <1>2, <1>4, <1>5, <1>7 DEF ReplyOf, IdlePcs
<1>9. (ListsOf(c))'
  <2>1. PICK h : h = Head(lists[c]) /\ Copy(h, file[c])
    BY <1>2
  <2>2. (Copy(oth[c], file[c]))'
    BY <1>1, <1>6, <2>1 DEF Copy
  <2>3. Len(lists'[c]) = 0
    BY <1>4
  <2>4. pc'[c] = "release" => (Known(peer[c], file[c]))'
    BY <1>1, <1>4, <1>5 DEF ListsOf, Known, GrantedPcs
  <2> QED
    BY <1>4, <2>2, <2>3, <2>4 DEF ListsOf, IdlePcs, GrantedPcs
<1>10. Order'
  <2>1. pc'[c] # "exit" /\ pc[c] # "exit"
    BY <1>1, <1>4
  <2> QED
    BY <1>1, <1>4, <2>1, OrderFrame
<1>11. pc[c] \in EarlyPcs => pc'[c] \in EarlyPcs
  BY <1>1, <1>4 DEF EarlyPcs
<1> QED
  BY <1>1, <1>4, <1>6, <1>7, <1>8, <1>9, <1>10, <1>11, OneClient

LEMMA HashesProto ==
  ASSUME SafeInv, ProtoInv, NEW c \in Clients, ReceiveHashes(c)
  PROVE  ProtoInv'
<1>1. /\ pc[c] = "hashes" /\ hashes' = [hashes EXCEPT ![c] = Tail(@)]
      /\ pc' = [pc EXCEPT ![c] = "publish"]
      /\ UNCHANGED <<phase, unreg, finished, swarm, requests, lists, wish, file,
                     oth, next, peer, present, upPc, rqOn>>
  BY DEF ReceiveHashes, tracker, store, upload, slots
<1>2. ReplyOf(c) /\ ListsOf(c)
  BY DEF ProtoInv
<1>3. Asking(c) = {} /\ lists[c] = <<>> /\ hashes[c] = <<file[c]>>
  BY <1>1, <1>2, Unasked DEF ReplyOf
<1>4. /\ pc'[c] = "publish" /\ hashes'[c] = <<>>
      /\ \A d \in Clients \ {c} : pc'[d] = pc[d] /\ hashes'[d] = hashes[d]
  <2>1. Tail(<<file[c]>>) = <<>>
    OBVIOUS
  <2> QED
    BY <1>1, <1>3, <2>1 DEF SafeInv, BaseInv, TypeOK
<1>5. \A d \in Clients : (Asking(d))' = Asking(d)
  BY <1>1 DEF Asking
<1>6. (ReplyOf(c))'
  BY <1>1, <1>2, <1>3, <1>4, <1>5 DEF ReplyOf, IdlePcs
<1>7. (ListsOf(c))'
  <2>1. (Copy(oth[c], file[c]))'
    BY <1>1, <1>2 DEF ListsOf, IdlePcs, Copy
  <2>2. Len(lists'[c]) = 0
    BY <1>1, <1>3
  <2> QED
    BY <1>4, <2>1, <2>2 DEF ListsOf, IdlePcs, GrantedPcs
<1>8. Order'
  BY <1>1, <1>4, OrderFrame
<1> QED
  BY <1>1, <1>4, <1>5, <1>6, <1>7, <1>8, OneClient DEF EarlyPcs

\* A client that deals with others has somebody on its lists.
LEMMA SomeOthers ==
  ASSUME SafeInv, NEW c \in Clients, pc[c] \notin IdlePcs \cup {"lists"}
  PROVE  Len(Others(c)) \in Nat \ {0}
<1>1. PICK a \in Seq(Clients), b \in Seq(Clients) : a = oth[c].seed /\ b = oth[c].peer
  BY DEF SafeInv, BaseInv, TypeOK, SeedPeer
<1>2. a # <<>>
  BY <1>1 DEF SafeInv, BaseInv, SeedKnown
<1>3. Len(a \o b) \in Nat \ {0}
  BY <1>2
<1>4. Others(c) = a \o b
  BY <1>1 DEF Others
<1> QED
  BY <1>3, <1>4

LEMMA PublishProto ==
  ASSUME SafeInv, ProtoInv, NEW c \in Clients, Publish(c)
  PROVE  ProtoInv'
<1>1. /\ pc[c] = "publish" /\ present' = [present EXCEPT ![c] = Keys(c)]
      /\ next' = [next EXCEPT ![c] = 0] /\ pc' = [pc EXCEPT ![c] = "ask"]
      /\ UNCHANGED <<phase, unreg, finished, swarm, requests, lists, hashes, wish, file,
                     oth, peer, upPc, rqOn>>
  BY DEF Publish, tracker, upload, slots
<1>2. /\ pc'[c] = "ask" /\ next'[c] = 0
      /\ \A d \in Clients \ {c} : pc'[d] = pc[d] /\ next'[d] = next[d]
  BY <1>1 DEF SafeInv, BaseInv, TypeOK
<1>3. /\ \A d \in Clients : present[d] \subseteq present'[d]
      /\ file[c] \in present'[c]
  BY <1>1 DEF SafeInv, BaseInv, TypeOK, Keys
<1>4. 0 < Len(Others(c))
  <2>1. Len(Others(c)) \in Nat \ {0}
    BY <1>1, SomeOthers DEF IdlePcs
  <2> QED
    BY <2>1
<1> QED
  BY <1>1, <1>2, <1>3, <1>4, QuietProto DEF QuietPcs, Pcs, IdlePcs, GrantedPcs

LEMMA AllowProto ==
  ASSUME SafeInv, ProtoInv, NEW c \in Clients, ReceiveAllow(c)
  PROVE  ProtoInv'
<1>1. /\ pc[c] = "allow"
      /\ pc' = [pc EXCEPT ![c] = IF allow[c] = "yes" THEN "fetch" ELSE "check"]
      /\ UNCHANGED <<phase, unreg, finished, swarm, requests, lists, hashes, wish, file,
                     oth, next, peer, present, upPc, rqOn>>
  BY DEF ReceiveAllow, tracker, store, upload, slots
<1>2. pc'[c] \in {"fetch", "check"} /\ \A d \in Clients \ {c} : pc'[d] = pc[d]
  BY <1>1 DEF SafeInv, BaseInv, TypeOK
<1>3. Known(peer[c], file[c])
  BY <1>1 DEF ProtoInv, ListsOf
<1> QED
  BY <1>1, <1>2, <1>3, QuietProto DEF QuietPcs, Pcs, IdlePcs

LEMMA CheckProto ==
  ASSUME SafeInv, ProtoInv, NEW c \in Clients, Check(c)
  PROVE  ProtoInv'
<1>1. /\ pc[c] = "check"
      /\ \/ pc' = [pc EXCEPT ![c] = "output"] /\ UNCHANGED next
         \/ /\ pc' = [pc EXCEPT ![c] = "ask"]
            /\ next' = [next EXCEPT ![c] = NextIndex(c)]
      /\ UNCHANGED <<phase, unreg, finished, swarm, requests, lists, hashes, wish, file,
                     oth, peer, present, upPc, rqOn>>
  BY DEF Check, tracker, store, upload, slots
<1>2. /\ pc'[c] = "output" \/ (pc'[c] = "ask" /\ next'[c] = NextIndex(c))
      /\ \A d \in Clients \ {c} : pc'[d] = pc[d] /\ next'[d] = next[d]
  BY <1>1 DEF SafeInv, BaseInv, TypeOK
<1>3. NextIndex(c) < Len(Others(c))
  <2>1. Len(Others(c)) \in Nat \ {0} /\ next[c] \in Nat
    BY <1>1, SomeOthers DEF IdlePcs, SafeInv, BaseInv, TypeOK
  <2>2. \A m \in Nat \ {0} : \A n \in Nat : ((n + 1) % m) < m
    OBVIOUS
  <2> QED
    BY <2>1, <2>2 DEF NextIndex
<1> QED
  BY <1>1, <1>2, <1>3, QuietProto DEF QuietPcs, Pcs, IdlePcs, GrantedPcs

\* The segment is stored; with every MaxFiles-th one, the tracker is asked.
LEMMA StoreProto ==
  ASSUME SafeInv, ProtoInv, NEW c \in Clients, Store(c)
  PROVE  ProtoInv'
<1>1. /\ pc[c] = "store"
      /\ \/ /\ requests' = requests \cup {SwarmRequest(c, file[c])}
            /\ pc' = [pc EXCEPT ![c] = "update"]
         \/ pc' = [pc EXCEPT ![c] = "release"] /\ UNCHANGED requests
      /\ UNCHANGED <<phase, unreg, finished, swarm, lists, hashes, wish, file,
                     oth, next, peer, present, upPc, rqOn>>
  BY DEF Store, tracker, upload, slots
<1>2. pc \in [Clients -> Pcs]
  BY DEF SafeInv, BaseInv, TypeOK
<1>3. ReplyOf(c) /\ ListsOf(c) /\ Known(peer[c], file[c])
  BY <1>1 DEF ProtoInv, ListsOf, GrantedPcs
<1>4. CASE pc' = [pc EXCEPT ![c] = "release"] /\ UNCHANGED requests
  <2>1. pc'[c] = "release" /\ \A d \in Clients \ {c} : pc'[d] = pc[d]
    BY <1>2, <1>4
  <2> QED
    BY <1>1, <1>3, <1>4, <2>1, QuietProto DEF QuietPcs, Pcs, IdlePcs
<1>5. CASE /\ requests' = requests \cup {SwarmRequest(c, file[c])}
           /\ pc' = [pc EXCEPT ![c] = "update"]
  <2>1. pc'[c] = "update" /\ \A d \in Clients \ {c} : pc'[d] = pc[d]
    BY <1>2, <1>5
  <2>2. Asking(c) = {} /\ lists[c] = <<>> /\ hashes[c] = <<>>
    BY <1>1, <1>3, Unasked DEF ReplyOf
  <2>3. PICK f \in Files : f = file[c]
    BY <1>1 DEF SafeInv, BaseInv, SeedKnown, Seeded, IdlePcs
  <2>4. /\ (Asking(c))' = {SwarmRequest(c, f)}
        /\ \A d \in Clients \ {c} : (Asking(d))' = Asking(d)
        /\ \A d \in Clients : DoneMessage(d) \in requests' <=> DoneMessage(d) \in requests
    BY <1>5, <2>2, <2>3, AskOne
  <2>5. (ReplyOf(c))'
    BY <1>1, <1>3, <2>1, <2>2, <2>3, <2>4 DEF ReplyOf, IdlePcs, SwarmRequest
  <2>6. (ListsOf(c))'
    <3>1. (Copy(oth[c], file[c]))'
      BY <1>1, <1>3 DEF ListsOf, IdlePcs, Copy
    <3>2. Len(lists'[c]) = 0
      BY <1>1, <2>2
    <3>3. (Known(peer[c], file[c]))'
      BY <1>1, <1>3 DEF Known
    <3> QED
      BY <2>1, <3>1, <3>2, <3>3 DEF ListsOf, IdlePcs
  <2>7. Order'
    BY <1>1, <2>1, <2>4, OrderFrame
  <2> QED
    BY <1>1, <2>1, <2>4, <2>5, <2>6, <2>7, OneClient DEF EarlyPcs
<1> QED
  BY <1>1, <1>4, <1>5

LEMMA OutputProto ==
  ASSUME SafeInv, ProtoInv, NEW c \in Clients, WriteOutput(c)
  PROVE  ProtoInv'
<1>1. /\ pc[c] = "output" /\ oth' = [oth EXCEPT ![c] = NoPeers]
      /\ pc' = [pc EXCEPT ![c] = "head"]
      /\ UNCHANGED <<phase, unreg, finished, swarm, requests, lists, hashes, wish, file,
                     next, peer, present, upPc, rqOn>>
  BY DEF WriteOutput, tracker, upload, slots
<1>2. /\ pc'[c] = "head" /\ oth'[c] = NoPeers
      /\ \A d \in Clients \ {c} : pc'[d] = pc[d] /\ oth'[d] = oth[d]
  BY <1>1 DEF SafeInv, BaseInv, TypeOK
<1>3. \A d \in Clients : (Asking(d))' = Asking(d)
  BY <1>1 DEF Asking
<1>4. ReplyOf(c) /\ Asking(c) = {} /\ lists[c] = <<>>
  BY <1>1, Unasked DEF ProtoInv
<1>5. (ReplyOf(c))'
  BY <1>1, <1>2, <1>3, <1>4 DEF ReplyOf, IdlePcs
<1>6. (ListsOf(c))'
  <2>1. Len(lists'[c]) = 0
    BY <1>1, <1>4
  <2> QED
    BY <1>2, <2>1 DEF ListsOf, IdlePcs, GrantedPcs
<1>7. Order'
  BY <1>1, <1>2, OrderFrame
<1> QED
  BY <1>1, <1>2, <1>3, <1>5, <1>6, <1>7, OneClient DEF EarlyPcs

-----------------------------------------------------------------------------
(* The steps of an upload thread and of a ready queue *)

\* One client's thread goes on, and nobody's lists change.
LEMMA UploadProto ==
  ASSUME SafeInv, ProtoInv, NEW p \in Clients, Upload(p)
  PROVE  ProtoInv'
<1>1. pc \in [Clients -> Pcs] /\ upPc \in [Clients -> {"idle", "scan", "reply", "exit"}]
      /\ present \in [Clients -> SUBSET Files] /\ UploadLink
  BY DEF SafeInv, BaseInv, TypeOK
<1>2. UNCHANGED <<phase, unreg, finished, swarm, requests, lists, hashes, wish, file,
                  oth, next, peer, rqOn>>
  BY DEF Upload, UploadAccept, UploadScan, UploadReply, tracker, download, slots
<1>3. \A d \in Clients : present[d] \subseteq present'[d]
  BY <1>1 DEF Upload, UploadAccept, UploadScan, UploadReply, store
<1>4. \A d \in Clients : upPc'[d] = "exit" <=> upPc[d] = "exit"
  BY <1>1 DEF Upload, UploadAccept, UploadScan, UploadReply
<1>5. CASE UploadScan(p)
  <2>1. pc' = pc
    BY <1>5 DEF UploadScan, download
  <2>2. Grows /\ \A d \in Clients : (Asking(d))' = Asking(d)
    BY <1>2 DEF Grows, Asking
  <2>3. \A d \in Clients : (ReplyOf(d))' /\ (ListsOf(d))'
    BY <1>2, <2>1, <2>2, Bystander
  <2>4. (\A f \in Files : (SwarmOf(f))') /\ Stores'
    BY <1>2, <1>3, <2>1, SwarmFrame
  <2>5. Order'
    BY <1>2, <1>4, <2>1, OrderFrame
  <2> QED
    BY <2>3, <2>4, <2>5 DEF ProtoInv
<1>6. ASSUME NEW c \in Clients,
             \/ pc[c] = "fetch" /\ pc' = [pc EXCEPT ![c] = "exists"]
             \/ pc[c] = "exists" /\ pc' = [pc EXCEPT ![c] = "store"]
      PROVE  ProtoInv'
  <2>1. /\ pc[c] \in {"fetch", "exists"} /\ pc'[c] \in {"exists", "store"}
        /\ \A d \in Clients \ {c} : pc'[d] = pc[d]
    BY <1>1, <1>6
  <2>2. Known(peer[c], file[c])
    BY <2>1 DEF ProtoInv, ListsOf, GrantedPcs
  <2> QED
    BY <1>2, <1>3, <1>4, <2>1, <2>2, QuietProto DEF QuietPcs, Pcs, IdlePcs
<1>7. CASE \E c \in Clients : UploadAccept(p, c)
  BY <1>6, <1>7 DEF UploadAccept
<1>8. CASE UploadReply(p)
  BY <1>1, <1>6, <1>8 DEF UploadReply, UploadLink
<1> QED
  BY <1>5, <1>7, <1>8 DEF Upload

\* The rank that grants is on the client's lists, and so the tracker knows it.
LEMMA ReadyProto ==
  ASSUME SafeInv, ProtoInv, NEW p \in Clients, NEW c \in Clients, Ready(p, c)
  PROVE  ProtoInv'
<1>1. UNCHANGED <<phase, unreg, finished, swarm, requests, lists, hashes, wish, file,
                  oth, next, present, upPc, rqOn>>
  BY DEF Ready, ReadyAsk, ReadyRelease, tracker, store, upload
<1>2. /\ TypeOK /\ pc \in [Clients -> Pcs] /\ peer \in [Clients -> Clients \cup {0}]
      /\ next \in [Clients -> Nat]
  BY DEF SafeInv, BaseInv, TypeOK
<1>3. CASE ReadyAsk(p, c)
  <2>1. /\ pc[c] = "ask" /\ p = Target(c)
        /\ peer' = [peer EXCEPT ![c] = p] /\ pc' = [pc EXCEPT ![c] = "allow"]
    BY <1>3 DEF ReadyAsk
  <2>2. /\ pc'[c] = "allow" /\ peer'[c] = p
        /\ \A d \in Clients \ {c} : pc'[d] = pc[d] /\ peer'[d] = peer[d]
    BY <1>2, <2>1
  <2>3. next[c] < Len(Others(c)) /\ Copy(oth[c], file[c])
    BY <2>1 DEF ProtoInv, ListsOf, IdlePcs
  <2>4. Len(Others(c)) \in Nat \ {0} /\ next[c] \in Nat
    BY <1>2, <2>1, SomeOthers DEF IdlePcs
  <2>5. next[c] + 1 \in 1 .. Len(Others(c))
    BY <2>3, <2>4
  <2>6. Known(p, file[c])
    BY <1>2, <2>1, <2>3, <2>5, OthersKnown DEF Target
  <2> QED
    BY <1>1, <2>1, <2>2, <2>6, QuietProto DEF QuietPcs, Pcs, IdlePcs
<1>4. CASE ReadyRelease(p, c)
  <2>1. pc[c] = "release" /\ pc' = [pc EXCEPT ![c] = "check"] /\ peer' = peer
    BY <1>4 DEF ReadyRelease
  <2>2. pc'[c] = "check" /\ \A d \in Clients \ {c} : pc'[d] = pc[d]
    BY <1>2, <2>1
  <2> QED
    BY <1>1, <2>1, <2>2, QuietProto DEF QuietPcs, Pcs, IdlePcs, GrantedPcs
<1> QED
  BY <1>3, <1>4 DEF Ready

-----------------------------------------------------------------------------
(* Every step, and the theorems *)

LEMMA NextProto == SafeInv /\ ProtoInv /\ [Next]_vars => ProtoInv'
<1> SUFFICES ASSUME SafeInv, ProtoInv, [Next]_vars PROVE ProtoInv'
  OBVIOUS
<1>1. ASSUME NEW c \in Clients, Serve(c) PROVE ProtoInv'
  BY <1>1, RegisterProto, InitDoneProto, SwarmProto, DoneProto DEF Serve
<1>2. ASSUME NEW c \in Clients, Download(c) PROVE ProtoInv'
  BY <1>2, StartProto, RequestProto, DoneDownloadingProto, ListsProto, HashesProto,
     PublishProto, AllowProto, StoreProto, CheckProto, OutputProto DEF Download
<1>3. ASSUME NEW c \in Clients, Upload(c) PROVE ProtoInv'
  BY <1>3, UploadProto
<1>4. ASSUME NEW c \in Clients, NEW p \in Clients, Ready(p, c) PROVE ProtoInv'
  BY <1>4, ReadyProto
<1>5. ASSUME TrackerStop \/ \E p \in Clients : ReadyStop(p) PROVE ProtoInv'
  BY <1>5, EndProto
<1>6. ASSUME UNCHANGED vars PROVE ProtoInv'
  <2>1. UNCHANGED <<phase, unreg, finished, swarm, requests, lists, hashes, pc, wish, file,
                    oth, next, peer, present, upPc, rqOn>>
    BY <1>6 DEF vars, tracker, download, store, upload, slots
  <2>2. Grows /\ \A d \in Clients : (Asking(d))' = Asking(d)
    BY <2>1 DEF Grows, Asking
  <2>3. \A d \in Clients : (ReplyOf(d))' /\ (ListsOf(d))'
    BY <2>1, <2>2, Bystander
  <2>4. (\A f \in Files : (SwarmOf(f))') /\ Stores'
    BY <2>1, SwarmFrame
  <2>5. Order'
    BY <2>1, OrderFrame
  <2> QED
    BY <2>3, <2>4, <2>5 DEF ProtoInv
<1> QED
  BY <1>1, <1>2, <1>3, <1>4, <1>5, <1>6 DEF Next, Halt

LEMMA ProtoInvariant == Spec => []ProtoInv
<1>1. Spec => []SafeInv
  BY SafeInvariant
<1>2. Init => ProtoInv
  BY InitProto
<1>3. SafeInv /\ ProtoInv /\ [Next]_vars => ProtoInv'
  BY NextProto
<1> QED
  BY <1>1, <1>2, <1>3, PTL DEF Spec

(***************************************************************************)
(* The tracker's reply always has the form that the client waits for, with *)
(* the hashes at lines 59-87 and without them at 136-150, and nothing of   *)
(* it is left in a mailbox.                                                *)
(***************************************************************************)
THEOREM ReplyTheorem == Spec => []ReplyProtocol
<1>1. SafeInv /\ ProtoInv => ReplyProtocol
  BY ProtoReply DEF SafeInv, BaseInv
<1> QED
  BY <1>1, SafeInvariant, ProtoInvariant, PTL

(***************************************************************************)
(* The index at line 102 is within the client's lists, also after a swarm  *)
(* update, and the lists name clients that the tracker knows, nobody       *)
(* twice.                                                                  *)
(***************************************************************************)
THEOREM NextTheorem == Spec => []NextInBounds
<1>1. SafeInv /\ ProtoInv => NextInBounds
  BY ProtoNext
<1> QED
  BY <1>1, SafeInvariant, ProtoInvariant, PTL

(***************************************************************************)
(* The upload thread inserts into own_files (line 222) only before its     *)
(* rank's download thread is past line 90 for that file.                   *)
(***************************************************************************)
THEOREM InsertTheorem == Spec => []InsertBeforePublish
<1>1. SafeInv /\ ProtoInv => InsertBeforePublish
  BY ProtoInsert
<1> QED
  BY <1>1, SafeInvariant, ProtoInvariant, PTL

(***************************************************************************)
(* Nobody downloads any more when the tracker leaves the Transfer loop,    *)
(* and so none of the threads stopped after that is still needed.          *)
(***************************************************************************)
THEOREM ShutdownTheorem == Spec => []ShutdownOrder
<1>1. SafeInv /\ ProtoInv => ShutdownOrder
  BY ProtoShutdown
<1> QED
  BY <1>1, SafeInvariant, ProtoInvariant, PTL
=============================================================================
