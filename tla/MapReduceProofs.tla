-------------------------- MODULE MapReduceProofs --------------------------
(***************************************************************************)
(* Theorems about MapReduce.tla, for any number of threads, files, words   *)
(* and letters and any range of char.                                      *)
(***************************************************************************)
EXTENDS MapReduce, FiniteSetTheorems, TLAPS

(***************************************************************************)
(* The inductive invariant.                                                *)
(***************************************************************************)

\* A thread is in arrived[k] from the moment it comes to barrier k.
Barriers ==
    /\ \A m \in Mappers : m \in arrived[0] <=> mpc[m] = "done"
    /\ \A r \in Reducers :
          /\ at[r] = "enter" => phase[r] = 0
          /\ at[r] \in {"claim", "work"} => phase[r] \in Loops
          /\ at[r] = "work" => letter[r] \in Int
          /\ r \in arrived[0] <=> phase[r] > 0 \/ at[r] = "barrier"
          /\ \A k \in Loops :
                r \in arrived[k] <=>
                    phase[r] > k \/ (phase[r] = k /\ at[r] = "barrier")
    /\ \A k \in Loops : arrived[k] \subseteq Reducers
    /\ \A r \in Reducers : \A k \in 0 .. 2 :
          phase[r] > k => arrived[k] = Participants(k)

\* A mapper that left found the queue empty; one that scans holds a file.
Mapping ==
    \A m \in Mappers : /\ mpc[m] = "done" => queue = {}
                       /\ mpc[m] = "scan" => held[m] \in FileIds

\* Before overflow, a counter is where the departures have brought it.
Counted ==
    \A k \in Loops : ~Drained(k) =>
        /\ CharA <= counter[k]
        /\ \/ arrived[k] = {} /\ counter[k] <= CharZ
           \/ counter[k] = CharZ + 1 + Cardinality(arrived[k])

\* Letters in work were taken from below the counter, each once.
Taken ==
    \A r \in Reducers : at[r] = "work" /\ ~Drained(phase[r]) =>
        CharA <= letter[r] /\ letter[r] <= CharZ
        /\ letter[r] < counter[phase[r]]

\* A letter is in work in loop k, or still to be taken there.
ToDo(l, k) ==
    \/ \E r \in Reducers : Working(r, k) /\ letter[r] = l
    \/ arrived[k] = {} /\ counter[k] <= l

\* Every letter is aggregated, in work or still to be taken, and what is
\* aggregated is right.
Aggregated(l) ==
    \A w \in Words : agg[l][w] = IF LetterOf[w] = l THEN FilesOf(w) ELSE {}
AggregationCovers ==
    ~wild => \A l \in Letters : Aggregated(l) \/ ToDo(l, 1)
AggregationSound ==
    \A l \in Letters : \A w \in Words :
        agg[l][w] \subseteq IF LetterOf[w] = l THEN FilesOf(w) ELSE {}

\* No mapper records a word that is not in the file.
WordsSound ==
    \A m \in Mappers : \A w \in Words : \A f \in FileIds :
        <<w, f>> \in words[m] => w \in Contents[f]

BaseInv == TypeOK /\ Barriers /\ Mapping
OwnerInv == BaseInv /\ Counted /\ Taken /\ OneOwner
SplitInv == BaseInv /\ WorkSplit /\ WordsSound
DataInv == SplitInv /\ AggregationSound /\ AggregationCovers

-----------------------------------------------------------------------------
(* Types, barriers and the queue *)

\* The initial state satisfies BaseInv.
LEMMA InitBase == Init => BaseInv
<1> SUFFICES ASSUME Init PROVE BaseInv
  OBVIOUS
<1> USE WordsAssumption, ThreadsAssumption
<1>1. counter \in [Loops -> CharMin .. CharMax]
  BY DEF Init
<1>2. agg \in [Letters -> [Words -> SUBSET FileIds]]
  BY DEF Init
<1>3. /\ mpc \in [Mappers -> {"pop", "scan", "done"}]
      /\ held \in [Mappers -> FileIds \cup {NoFile}]
      /\ words \in [Mappers -> SUBSET (Words \X FileIds)]
      /\ arrived \in [0 .. 3 -> SUBSET (Mappers \cup Reducers)]
  BY DEF Init
<1>4. /\ phase \in [Reducers -> 0 .. 3]
      /\ at \in [Reducers -> {"enter", "barrier", "claim", "work"}]
      /\ letter \in [Reducers -> (CharMin .. CharZ) \cup {NoLetter}]
  BY DEF Init
<1>5. TypeOK
  BY <1>1, <1>2, <1>3, <1>4 DEF Init, TypeOK
<1>6. Barriers
  <2>1. /\ \A k \in 0 .. 3 : arrived[k] = {}
        /\ \A m \in Mappers : mpc[m] = "pop"
        /\ \A r \in Reducers : at[r] = "enter" /\ phase[r] = 0
    BY DEF Init
  <2>2. /\ 0 \in 0 .. 3 /\ Loops \subseteq 0 .. 3
        /\ \A k \in Loops : k > 0
        /\ \A k \in 0 .. 2 : ~(0 > k)
    BY DEF Loops
  <2> QED
    BY <2>1, <2>2 DEF Barriers
<1>7. Mapping
  BY DEF Init, Mapping
<1> QED
  BY <1>5, <1>6, <1>7 DEF BaseInv

\* Every step keeps the types.
LEMMA NextType == BaseInv /\ [Next]_vars => TypeOK'
<1> SUFFICES ASSUME TypeOK, Barriers, Mapping, [Next]_vars PROVE TypeOK'
  BY DEF BaseInv
<1> USE WordsAssumption, ThreadsAssumption
    DEF mapVars, results, Exhausted, Rest, Successor
<1>1. ASSUME NEW m \in Mappers, Pop(m) PROVE TypeOK'
  <2>1. PICK f \in queue : held' = [held EXCEPT ![m] = f] /\ queue' = queue \ {f}
    BY <1>1 DEF Pop
  <2>2. held' \in [Mappers -> FileIds \cup {NoFile}] /\ queue' \subseteq FileIds
    BY <2>1 DEF TypeOK
  <2>3. mpc' \in [Mappers -> {"pop", "scan", "done"}]
    BY <1>1 DEF Pop, TypeOK
  <2> QED
    BY <1>1, <2>2, <2>3 DEF Pop, TypeOK
<1>2. ASSUME NEW m \in Mappers, Scan(m) PROVE TypeOK'
  <2>1. Contents[held[m]] \X {held[m]} \subseteq Words \X FileIds
    BY <1>2 DEF Scan, Mapping, TypeOK
  <2>2. words' \in [Mappers -> SUBSET (Words \X FileIds)]
    BY <1>2, <2>1 DEF Scan, TypeOK
  <2> QED
    BY <1>2, <2>2 DEF Scan, TypeOK
<1>3. ASSUME NEW m \in Mappers, Leave(m) PROVE TypeOK'
  BY <1>3 DEF Leave, TypeOK
<1>4. ASSUME NEW r \in Reducers, Enter(r) PROVE TypeOK'
  BY <1>4 DEF Enter, TypeOK
<1>5. ASSUME NEW r \in Reducers, Pass(r) PROVE TypeOK'
  BY <1>5 DEF Pass, TypeOK
<1>6. ASSUME NEW r \in Reducers, Claim(r) PROVE TypeOK'
  <2> DEFINE k == phase[r]
             v == counter[k]
  <2>1. k \in Loops /\ v \in CharMin .. CharMax
    BY <1>6 DEF Claim, TypeOK, Barriers
  <2>2. Successor(v) \in CharMin .. CharMax
    BY <2>1
  <2>3. counter' = [counter EXCEPT ![k] = Successor(v)]
    BY <1>6 DEF Claim
  <2>4. counter' \in [Loops -> CharMin .. CharMax]
    BY <2>2, <2>3 DEF TypeOK
  <2>5. CASE v > CharZ
    <3>1. /\ at' = [at EXCEPT ![r] = "barrier"]
          /\ arrived' = [arrived EXCEPT ![k] = @ \cup {r}]
          /\ letter' = letter
      BY <1>6, <2>5 DEF Claim
    <3>2. arrived' \in [0 .. 3 -> SUBSET (Mappers \cup Reducers)]
      BY <2>1, <3>1 DEF TypeOK, Loops
    <3> QED
      BY <1>6, <2>4, <3>1, <3>2 DEF Claim, TypeOK
  <2>6. CASE ~(v > CharZ)
    <3>1. /\ at' = [at EXCEPT ![r] = "work"]
          /\ arrived' = arrived
          /\ letter' = [letter EXCEPT ![r] = v]
      BY <1>6, <2>6 DEF Claim
    <3>2. v \in CharMin .. CharZ
      BY <2>1, <2>6
    <3>3. letter' \in [Reducers -> (CharMin .. CharZ) \cup {NoLetter}]
      BY <3>1, <3>2 DEF TypeOK
    <3> QED
      BY <1>6, <2>4, <3>1, <3>3 DEF Claim, TypeOK
  <2> QED
    BY <2>5, <2>6
<1>7. ASSUME NEW r \in Reducers, Aggregate(r) PROVE TypeOK'
  <2>1. agg' \in [Letters -> [Words -> SUBSET FileIds]] /\ wild' \in BOOLEAN
    <3>1. CASE letter[r] \in Letters
      <4> DEFINE l == letter[r]
                 row == [w \in Words |->
                           IF LetterOf[w] = l
                           THEN agg[l][w] \cup {f \in FileIds :
                                  \E m \in Mappers : <<w, f>> \in words[m]}
                           ELSE agg[l][w]]
      <4>1. row \in [Words -> SUBSET FileIds]
        BY <3>1 DEF TypeOK
      <4>2. agg' = [agg EXCEPT ![l] = row] /\ wild' = Clash(r)
        BY <1>7, <3>1 DEF Aggregate
      <4>3. agg' \in [Letters -> [Words -> SUBSET FileIds]]
        BY <4>1, <4>2 DEF TypeOK
      <4> QED
        BY <4>2, <4>3 DEF Clash
    <3>2. CASE letter[r] \notin Letters
      BY <1>7, <3>2 DEF Aggregate, TypeOK
    <3> QED
      BY <3>1, <3>2
  <2> QED
    BY <1>7, <2>1 DEF Aggregate, TypeOK
<1>8. ASSUME NEW r \in Reducers, Sort(r) PROVE TypeOK'
  BY <1>8 DEF Sort, TypeOK, Clash
<1>9. ASSUME NEW r \in Reducers, Write(r) PROVE TypeOK'
  BY <1>9 DEF Write, TypeOK, Clash
<1>10. CASE UNCHANGED vars
  BY <1>10 DEF vars, TypeOK
<1> QED
  BY <1>1, <1>2, <1>3, <1>4, <1>5, <1>6, <1>7, <1>8, <1>9, <1>10
     DEF Next, Mapper, Reducer, Halt

\* Every step keeps Mapping.
LEMMA NextMapping == BaseInv /\ [Next]_vars => Mapping'
<1> SUFFICES ASSUME TypeOK, Mapping, [Next]_vars PROVE Mapping'
  BY DEF BaseInv
<1> USE DEF mapVars, results, Rest
<1>1. ASSUME NEW m \in Mappers, Pop(m) PROVE Mapping'
  BY <1>1 DEF Pop, Mapping, TypeOK
<1>2. ASSUME NEW m \in Mappers, Scan(m) PROVE Mapping'
  BY <1>2 DEF Scan, Mapping, TypeOK
<1>3. ASSUME NEW m \in Mappers, Leave(m) PROVE Mapping'
  BY <1>3 DEF Leave, Mapping, TypeOK
<1>4. ASSUME NEW r \in Reducers, Reducer(r) PROVE Mapping'
  BY <1>4 DEF Reducer, Enter, Pass, Claim, Aggregate, Sort, Write, Mapping
<1>5. CASE UNCHANGED vars
  BY <1>5 DEF vars, Mapping
<1> QED
  BY <1>1, <1>2, <1>3, <1>4, <1>5 DEF Next, Mapper, Halt

\* Every step keeps Barriers.
LEMMA NextBarriers == BaseInv /\ [Next]_vars => Barriers'
<1> SUFFICES ASSUME TypeOK, Barriers, Mapping, [Next]_vars PROVE Barriers'
  BY DEF BaseInv
<1> USE ThreadsAssumption DEF mapVars, results
<1>1. ASSUME NEW m \in Mappers, Pop(m) \/ Scan(m) PROVE Barriers'
  <2>1. /\ mpc[m] # "done" /\ mpc'[m] # "done"
        /\ \A n \in Mappers \ {m} : mpc'[n] = mpc[n]
        /\ UNCHANGED <<arrived, phase, at, letter>>
    BY <1>1 DEF Pop, Scan, TypeOK
  <2> QED
    BY <2>1 DEF Barriers
<1>2. ASSUME NEW m \in Mappers, Leave(m) PROVE Barriers'
  <2>1. /\ arrived'[0] = arrived[0] \cup {m}
        /\ \A k \in Loops : arrived'[k] = arrived[k]
        /\ m \notin Reducers
        /\ mpc' = [mpc EXCEPT ![m] = "done"]
        /\ UNCHANGED <<phase, at, letter>>
    BY <1>2 DEF Leave, TypeOK, Loops
  <2>2. \A n \in Mappers : n \in arrived'[0] <=> mpc'[n] = "done"
    BY <2>1 DEF Barriers, TypeOK
  <2>3. \A r \in Reducers : \A k \in 0 .. 2 :
          phase'[r] > k => arrived'[k] = Participants(k)
    <3> SUFFICES ASSUME NEW r \in Reducers, NEW k \in 0 .. 2, phase[r] > k
                 PROVE  arrived'[k] = Participants(k)
      BY <2>1
    <3>1. arrived[k] = Participants(k)
      BY DEF Barriers
    <3>2. CASE k = 0
      BY <2>1, <3>1, <3>2 DEF Participants
    <3>3. CASE k # 0
      BY <2>1, <3>1, <3>3 DEF Loops
    <3> QED
      BY <3>2, <3>3
  <2> QED
    BY <2>1, <2>2, <2>3 DEF Barriers
<1>3. ASSUME NEW r \in Reducers, Enter(r) PROVE Barriers'
  <2>1. /\ at[r] = "enter" /\ phase[r] = 0 /\ at'[r] = "barrier"
        /\ arrived'[0] = arrived[0] \cup {r}
        /\ \A k \in Loops : arrived'[k] = arrived[k]
        /\ r \notin Mappers
        /\ \A s \in Reducers \ {r} : at'[s] = at[s]
        /\ UNCHANGED <<mpc, phase, letter>>
    BY <1>3 DEF Enter, TypeOK, Loops, Barriers
  <2>2. \A s \in Reducers : \A k \in 0 .. 2 :
          phase'[s] > k => arrived'[k] = Participants(k)
    <3> SUFFICES ASSUME NEW s \in Reducers, NEW k \in 0 .. 2, phase[s] > k
                 PROVE  arrived'[k] = Participants(k)
      BY <2>1
    <3>1. arrived[k] = Participants(k)
      BY DEF Barriers
    <3>2. CASE k = 0
      BY <2>1, <3>1, <3>2 DEF Participants
    <3>3. CASE k # 0
      BY <2>1, <3>1, <3>3 DEF Loops
    <3> QED
      BY <3>2, <3>3
  <2> QED
    BY <2>1, <2>2 DEF Barriers, Loops, TypeOK
<1>4. ASSUME NEW r \in Reducers, Pass(r) PROVE Barriers'
  <2>1. /\ at[r] = "barrier" /\ phase[r] \in 0 .. 2
        /\ arrived[phase[r]] = Participants(phase[r])
        /\ phase'[r] = phase[r] + 1 /\ at'[r] = "claim"
        /\ \A s \in Reducers \ {r} : at'[s] = at[s] /\ phase'[s] = phase[s]
        /\ UNCHANGED <<mpc, arrived, letter>>
    BY <1>4 DEF Pass, TypeOK
  <2>2. \A k \in 0 .. 2 : phase'[r] > k => arrived[k] = Participants(k)
    BY <2>1 DEF Barriers
  <2>3. \A k \in Loops : r \in arrived[k] <=> phase'[r] > k
    BY <2>1 DEF Barriers, Loops
  <2> QED
    BY <2>1, <2>2, <2>3 DEF Barriers, Loops
<1>5. ASSUME NEW r \in Reducers, Claim(r) PROVE Barriers'
  <2> DEFINE q == phase[r]
  <2>0. /\ at[r] = "claim" /\ q \in Loops
        /\ counter[q] \in CharMin .. CharMax
        /\ UNCHANGED <<mpc, phase>>
        /\ \A s \in Reducers \ {r} : at'[s] = at[s] /\ letter'[s] = letter[s]
    BY <1>5 DEF Claim, Barriers, TypeOK, Loops
  <2>1. CASE Exhausted(counter[q])
    <3>1. /\ at'[r] = "barrier"
          /\ arrived'[q] = arrived[q] \cup {r}
          /\ \A k \in (0 .. 3) \ {q} : arrived'[k] = arrived[k]
          /\ letter' = letter
      BY <1>5, <2>0, <2>1 DEF Claim, TypeOK, Loops
    <3>2. \A s \in Reducers : \A k \in 0 .. 2 :
            phase[s] > k => arrived'[k] = Participants(k)
      <4> SUFFICES ASSUME NEW s \in Reducers, NEW k \in 0 .. 2, phase[s] > k
                   PROVE  arrived'[k] = Participants(k)
        OBVIOUS
      <4>1. arrived[k] = Participants(k)
        BY DEF Barriers
      <4>2. CASE k = q
        <5>1. r \in Participants(k)
          BY <2>0, <4>2 DEF Participants, Loops
        <5> QED
          BY <3>1, <4>1, <4>2, <5>1
      <4>3. CASE k # q
        BY <3>1, <4>1, <4>3
      <4> QED
        BY <4>2, <4>3
    <3>3. 0 # q /\ 0 \in 0 .. 3 /\ Loops \subseteq 0 .. 3
      BY <2>0 DEF Loops
    <3>4. \A s \in Reducers : \A k \in Loops :
            s \in arrived'[k] <=>
               phase[s] > k \/ (phase[s] = k /\ at'[s] = "barrier")
      BY <2>0, <3>1, <3>3 DEF Barriers
    <3>5. \A k \in Loops : arrived'[k] \subseteq Reducers
      BY <3>1, <3>3 DEF Barriers
    <3>6. arrived'[0] = arrived[0]
      BY <3>1, <3>3
    <3>7. q > 0
      BY <2>0 DEF Loops
    <3> QED
      BY <2>0, <3>1, <3>2, <3>4, <3>5, <3>6, <3>7 DEF Barriers
  <2>2. CASE ~Exhausted(counter[q])
    <3>1. /\ at'[r] = "work" /\ arrived' = arrived /\ letter'[r] = counter[q]
          /\ letter'[r] \in Int
      BY <1>5, <2>0, <2>2, WordsAssumption DEF Claim, TypeOK, Loops
    <3> QED
      BY <2>0, <3>1 DEF Barriers
  <2> QED
    BY <2>1, <2>2
<1>6. ASSUME NEW r \in Reducers, Aggregate(r) \/ Sort(r) \/ Write(r)
      PROVE  Barriers'
  <2>1. /\ at[r] = "work" /\ at'[r] = "claim"
        /\ \A s \in Reducers \ {r} : at'[s] = at[s]
        /\ UNCHANGED <<mpc, arrived, phase, letter>>
    BY <1>6 DEF Aggregate, Sort, Write, Working, TypeOK
  <2> QED
    BY <2>1 DEF Barriers
<1>7. CASE UNCHANGED vars
  BY <1>7 DEF vars, Barriers
<1> QED
  BY <1>1, <1>2, <1>3, <1>4, <1>5, <1>6, <1>7
     DEF Next, Mapper, Reducer, Halt

\* The types, the barriers and the mappers' bookkeeping, in every state.
THEOREM BaseInvariant == Spec => []BaseInv
<1>1. BaseInv /\ [Next]_vars => BaseInv'
  BY NextType, NextMapping, NextBarriers DEF BaseInv
<1> QED
  BY <1>1, InitBase, PTL DEF Spec

\* Every variable keeps its type.
THEOREM TypeCorrect == Spec => []TypeOK
<1>1. BaseInv => TypeOK
  BY DEF BaseInv
<1> QED
  BY <1>1, BaseInvariant, PTL

-----------------------------------------------------------------------------
(* The letters and their owners *)

\* Arrivals are finite, and one more reducer at barrier k counts one more.
LEMMA ArrivalsFinite ==
  ASSUME BaseInv, NEW k \in Loops
  PROVE  /\ IsFiniteSet(arrived[k])
         /\ Cardinality(arrived[k]) \in Nat
         /\ \A r \in Reducers \ arrived[k] :
               Cardinality(arrived[k] \cup {r}) = Cardinality(arrived[k]) + 1
<1>1. IsFiniteSet(arrived[k])
  BY FS_Subset, ThreadsAssumption DEF BaseInv, Barriers
<1> QED
  BY <1>1, FS_CardinalityType, FS_AddElement

\* The initial state satisfies OwnerInv.
LEMMA InitOwner == Init => OwnerInv
<1> SUFFICES ASSUME Init PROVE OwnerInv
  OBVIOUS
<1>1. \A r \in Reducers : at[r] = "enter"
  BY DEF Init
<1>2. \A k \in Loops : arrived[k] = {} /\ counter[k] = CharA
  BY DEF Init, Loops
<1>3. Counted
  BY <1>2, WordsAssumption DEF Counted
<1>4. Taken /\ OneOwner
  BY <1>1 DEF Taken, OneOwner, Working
<1> QED
  BY <1>3, <1>4, InitBase DEF OwnerInv

\* A step of a mapper or of a reducer that takes no letter, and leaves
\* letters, counters and the arrivals of the loops as they are.
LEMMA QuietStep ==
  ASSUME OwnerInv,
         UNCHANGED <<letter, counter>>,
         \A k \in Loops : arrived'[k] = arrived[k],
         \A r \in Reducers : at'[r] = "work" =>
            at[r] = "work" /\ phase'[r] = phase[r]
  PROVE  Counted' /\ Taken' /\ OneOwner'
<1>1. \A k \in Loops : Drained(k)' = Drained(k)
  BY DEF Drained
<1>2. Counted'
  BY <1>1 DEF OwnerInv, Counted
<1>3. \A r \in Reducers : at[r] = "work" => phase[r] \in Loops
  BY DEF OwnerInv, BaseInv, Barriers
<1>4. Taken'
  BY <1>1, <1>3 DEF OwnerInv, Taken
<1>5. OneOwner'
  BY <1>1, <1>3 DEF OwnerInv, OneOwner, Working
<1> QED
  BY <1>2, <1>4, <1>5

\* fetch_add keeps Counted, Taken and OneOwner.
LEMMA ClaimOwner ==
  ASSUME OwnerInv, NEW r \in Reducers, Claim(r)
  PROVE  Counted' /\ Taken' /\ OneOwner'
<1> USE WordsAssumption, ThreadsAssumption
<1> DEFINE q == phase[r]
           v == counter[q]
           n == Cardinality(arrived[q])
<1>1. /\ at[r] = "claim" /\ q \in Loops
      /\ v \in CharMin .. CharMax /\ n \in Nat
      /\ counter'[q] = Successor(v)
      /\ \A k \in Loops \ {q} : counter'[k] = counter[k]
      /\ \A s \in Reducers \ {r} : at'[s] = at[s] /\ letter'[s] = letter[s]
      /\ phase' = phase
  BY ArrivalsFinite DEF OwnerInv, BaseInv, Claim, TypeOK, Barriers
<1>2. \A s \in Reducers : at[s] = "work" => s # r /\ phase[s] \in Loops
  BY <1>1 DEF OwnerInv, BaseInv, Barriers
<1>3. CASE Exhausted(v)
  <2>1. /\ at'[r] = "barrier" /\ letter' = letter
        /\ arrived'[q] = arrived[q] \cup {r}
        /\ \A k \in Loops \ {q} : arrived'[k] = arrived[k]
    BY <1>1, <1>3 DEF Claim, OwnerInv, BaseInv, TypeOK, Loops
  <2>2. r \notin arrived[q]
    BY <1>1 DEF OwnerInv, BaseInv, Barriers, Loops
  <2>3. Cardinality(arrived'[q]) = n + 1
    BY <1>1, <2>1, <2>2, ArrivalsFinite DEF OwnerInv
  <2>4. \A k \in Loops : ~Drained(k)' => ~Drained(k)
    <3> SUFFICES ASSUME NEW k \in Loops, ~Drained(k)' PROVE ~Drained(k)
      OBVIOUS
    <3>1. CASE k = q
      BY <1>1, <2>3, <3>1 DEF Drained
    <3>2. CASE k # q
      BY <2>1, <3>2 DEF Drained
    <3> QED
      BY <3>1, <3>2
  <2>5. ASSUME ~Drained(q)' PROVE counter'[q] = CharZ + 1 + (n + 1)
    <3>1. n + 1 < CharMax - CharZ
      BY <1>1, <2>3, <2>5 DEF Drained
    <3>2. v = CharZ + 1 + n
      BY <1>1, <1>3, <2>4, <2>5 DEF OwnerInv, Counted, Exhausted
    <3> QED
      BY <1>1, <3>1, <3>2 DEF Successor
  <2>6. Counted'
    <3> SUFFICES ASSUME NEW k \in Loops, ~Drained(k)'
                 PROVE  /\ CharA <= counter'[k]
                        /\ \/ arrived'[k] = {} /\ counter'[k] <= CharZ
                           \/ counter'[k] = CharZ + 1 + Cardinality(arrived'[k])
      BY DEF Counted
    <3>1. CASE k = q
      BY <1>1, <2>3, <2>5, <3>1
    <3>2. CASE k # q
      <4>1. ~Drained(k)
        BY <2>4
      <4> QED
        BY <1>1, <2>1, <3>2, <4>1 DEF OwnerInv, Counted
    <3> QED
      BY <3>1, <3>2
  <2>7. Taken'
    <3> SUFFICES ASSUME NEW s \in Reducers, at'[s] = "work",
                        ~Drained(phase[s])'
                 PROVE  /\ CharA <= letter[s] /\ letter[s] <= CharZ
                        /\ letter[s] < counter'[phase[s]]
      BY <1>1, <2>1 DEF Taken
    <3>1. s # r /\ at[s] = "work" /\ phase[s] \in Loops
      BY <1>1, <1>2, <2>1
    <3>2. ~Drained(phase[s]) /\ phase'[s] = phase[s]
      BY <1>1, <2>4, <3>1 DEF Drained
    <3>3. /\ CharA <= letter[s] /\ letter[s] <= CharZ
          /\ letter[s] < counter[phase[s]]
      BY <3>1, <3>2 DEF OwnerInv, Taken
    <3>4. CASE phase[s] = q
      <4>1. ~Drained(q)'
        BY <1>1, <3>4, <3>2 DEF Drained
      <4>2. counter'[q] = CharZ + 1 + (n + 1)
        BY <2>5, <4>1
      <4>3. letter[s] \in Int
        BY <3>1 DEF OwnerInv, BaseInv, Barriers
      <4> QED
        BY <1>1, <3>3, <3>4, <4>2, <4>3
    <3>5. CASE phase[s] # q
      BY <1>1, <3>1, <3>3, <3>5
    <3> QED
      BY <3>4, <3>5
  <2>8. OneOwner'
    <3>1. \A s \in Reducers : at'[s] = "work" => at[s] = "work"
      BY <1>1, <2>1
    <3>2. \A s \in Reducers : at'[s] = "work" /\ ~Drained(phase[s])'
                              => ~Drained(phase[s])
      BY <1>1, <1>2, <2>4, <3>1 DEF Drained
    <3> QED
      BY <1>1, <2>1, <3>1, <3>2 DEF OwnerInv, OneOwner, Working, Drained
  <2> QED
    BY <2>6, <2>7, <2>8
<1>4. CASE ~Exhausted(v)
  <2>1. /\ at'[r] = "work" /\ letter'[r] = v /\ arrived' = arrived
        /\ v <= CharZ /\ counter'[q] = v + 1
    BY <1>1, <1>4 DEF Claim, OwnerInv, BaseInv, TypeOK, Exhausted, Successor
  <2>2. \A k \in Loops : Drained(k)' = Drained(k)
    BY <2>1 DEF Drained
  <2>3. ASSUME ~Drained(q)
        PROVE  CharA <= v /\ arrived[q] = {} /\ n = 0
    <3>1. /\ CharA <= v
          /\ \/ arrived[q] = {} /\ v <= CharZ
             \/ v = CharZ + 1 + n
      BY <1>1, <2>3 DEF OwnerInv, Counted
    <3>2. arrived[q] = {}
      BY <1>1, <2>1, <3>1
    <3> QED
      BY <3>1, <3>2, FS_EmptySet
  <2>4. Counted'
    <3> SUFFICES ASSUME NEW k \in Loops, ~Drained(k)
                 PROVE  /\ CharA <= counter'[k]
                        /\ \/ arrived[k] = {} /\ counter'[k] <= CharZ
                           \/ counter'[k] = CharZ + 1 + Cardinality(arrived[k])
      BY <2>1, <2>2 DEF Counted
    <3>1. CASE k = q
      BY <1>1, <2>1, <2>3, <3>1
    <3>2. CASE k # q
      BY <1>1, <3>2 DEF OwnerInv, Counted
    <3> QED
      BY <3>1, <3>2
  <2>5. \A s \in Reducers \ {r} :
          at[s] = "work" /\ ~Drained(phase[s]) =>
             /\ CharA <= letter[s] /\ letter[s] <= CharZ
             /\ letter[s] < counter[phase[s]]
             /\ letter[s] \in Int
    BY DEF OwnerInv, BaseInv, Barriers, Taken
  <2>6. Taken'
    <3> SUFFICES ASSUME NEW s \in Reducers, at'[s] = "work",
                        ~Drained(phase[s])
                 PROVE  /\ CharA <= letter'[s] /\ letter'[s] <= CharZ
                        /\ letter'[s] < counter'[phase[s]]
      <4>1. ASSUME NEW s \in Reducers, at'[s] = "work"
            PROVE  phase'[s] = phase[s] /\ phase[s] \in Loops
        BY <1>1, <1>2, <4>1
      <4> QED
        BY <2>2, <4>1 DEF Taken
    <3>1. CASE s = r
      BY <1>1, <2>1, <2>3, <3>1
    <3>2. CASE s # r
      <4>1. /\ CharA <= letter'[s] /\ letter'[s] <= CharZ
            /\ letter'[s] < counter[phase[s]]
            /\ letter'[s] \in Int /\ phase[s] \in Loops
        BY <1>1, <1>2, <2>5, <3>2
      <4> QED
        BY <1>1, <2>1, <4>1
    <3> QED
      BY <3>1, <3>2
  <2>7. OneOwner'
    <3> SUFFICES ASSUME NEW s \in Reducers, NEW t \in Reducers,
                        at'[s] = "work", ~Drained(phase[s])
                 PROVE  /\ letter'[s] \in Letters
                        /\ Working(t, phase[s])' /\ letter'[t] = letter'[s]
                              => t = s
      <4>1. ASSUME NEW s \in Reducers, at'[s] = "work"
            PROVE  phase'[s] = phase[s] /\ phase[s] \in Loops
        BY <1>1, <1>2, <4>1
      <4> QED
        BY <1>1, <2>2, <4>1 DEF OneOwner, Working
    <3>1. letter'[s] \in Letters
      <4>1. CASE s = r
        BY <1>1, <2>1, <2>3, <4>1 DEF Letters
      <4>2. CASE s # r
        BY <1>1, <2>5, <4>2 DEF Letters
      <4> QED
        BY <4>1, <4>2
    <3>2. ASSUME Working(t, phase[s])', letter'[t] = letter'[s], t # s
          PROVE  FALSE
      <4>1. at'[t] = "work" /\ phase[t] = phase[s]
        BY <1>1, <3>2 DEF Working
      <4>2. CASE s = r
        <5>1. t # r /\ at[t] = "work" /\ ~Drained(phase[t]) /\ phase[t] = q
          BY <1>1, <3>2, <4>1, <4>2
        <5>2. letter[t] < v /\ letter[t] \in Int /\ letter[t] = v
          BY <1>1, <2>1, <2>5, <3>2, <4>2, <5>1
        <5> QED
          BY <1>1, <5>2
      <4>3. CASE t = r
        <5>1. s # r /\ at[s] = "work" /\ phase[s] = q
          BY <1>1, <3>2, <4>1, <4>3
        <5>2. letter[s] < v /\ letter[s] \in Int /\ letter[s] = v
          BY <1>1, <2>1, <2>5, <3>2, <4>3, <5>1
        <5> QED
          BY <1>1, <5>2
      <4>4. CASE s # r /\ t # r
        BY <1>1, <3>2, <4>1, <4>4 DEF OwnerInv, OneOwner, Working
      <4> QED
        BY <4>2, <4>3, <4>4
    <3> QED
      BY <3>1, <3>2
  <2> QED
    BY <2>4, <2>6, <2>7
<1> QED
  BY <1>3, <1>4

\* Every step keeps OwnerInv.
LEMMA NextOwner == OwnerInv /\ [Next]_vars => OwnerInv'
<1> SUFFICES ASSUME OwnerInv, [Next]_vars PROVE OwnerInv'
  OBVIOUS
<1> USE DEF mapVars, results
<1>1. BaseInv'
  BY NextType, NextMapping, NextBarriers DEF OwnerInv, BaseInv
<1>2. ASSUME NEW m \in Mappers, Mapper(m)
      PROVE  Counted' /\ Taken' /\ OneOwner'
  BY <1>2, QuietStep
     DEF Mapper, Pop, Scan, Leave, Loops, OwnerInv, BaseInv, TypeOK
<1>3. ASSUME NEW r \in Reducers, Enter(r) \/ Pass(r)
      PROVE  Counted' /\ Taken' /\ OneOwner'
  <2>1. /\ UNCHANGED <<letter, counter>>
        /\ at'[r] # "work"
        /\ \A s \in Reducers \ {r} : at'[s] = at[s] /\ phase'[s] = phase[s]
        /\ \A k \in Loops : arrived'[k] = arrived[k]
    BY <1>3 DEF Enter, Pass, Loops, OwnerInv, BaseInv, TypeOK
  <2> QED
    BY <2>1, QuietStep
<1>4. ASSUME NEW r \in Reducers, Claim(r)
      PROVE  Counted' /\ Taken' /\ OneOwner'
  BY <1>4, ClaimOwner
<1>5. ASSUME NEW r \in Reducers, Aggregate(r) \/ Sort(r) \/ Write(r)
      PROVE  Counted' /\ Taken' /\ OneOwner'
  <2>1. /\ UNCHANGED <<letter, counter, arrived, phase>>
        /\ at'[r] # "work"
        /\ \A s \in Reducers \ {r} : at'[s] = at[s]
    BY <1>5 DEF Aggregate, Sort, Write, OwnerInv, BaseInv, TypeOK
  <2> QED
    BY <2>1, QuietStep
<1>6. ASSUME UNCHANGED vars PROVE Counted' /\ Taken' /\ OneOwner'
  BY <1>6, QuietStep DEF vars
<1> QED
  BY <1>1, <1>2, <1>3, <1>4, <1>5, <1>6
     DEF Next, Reducer, Halt, OwnerInv

\* OwnerInv holds in every state.
LEMMA OwnerInvariant == Spec => []OwnerInv
<1> QED
  BY InitOwner, NextOwner, PTL DEF Spec

\* Until CharMax - 'z' reducers have left a loop, the letters in work there
\* are letters, and no two reducers have the same one.
THEOREM OwnerTheorem == Spec => []OneOwner
<1>1. OwnerInv => OneOwner
  BY DEF OwnerInv
<1> QED
  BY <1>1, OwnerInvariant, PTL

\* A step that goes wild meets a drained loop that it is still in.
LEMMA NextWild == OwnerInv /\ WildOnlyDrained /\ [Next]_vars => WildOnlyDrained'
<1> SUFFICES ASSUME OwnerInv, WildOnlyDrained, [Next]_vars, wild'
             PROVE  \E k \in Loops : Drained(k)' /\ arrived'[k] # Reducers
  BY DEF WildOnlyDrained
<1>1. CASE wild
  <2>1. UNCHANGED arrived
    BY <1>1 DEF Next, Halt, vars
  <2> QED
    BY <1>1, <2>1 DEF WildOnlyDrained, Drained
<1>2. ASSUME ~wild, NEW r \in Reducers, Aggregate(r) \/ Sort(r) \/ Write(r)
      PROVE  \E k \in Loops : Drained(k)' /\ arrived'[k] # Reducers
  <2>1. /\ at[r] = "work" /\ phase[r] \in Loops /\ arrived' = arrived
        /\ letter[r] \in Letters => Clash(r)
    <3>1. CASE Aggregate(r)
      <4>1. /\ at[r] = "work" /\ phase[r] = 1 /\ arrived' = arrived
        BY <3>1 DEF Aggregate, Working
      <4>2. ASSUME letter[r] \in Letters PROVE Clash(r)
        BY <3>1, <4>2, Zenon DEF Aggregate
      <4> QED
        BY <4>1, <4>2 DEF Loops
    <3>2. CASE Sort(r)
      <4>1. /\ at[r] = "work" /\ phase[r] = 2 /\ arrived' = arrived
        BY <3>2 DEF Sort, Working
      <4>2. ASSUME letter[r] \in Letters PROVE Clash(r)
        BY <3>2, <4>2, Zenon DEF Sort
      <4> QED
        BY <4>1, <4>2 DEF Loops
    <3>3. CASE Write(r)
      <4>1. /\ at[r] = "work" /\ phase[r] = 3 /\ arrived' = arrived
        BY <3>3 DEF Write, Working
      <4>2. ASSUME letter[r] \in Letters PROVE Clash(r)
        BY <3>3, <4>2, Zenon DEF Write
      <4> QED
        BY <4>1, <4>2 DEF Loops
    <3> QED
      BY <1>2, <3>1, <3>2, <3>3
  <2>2. Drained(phase[r])
    BY <2>1 DEF OwnerInv, OneOwner, Clash
  <2>3. r \notin arrived[phase[r]]
    BY <2>1 DEF OwnerInv, BaseInv, Barriers, Loops
  <2> QED
    BY <2>1, <2>2, <2>3 DEF Drained
<1>3. CASE ~wild /\ wild' = wild
  BY <1>3
<1>4. \/ wild' = wild
      \/ \E r \in Reducers : Aggregate(r) \/ Sort(r) \/ Write(r)
  BY DEF Next, Mapper, Reducer, Halt, Pop, Scan, Leave, Enter, Pass, Claim, vars
<1> QED
  BY <1>1, <1>2, <1>3, <1>4

\* The program leaves its vectors, or has two reducers at one element, only
\* in a loop that CharMax - 'z' reducers have left and another is still in.
THEOREM WildTheorem == Spec => []WildOnlyDrained
<1>1. Init => WildOnlyDrained
  BY DEF Init, WildOnlyDrained
<1> QED
  BY <1>1, NextWild, OwnerInvariant, PTL DEF Spec

\* With CharMax - 'z' reducers or fewer (five, for the code's signed char) the
\* overflow does no harm.
THEOREM FewReducers ==
  ASSUME Cardinality(Reducers) <= CharMax - CharZ
  PROVE  Spec => []~wild
<1>1. BaseInv /\ WildOnlyDrained => ~wild
  <2> SUFFICES ASSUME BaseInv, NEW k \in Loops,
                      Drained(k), arrived[k] # Reducers
               PROVE  FALSE
    BY DEF WildOnlyDrained
  <2>1. arrived[k] \subseteq Reducers
    BY DEF BaseInv, Barriers
  <2>2. Cardinality(arrived[k]) # Cardinality(Reducers)
        /\ Cardinality(arrived[k]) <= Cardinality(Reducers)
    BY <2>1, FS_Subset, ThreadsAssumption
  <2>3. Cardinality(Reducers) \in Nat
    BY FS_CardinalityType, ThreadsAssumption
  <2>4. CharMax - CharZ \in Int
    BY ThreadsAssumption, WordsAssumption
  <2> QED
    BY <2>2, <2>3, <2>4, ArrivalsFinite DEF Drained
<1> QED
  BY <1>1, WildTheorem, BaseInvariant, PTL

-----------------------------------------------------------------------------
(* The words and the aggregated maps *)

\* Every step keeps WorkSplit and WordsSound.
LEMMA NextSplit == SplitInv /\ [Next]_vars => SplitInv'
<1> SUFFICES ASSUME SplitInv, [Next]_vars PROVE WorkSplit' /\ WordsSound'
  BY NextType, NextMapping, NextBarriers DEF SplitInv, BaseInv
<1> USE WordsAssumption, ThreadsAssumption DEF mapVars, results
<1>1. ASSUME NEW m \in Mappers, Pop(m) PROVE WorkSplit' /\ WordsSound'
  <2>1. PICK g \in queue : /\ held' = [held EXCEPT ![m] = g]
                           /\ queue' = queue \ {g}
    BY <1>1 DEF Pop, Rest
  <2>2. /\ words' = words
        /\ mpc[m] = "pop" /\ mpc'[m] = "scan"
        /\ held'[m] = g /\ g \in FileIds
        /\ \A n \in Mappers \ {m} : mpc'[n] = mpc[n] /\ held'[n] = held[n]
    BY <1>1, <2>1 DEF Pop, SplitInv, BaseInv, TypeOK
  <2>3. \A n \in Mappers : \A f \in FileIds : Recorded(n, f)' = Recorded(n, f)
    BY <2>2 DEF Recorded
  <2>4. \A n \in Mappers : \A f \in FileIds :
          Holds(n, f)' <=> Holds(n, f) \/ (n = m /\ f = g)
    BY <2>2 DEF Holds
  <2>5. WorkSplit'
    <3> SUFFICES ASSUME NEW f \in FileIds
                 PROVE  IF f \in queue'
                        THEN \A n \in Mappers : Untouched(n, f)'
                        ELSE \E o \in Mappers :
                                /\ IF Holds(o, f)' THEN Recorded(o, f)' = {}
                                   ELSE Recorded(o, f)' = Contents[f]
                                /\ \A n \in Mappers \ {o} : Untouched(n, f)'
      BY DEF WorkSplit
    <3>1. CASE f = g
      <4>1. \A n \in Mappers : Untouched(n, f)
        BY <3>1 DEF SplitInv, WorkSplit
      <4>2. f \notin queue' /\ Holds(m, f)' /\ Recorded(m, f)' = {}
        BY <2>1, <2>3, <2>4, <3>1, <4>1 DEF Untouched
      <4>3. \A n \in Mappers \ {m} : Untouched(n, f)'
        BY <2>3, <2>4, <4>1 DEF Untouched
      <4> QED
        BY <4>2, <4>3
    <3>2. CASE f # g
      <4>1. \A n \in Mappers : /\ Holds(n, f)' <=> Holds(n, f)
                               /\ Recorded(n, f)' = Recorded(n, f)
                               /\ Untouched(n, f)' <=> Untouched(n, f)
        BY <2>3, <2>4, <3>2 DEF Untouched
      <4>2. f \in queue' <=> f \in queue
        BY <2>1, <3>2
      <4>3. IF f \in queue
            THEN \A n \in Mappers : Untouched(n, f)
            ELSE \E o \in Mappers :
                    /\ IF Holds(o, f) THEN Recorded(o, f) = {}
                       ELSE Recorded(o, f) = Contents[f]
                    /\ \A n \in Mappers \ {o} : Untouched(n, f)
        BY DEF SplitInv, WorkSplit
      <4> QED
        BY <4>1, <4>2, <4>3
    <3> QED
      BY <3>1, <3>2
  <2> QED
    BY <2>2, <2>5 DEF SplitInv, WordsSound
<1>2. ASSUME NEW m \in Mappers, Scan(m) PROVE WorkSplit' /\ WordsSound'
  <2>0. PICK g \in FileIds : g = held[m]
    BY <1>2 DEF Scan, SplitInv, BaseInv, Mapping
  <2>1. /\ Holds(m, g)
        /\ queue' = queue /\ held' = held
        /\ mpc' = [mpc EXCEPT ![m] = "pop"]
        /\ words'[m] = words[m] \cup (Contents[g] \X {g})
        /\ \A n \in Mappers \ {m} : words'[n] = words[n]
    BY <1>2, <2>0 DEF Scan, Holds, SplitInv, BaseInv, TypeOK
  <2>2. g \notin queue /\ Recorded(m, g) = {}
        /\ \A n \in Mappers \ {m} : Untouched(n, g)
    BY <2>1 DEF SplitInv, WorkSplit, Untouched
  <2>3. Recorded(m, g)' = Contents[g]
    BY <2>1, <2>2 DEF Recorded
  <2>4. \A n \in Mappers : \A f \in FileIds :
          n # m \/ f # g => Recorded(n, f)' = Recorded(n, f)
    BY <2>1 DEF Recorded
  <2>5. \A n \in Mappers : \A f \in FileIds :
          Holds(n, f)' <=> Holds(n, f) /\ ~(n = m /\ f = g)
    BY <2>1 DEF Holds, SplitInv, BaseInv, TypeOK
  <2>6. WorkSplit'
    <3> SUFFICES ASSUME NEW f \in FileIds
                 PROVE  IF f \in queue
                        THEN \A n \in Mappers : Untouched(n, f)'
                        ELSE \E o \in Mappers :
                                /\ IF Holds(o, f)' THEN Recorded(o, f)' = {}
                                   ELSE Recorded(o, f)' = Contents[f]
                                /\ \A n \in Mappers \ {o} : Untouched(n, f)'
      BY <2>1 DEF WorkSplit
    <3>1. CASE f = g
      <4>1. ~Holds(m, f)' /\ Recorded(m, f)' = Contents[f]
        BY <2>3, <2>5, <3>1
      <4>2. \A n \in Mappers \ {m} : Untouched(n, f)'
        BY <2>2, <2>4, <2>5, <3>1 DEF Untouched
      <4> QED
        BY <2>2, <3>1, <4>1, <4>2
    <3>2. CASE f # g
      <4>1. \A n \in Mappers : /\ Holds(n, f)' <=> Holds(n, f)
                               /\ Recorded(n, f)' = Recorded(n, f)
                               /\ Untouched(n, f)' <=> Untouched(n, f)
        BY <2>4, <2>5, <3>2 DEF Untouched
      <4>2. IF f \in queue
            THEN \A n \in Mappers : Untouched(n, f)
            ELSE \E o \in Mappers :
                    /\ IF Holds(o, f) THEN Recorded(o, f) = {}
                       ELSE Recorded(o, f) = Contents[f]
                    /\ \A n \in Mappers \ {o} : Untouched(n, f)
        BY DEF SplitInv, WorkSplit
      <4> QED
        BY <4>1, <4>2
    <3> QED
      BY <3>1, <3>2
  <2>7. WordsSound'
    BY <2>1 DEF SplitInv, WordsSound
  <2> QED
    BY <2>6, <2>7
<1>3. ASSUME NEW m \in Mappers, Leave(m) PROVE WorkSplit' /\ WordsSound'
  <2>1. /\ UNCHANGED <<queue, held, words>>
        /\ \A n \in Mappers : mpc'[n] = "scan" <=> mpc[n] = "scan"
    BY <1>3 DEF Leave, SplitInv, BaseInv, TypeOK
  <2>2. \A n \in Mappers : \A f \in FileIds :
          /\ Holds(n, f)' <=> Holds(n, f)
          /\ Recorded(n, f)' = Recorded(n, f)
          /\ Untouched(n, f)' <=> Untouched(n, f)
    BY <2>1 DEF Holds, Recorded, Untouched
  <2>3. WorkSplit'
    BY <2>1, <2>2 DEF SplitInv, WorkSplit
  <2> QED
    BY <2>1, <2>3 DEF SplitInv, WordsSound
<1>4. ASSUME UNCHANGED mapVars PROVE WorkSplit' /\ WordsSound'
  BY <1>4 DEF SplitInv, WorkSplit, WordsSound, Holds, Recorded, Untouched
<1>5. ASSUME NEW r \in Reducers, Reducer(r) PROVE UNCHANGED mapVars
  BY <1>5 DEF Reducer, Enter, Pass, Claim, Aggregate, Sort, Write
<1>6. CASE UNCHANGED vars
  BY <1>4, <1>6 DEF vars
<1> QED
  BY <1>1, <1>2, <1>3, <1>4, <1>5, <1>6 DEF Next, Mapper, Halt

\* SplitInv holds in every state.
LEMMA SplitInvariant == Spec => []SplitInv
<1>1. Init => WorkSplit /\ WordsSound
  BY DEF Init, WorkSplit, WordsSound, Holds, Recorded, Untouched
<1>2. Init => SplitInv
  BY <1>1, InitBase DEF SplitInv
<1> QED
  BY <1>2, NextSplit, PTL DEF Spec

\* Each file is waiting, or held or completely recorded by just one mapper.
THEOREM SplitTheorem == Spec => []WorkSplit
<1>1. SplitInv => WorkSplit
  BY DEF SplitInv
<1> QED
  BY <1>1, SplitInvariant, PTL

\* When the mappers are done, what they recorded is all there is.
LEMMA AllRecorded ==
  ASSUME SplitInv, NEW r \in Reducers, phase[r] >= 1
  PROVE  /\ \A m \in Mappers : mpc[m] = "done"
         /\ \A w \in Words :
               FilesOf(w) = {f \in FileIds :
                               \E m \in Mappers : <<w, f>> \in words[m]}
<1>1. arrived[0] = Mappers \cup Reducers
  <2>1. phase[r] > 0 /\ 0 \in 0 .. 2
    BY DEF SplitInv, BaseInv, TypeOK
  <2> QED
    BY <2>1 DEF SplitInv, BaseInv, Barriers, Participants
<1>2. \A m \in Mappers : mpc[m] = "done"
  BY <1>1 DEF SplitInv, BaseInv, Barriers
<1>3. queue = {}
  BY <1>2, ThreadsAssumption DEF SplitInv, BaseInv, Mapping
<1>4. \A f \in FileIds : \E m \in Mappers : Recorded(m, f) = Contents[f]
  BY <1>2, <1>3 DEF SplitInv, WorkSplit, Holds
<1>5. ASSUME NEW w \in Words, NEW f \in FileIds
      PROVE  w \in Contents[f] <=> \E m \in Mappers : <<w, f>> \in words[m]
  <2>1. ASSUME w \in Contents[f]
        PROVE  \E m \in Mappers : <<w, f>> \in words[m]
    BY <1>4, <2>1 DEF Recorded
  <2> QED
    BY <2>1 DEF SplitInv, WordsSound
<1> QED
  BY <1>2, <1>5 DEF FilesOf

\* Aggregate makes its letter's map right.
LEMMA AggregateRight ==
  ASSUME DataInv, NEW r \in Reducers, Aggregate(r), letter[r] \in Letters
  PROVE  /\ Aggregated(letter[r])'
         /\ \A l \in Letters \ {letter[r]} : agg'[l] = agg[l]
<1> DEFINE l == letter[r]
           row == [w \in Words |->
                     IF LetterOf[w] = l
                     THEN agg[l][w] \cup {f \in FileIds :
                            \E m \in Mappers : <<w, f>> \in words[m]}
                     ELSE agg[l][w]]
<1>1. agg' = [agg EXCEPT ![l] = row] /\ letter' = letter /\ phase[r] = 1
  BY DEF Aggregate, Working
<1>2. agg'[l] = row /\ \A k \in Letters \ {l} : agg'[k] = agg[k]
  BY <1>1 DEF DataInv, SplitInv, BaseInv, TypeOK
<1>3. SplitInv /\ phase[r] >= 1
  BY <1>1 DEF DataInv
<1>4. \A w \in Words : agg[l][w] \subseteq
                          IF LetterOf[w] = l THEN FilesOf(w) ELSE {}
  BY DEF DataInv, AggregationSound
<1>5. \A w \in Words : row[w] = IF LetterOf[w] = l THEN FilesOf(w) ELSE {}
  <2> SUFFICES ASSUME NEW w \in Words
               PROVE  row[w] = IF LetterOf[w] = l THEN FilesOf(w) ELSE {}
    OBVIOUS
  <2>1. FilesOf(w) = {f \in FileIds :
                        \E m \in Mappers : <<w, f>> \in words[m]}
    BY <1>3, AllRecorded
  <2>2. CASE LetterOf[w] = l
    BY <1>4, <2>1, <2>2
  <2>3. CASE LetterOf[w] # l
    BY <1>4, <2>3
  <2> QED
    BY <2>2, <2>3
<1> HIDE DEF row
<1> QED
  BY <1>1, <1>2, <1>5 DEF Aggregated, FilesOf

\* fetch_add gives the letter to the reducer, or leaves it for another one.
LEMMA ClaimToDo ==
  ASSUME BaseInv, NEW r \in Reducers, Claim(r),
         NEW k \in Loops, NEW l \in Letters, ToDo(l, k)
  PROVE  ToDo(l, k)'
<1> USE WordsAssumption, ThreadsAssumption
<1> DEFINE q == phase[r]
           v == counter[q]
<1>1. /\ at[r] = "claim" /\ q \in Loops
      /\ v \in CharMin .. CharMax
      /\ counter'[q] = Successor(v)
      /\ \A i \in Loops \ {q} : counter'[i] = counter[i]
      /\ \A s \in Reducers \ {r} : at'[s] = at[s] /\ letter'[s] = letter[s]
      /\ phase' = phase
      /\ \A i \in Loops \ {q} : arrived'[i] = arrived[i]
  BY DEF BaseInv, Claim, TypeOK, Barriers, Loops
<1>2. CASE \E s \in Reducers : Working(s, k) /\ letter[s] = l
  <2>1. PICK s \in Reducers : Working(s, k) /\ letter[s] = l
    BY <1>2
  <2>2. Working(s, k)' /\ letter'[s] = l
    BY <1>1, <2>1 DEF Working
  <2> QED
    BY <2>2 DEF ToDo
<1>3. CASE arrived[k] = {} /\ counter[k] <= l
  <2>1. CASE q = k
    <3>1. v <= l /\ v <= CharZ /\ l <= CharZ /\ v \in Int /\ l \in Int
      BY <1>1, <1>3, <2>1 DEF Letters
    <3>2. /\ at'[r] = "work" /\ letter'[r] = v /\ arrived' = arrived
          /\ counter'[k] = v + 1
      BY <1>1, <2>1, <3>1 DEF Claim, Exhausted, Successor, BaseInv, TypeOK
    <3>3. CASE v = l
      BY <1>1, <2>1, <3>2, <3>3 DEF Working, ToDo
    <3>4. CASE v # l
      BY <1>3, <3>1, <3>2, <3>4 DEF ToDo
    <3> QED
      BY <3>3, <3>4
  <2>2. CASE q # k
    BY <1>1, <1>3, <2>2 DEF ToDo
  <2> QED
    BY <2>1, <2>2
<1> QED
  BY <1>2, <1>3 DEF ToDo

\* A letter stays to be done while its counter, its barrier and those who work
\* in the loop stay.
LEMMA KeptToDo ==
  ASSUME NEW k \in Loops, NEW l \in Letters, ToDo(l, k),
         counter'[k] = counter[k], arrived'[k] = arrived[k],
         \A s \in Reducers : Working(s, k) =>
            Working(s, k)' /\ letter'[s] = letter[s]
  PROVE  ToDo(l, k)'
<1> QED
  BY DEF ToDo

\* Every step keeps DataInv.
LEMMA NextData == DataInv /\ [Next]_vars => DataInv'
<1> SUFFICES ASSUME DataInv, [Next]_vars
             PROVE  AggregationSound' /\ AggregationCovers'
  BY NextSplit DEF DataInv
<1> USE DEF mapVars, results
<1>1. ASSUME UNCHANGED agg PROVE AggregationSound'
  BY <1>1 DEF DataInv, AggregationSound, FilesOf
<1>2. ASSUME UNCHANGED <<agg, letter, counter, wild>>,
             arrived'[1] = arrived[1],
             \A r \in Reducers : Working(r, 1) => Working(r, 1)'
      PROVE  AggregationCovers'
  <2>1. \A l \in Letters : Aggregated(l)' <=> Aggregated(l)
    BY <1>2 DEF Aggregated, FilesOf
  <2>2. \A l \in Letters : ToDo(l, 1) => ToDo(l, 1)'
    BY <1>2, KeptToDo DEF Loops
  <2> QED
    BY <1>2, <2>1, <2>2 DEF DataInv, AggregationCovers
<1>3. ASSUME NEW m \in Mappers, Mapper(m)
      PROVE  AggregationSound' /\ AggregationCovers'
  <2>1. /\ UNCHANGED <<agg, letter, counter, wild, at, phase>>
        /\ arrived'[1] = arrived[1]
    BY <1>3 DEF Mapper, Pop, Scan, Leave, DataInv, SplitInv, BaseInv, TypeOK
  <2> QED
    BY <1>1, <1>2, <2>1 DEF Working
<1>4. ASSUME NEW r \in Reducers, Enter(r) \/ Pass(r)
      PROVE  AggregationSound' /\ AggregationCovers'
  <2>1. /\ UNCHANGED <<agg, letter, counter, wild>>
        /\ arrived'[1] = arrived[1]
        /\ at[r] # "work"
        /\ \A s \in Reducers \ {r} : at'[s] = at[s] /\ phase'[s] = phase[s]
    BY <1>4 DEF Enter, Pass, DataInv, SplitInv, BaseInv, TypeOK
  <2> QED
    BY <1>1, <1>2, <2>1 DEF Working
<1>5. ASSUME ~wild, NEW r \in Reducers, Claim(r)
      PROVE  AggregationSound' /\ AggregationCovers'
  <2>1. UNCHANGED agg
    BY <1>5 DEF Claim
  <2>2. \A l \in Letters : Aggregated(l)' <=> Aggregated(l)
    BY <2>1 DEF Aggregated, FilesOf
  <2>3. \A l \in Letters : ToDo(l, 1) => ToDo(l, 1)'
    BY <1>5, ClaimToDo DEF DataInv, SplitInv, Loops
  <2> QED
    BY <1>1, <1>5, <2>1, <2>2, <2>3 DEF DataInv, AggregationCovers
<1>6. ASSUME ~wild, NEW r \in Reducers, Aggregate(r)
      PROVE  AggregationSound' /\ AggregationCovers'
  <2>1. /\ UNCHANGED <<letter, counter, arrived, phase>>
        /\ \A s \in Reducers \ {r} : at'[s] = at[s]
    BY <1>6 DEF Aggregate, DataInv, SplitInv, BaseInv, TypeOK
  <2>2. \A l \in Letters \ {letter[r]} : ToDo(l, 1) => ToDo(l, 1)'
    BY <2>1 DEF ToDo, Working
  <2>3. \A l \in Letters : Aggregated(l) \/ ToDo(l, 1)
    BY <1>6 DEF DataInv, AggregationCovers
  <2>4. CASE letter[r] \in Letters
    <3>1. /\ Aggregated(letter[r])'
          /\ \A l \in Letters \ {letter[r]} : agg'[l] = agg[l]
      BY <1>6, <2>4, AggregateRight
    <3>2. \A l \in Letters \ {letter[r]} : Aggregated(l)' <=> Aggregated(l)
      BY <3>1 DEF Aggregated, FilesOf
    <3>3. AggregationCovers'
      BY <2>1, <2>2, <2>3, <3>1, <3>2 DEF AggregationCovers
    <3>4. AggregationSound'
      <4> SUFFICES ASSUME NEW l \in Letters, NEW w \in Words
                   PROVE  agg'[l][w] \subseteq
                             IF LetterOf[w] = l THEN FilesOf(w) ELSE {}
        BY DEF AggregationSound, FilesOf
      <4>1. CASE l = letter[r]
        BY <2>1, <3>1, <4>1 DEF Aggregated, FilesOf
      <4>2. CASE l # letter[r]
        BY <3>1, <4>2 DEF DataInv, AggregationSound
      <4> QED
        BY <4>1, <4>2
    <3> QED
      BY <3>3, <3>4
  <2>5. CASE letter[r] \notin Letters
    <3>1. UNCHANGED <<agg, wild>>
      BY <1>6, <2>5 DEF Aggregate
    <3>2. \A l \in Letters : Aggregated(l)' <=> Aggregated(l)
      BY <3>1 DEF Aggregated, FilesOf
    <3>3. AggregationCovers'
      BY <2>1, <2>2, <2>3, <2>5, <3>2 DEF AggregationCovers
    <3> QED
      BY <1>1, <3>1, <3>3
  <2> QED
    BY <2>4, <2>5
<1>7. ASSUME ~wild, NEW r \in Reducers, Sort(r) \/ Write(r)
      PROVE  AggregationSound' /\ AggregationCovers'
  <2>1. /\ UNCHANGED <<agg, letter, counter, arrived, phase>>
        /\ phase[r] # 1
        /\ \A s \in Reducers \ {r} : at'[s] = at[s]
    BY <1>7 DEF Sort, Write, Working, DataInv, SplitInv, BaseInv, TypeOK
  <2>2. \A l \in Letters : Aggregated(l)' <=> Aggregated(l)
    BY <2>1 DEF Aggregated, FilesOf
  <2>3. \A s \in Reducers : Working(s, 1) => Working(s, 1)'
    BY <2>1 DEF Working
  <2>4. \A l \in Letters : ToDo(l, 1) => ToDo(l, 1)'
    BY <2>1, <2>3, KeptToDo DEF Loops
  <2>5. AggregationCovers'
    BY <1>7, <2>2, <2>4 DEF DataInv, AggregationCovers
  <2> QED
    BY <1>1, <2>1, <2>5
<1>8. ASSUME UNCHANGED vars PROVE AggregationSound' /\ AggregationCovers'
  BY <1>1, <1>2, <1>8 DEF vars, Working
<1> QED
  BY <1>3, <1>4, <1>5, <1>6, <1>7, <1>8 DEF Next, Reducer, Halt

\* The initial state satisfies DataInv.
LEMMA InitData == Init => DataInv
<1>1. Init => AggregationSound
  BY DEF Init, AggregationSound
<1>2. Init => AggregationCovers
  <2> SUFFICES ASSUME Init, NEW l \in Letters
               PROVE  arrived[1] = {} /\ counter[1] <= l
    BY DEF AggregationCovers, ToDo
  <2> QED
    BY WordsAssumption DEF Init, Loops, Letters
<1>3. Init => WorkSplit /\ WordsSound
  BY DEF Init, WorkSplit, WordsSound, Holds, Recorded, Untouched
<1> QED
  BY <1>1, <1>2, <1>3, InitBase DEF DataInv, SplitInv

\* DataInv holds in every state.
LEMMA DataInvariant == Spec => []DataInv
<1> QED
  BY InitData, NextData, PTL DEF Spec

\* What DataInv says of the loops.
LEMMA PhaseRight == DataInv => PhaseData
<1> SUFFICES ASSUME DataInv, ~wild, NEW r \in Reducers
             PROVE  /\ phase[r] >= 1 => \A m \in Mappers : mpc[m] = "done"
                    /\ phase[r] >= 2 =>
                          \A l \in Letters : \A w \in Words :
                             agg[l][w] = IF LetterOf[w] = l
                                         THEN FilesOf(w) ELSE {}
  BY DEF PhaseData
<1>1. ASSUME phase[r] >= 1 PROVE \A m \in Mappers : mpc[m] = "done"
  BY <1>1, AllRecorded DEF DataInv
<1>2. ASSUME phase[r] >= 2, NEW l \in Letters PROVE Aggregated(l)
  <2>1. phase[r] > 1 /\ 1 \in 0 .. 2
    BY <1>2 DEF DataInv, SplitInv, BaseInv, TypeOK
  <2>2. arrived[1] = Reducers
    BY <2>1 DEF DataInv, SplitInv, BaseInv, Barriers, Participants
  <2>3. \A s \in Reducers : ~Working(s, 1)
    BY <2>2 DEF DataInv, SplitInv, BaseInv, Barriers, Working, Loops
  <2> QED
    BY <1>2, <2>2, <2>3 DEF DataInv, AggregationCovers, ToDo
<1> QED
  BY <1>1, <1>2 DEF Aggregated

\* The barriers do their work: the first loop of the reducers reads finished
\* lists of words, and the second finished maps.
THEOREM PhaseTheorem == Spec => []PhaseData
<1> QED
  BY PhaseRight, DataInvariant, PTL

-----------------------------------------------------------------------------
(* The output files.  What a letter's file has to hold does not depend on  *)
(* the run; the list is right when the loop that sorts is over, so writing *)
(* a letter twice, as an overflow can, changes nothing the second time.    *)

RightEntries(l) ==
    {Entry(w, FilesOf(w)) :
        w \in {v \in Words : LetterOf[v] = l /\ FilesOf(v) # {}}}
RightList(l) == SortEntries(RightEntries(l))

SortingCovers ==
    ~wild => \A l \in Letters : sorted[l] = RightList(l) \/ ToDo(l, 2)
WrittenRight == \A l \in Letters : out[l] \in {NotWritten, RightList(l)}
Shapes == /\ sorted = [l \in Letters |-> sorted[l]]
          /\ out = [l \in Letters |-> out[l]]

FileInv == DataInv /\ Shapes /\ SortingCovers /\ WrittenRight

\* The size of 1 .. m.
LEMMA IntervalSize ==
  ASSUME NEW m \in Nat
  PROVE  IsFiniteSet(1 .. m) /\ Cardinality(1 .. m) = m
<1> QED
  BY FS_Interval

\* A finite set with a strict total order R can be listed in that order: the
\* place of an element is the number of those before it.
LEMMA ListExists ==
  ASSUME NEW S, IsFiniteSet(S), NEW R,
         \A e \in S : <<e, e>> \notin R,
         \A c, d, e \in S : <<c, d>> \in R /\ <<d, e>> \in R => <<c, e>> \in R,
         \A d, e \in S : d # e => <<d, e>> \in R \/ <<e, d>> \in R
  PROVE  \E s \in [1 .. Cardinality(S) -> S] :
            \A i, j \in 1 .. Cardinality(S) : i < j => <<s[i], s[j]>> \in R
<1> DEFINE n == Cardinality(S)
           Below(e) == {d \in S : <<d, e>> \in R}
           rank == [e \in S |-> Cardinality(Below(e)) + 1]
<1>1. n \in Nat
  BY FS_CardinalityType
<1>2. ASSUME NEW e \in S
      PROVE  /\ IsFiniteSet(Below(e)) /\ Cardinality(Below(e)) \in Nat
             /\ Cardinality(Below(e)) < n
  <2>1. Below(e) \in SUBSET S /\ Below(e) # S
    OBVIOUS
  <2>2. /\ IsFiniteSet(Below(e)) /\ Cardinality(Below(e)) <= n
        /\ Cardinality(Below(e)) # n
    BY <2>1, FS_Subset
  <2>3. Cardinality(Below(e)) \in Nat
    BY <2>2, FS_CardinalityType
  <2> QED
    BY <1>1, <2>2, <2>3
<1>3. ASSUME NEW d \in S, NEW e \in S, <<d, e>> \in R
      PROVE  Cardinality(Below(d)) < Cardinality(Below(e))
  <2>1. Below(d) \in SUBSET Below(e) /\ Below(d) # Below(e)
    BY <1>3
  <2>2. /\ Cardinality(Below(d)) <= Cardinality(Below(e))
        /\ Cardinality(Below(d)) # Cardinality(Below(e))
    BY <1>2, <2>1, FS_Subset
  <2>3. Cardinality(Below(d)) \in Nat /\ Cardinality(Below(e)) \in Nat
    BY <1>2
  <2> HIDE DEF Below
  <2> QED
    BY <2>2, <2>3
<1> HIDE DEF Below
<1>4. /\ rank \in [S -> 1 .. n]
      /\ \A d, e \in S : <<d, e>> \in R => rank[d] < rank[e]
  BY <1>1, <1>2, <1>3
<1> HIDE DEF rank
<1>5. rank \in Surjection(S, 1 .. n)
  <2>1. ASSUME NEW d \in S, NEW e \in S, d # e PROVE rank[d] # rank[e]
    <3>1. rank[d] \in Int /\ rank[e] \in Int
      BY <1>1, <1>4
    <3>2. rank[d] < rank[e] \/ rank[e] < rank[d]
      BY <1>4, <2>1
    <3> QED
      BY <3>1, <3>2
  <2>2. rank \in Injection(S, 1 .. n)
    BY <1>4, <2>1 DEF Injection, IsInjective
  <2> QED
    BY <1>1, <2>2, IntervalSize, FS_Injection
<1> DEFINE s == [i \in 1 .. n |-> CHOOSE e \in S : rank[e] = i]
<1>6. \A i \in 1 .. n : s[i] \in S /\ rank[s[i]] = i
  BY <1>5 DEF Surjection
<1>7. s \in [1 .. n -> S]
  BY <1>6
<1>8. ASSUME NEW i \in 1 .. n, NEW j \in 1 .. n, i < j
      PROVE  <<s[i], s[j]>> \in R
  <2> HIDE DEF s
  <2>1. s[i] # s[j] /\ ~(<<s[j], s[i]>> \in R)
    BY <1>4, <1>6, <1>8
  <2> QED
    BY <1>6, <2>1
<1> QED
  BY <1>7, <1>8

\* What the sorted list of a finite set of entries is, when each word has one:
\* all of them, each once, in the order of sortMap.
LEMMA SortedEntries ==
  ASSUME NEW S, IsFiniteSet(S),
         S \subseteq [word : Words, ids : SUBSET FileIds],
         \A d, e \in S : d.word = e.word => d = e
  PROVE  /\ Len(SortEntries(S)) = Cardinality(S)
         /\ {SortEntries(S)[i] : i \in 1 .. Len(SortEntries(S))} = S
         /\ \A i, j \in 1 .. Len(SortEntries(S)) :
               i < j => Before(SortEntries(S)[i], SortEntries(S)[j])
<1> USE WordsAssumption, ThreadsAssumption
<1> DEFINE n == Cardinality(S)
           R == {p \in S \X S : Before(p[1], p[2])}
<1>1. n \in Nat
  BY FS_CardinalityType
<1>2. \A e \in S : Cardinality(e.ids) \in Nat /\ Rank[e.word] \in Nat
  <2> SUFFICES ASSUME NEW e \in S
               PROVE  Cardinality(e.ids) \in Nat /\ Rank[e.word] \in Nat
    OBVIOUS
  <2>1. e.ids \in SUBSET FileIds /\ e.word \in Words
    OBVIOUS
  <2> QED
    BY <2>1, FS_Subset, FS_CardinalityType
<1>3. \A d, e \in S : d # e => Rank[d.word] # Rank[e.word]
  <2> SUFFICES ASSUME NEW d \in S, NEW e \in S, Rank[d.word] = Rank[e.word]
               PROVE  d = e
    OBVIOUS
  <2>1. d.word \in Words /\ e.word \in Words
    OBVIOUS
  <2> QED
    BY <2>1
<1>4. /\ \A e \in S : ~Before(e, e)
      /\ \A c, d, e \in S : Before(c, d) /\ Before(d, e) => Before(c, e)
      /\ \A d, e \in S : d # e => Before(d, e) \/ Before(e, d)
  BY <1>2, <1>3 DEF Before
<1>5. \A d, e \in S : <<d, e>> \in R <=> Before(d, e)
  OBVIOUS
<1> HIDE DEF R
<1>6. \E s \in [1 .. n -> S] : \A i, j \in 1 .. n : i < j => <<s[i], s[j]>> \in R
  BY <1>4, <1>5, ListExists
<1>7. \E s \in [1 .. n -> S] : \A i, j \in 1 .. n : i < j => Before(s[i], s[j])
  BY <1>5, <1>6
<1>8. PICK t : t = SortEntries(S)
  OBVIOUS
<1>9. /\ t \in [1 .. n -> S]
      /\ \A i, j \in 1 .. n : i < j => Before(t[i], t[j])
  BY <1>7, <1>8 DEF SortEntries
<1>10. Len(t) = n
  BY <1>1, <1>9
<1>11. {t[i] : i \in 1 .. n} = S
  <2>1. \A i, j \in 1 .. n : i # j => t[i] # t[j]
    BY <1>1, <1>4, <1>9
  <2>2. t \in Injection(1 .. n, S)
    BY <1>9, <2>1 DEF Injection, IsInjective
  <2>3. t \in Surjection(1 .. n, S)
    BY <1>1, <2>2, IntervalSize, FS_Injection
  <2> QED
    BY <2>3 DEF Surjection
<1> QED
  BY <1>8, <1>9, <1>10, <1>11
\* The right list of a letter is what the promise asks for.
LEMMA RightListIsIndex ==
  ASSUME NEW l \in Letters
  PROVE  IsIndex(l, RightList(l))
<1> USE WordsAssumption, ThreadsAssumption
<1> DEFINE W == {v \in Words : LetterOf[v] = l /\ FilesOf(v) # {}}
           S == RightEntries(l)
           f == [w \in W |-> Entry(w, FilesOf(w))]
<1>1. IsFiniteSet(W)
  BY FS_Subset
<1>2. f \in Surjection(W, S)
  BY DEF Surjection, RightEntries
<1>3. IsFiniteSet(S)
  BY <1>1, <1>2, FS_Surjection
<1>4. /\ S \subseteq [word : Words, ids : SUBSET FileIds]
      /\ \A d, e \in S : d.word = e.word => d = e
  <2>1. ASSUME NEW e \in S
        PROVE  /\ e \in [word : Words, ids : SUBSET FileIds]
               /\ e = Entry(e.word, FilesOf(e.word))
    <3>1. PICK w \in Words : e = Entry(w, FilesOf(w))
      BY DEF RightEntries
    <3>2. FilesOf(w) \in SUBSET FileIds
      BY DEF FilesOf
    <3> QED
      BY <3>1, <3>2 DEF Entry
  <2> HIDE DEF S
  <2> QED
    BY <2>1
<1>5. PICK s : s = RightList(l)
  OBVIOUS
<1>6. /\ {s[i] : i \in 1 .. Len(s)} = S
      /\ \A i, j \in 1 .. Len(s) : i < j => Before(s[i], s[j])
  <2> HIDE DEF S
  <2>1. s = SortEntries(S)
    BY <1>5 DEF RightList, S
  <2>2. /\ {SortEntries(S)[i] : i \in 1 .. Len(SortEntries(S))} = S
        /\ \A i, j \in 1 .. Len(SortEntries(S)) :
              i < j => Before(SortEntries(S)[i], SortEntries(S)[j])
    BY <1>3, <1>4, SortedEntries
  <2> QED
    BY <2>1, <2>2
<1>7. ASSUME NEW i \in 1 .. Len(s)
      PROVE  Cardinality(s[i].ids) \in Nat
  <2>1. s[i].ids \in SUBSET FileIds
    BY SMTT(30), <1>4, <1>6
  <2> QED
    BY <2>1, FS_Subset, FS_CardinalityType
<1>8. ASSUME NEW i \in 1 .. Len(s), NEW j \in 1 .. Len(s), i < j
      PROVE  /\ Cardinality(s[i].ids) >= Cardinality(s[j].ids)
             /\ Cardinality(s[i].ids) = Cardinality(s[j].ids) =>
                   Rank[s[i].word] < Rank[s[j].word]
  <2>1. Before(s[i], s[j])
    BY <1>6, <1>8
  <2> QED
    BY <1>7, <2>1 DEF Before
<1>9. IsIndex(l, s)
  BY <1>6, <1>8 DEF IsIndex, RightEntries
<1> QED
  BY <1>5, <1>9

\* In the second loop the maps are aggregated, so that what is sorted is right.
LEMMA SortRight ==
  ASSUME DataInv, ~wild, NEW r \in Reducers, phase[r] >= 2,
         NEW l \in Letters
  PROVE  SortEntries(Entries(l)) = RightList(l)
<1>1. \A w \in Words : agg[l][w] = IF LetterOf[w] = l THEN FilesOf(w) ELSE {}
  BY PhaseRight DEF PhaseData
<1>2. Entries(l) = RightEntries(l)
  <2>1. {v \in Words : agg[l][v] # {}}
           = {v \in Words : LetterOf[v] = l /\ FilesOf(v) # {}}
    BY <1>1
  <2>2. \A w \in {v \in Words : agg[l][v] # {}} : agg[l][w] = FilesOf(w)
    BY <1>1
  <2> QED
    BY <2>1, <2>2 DEF Entries, RightEntries
<1> QED
  BY <1>2 DEF RightList

\* In the third loop every list is the right one.
LEMMA ListsRight ==
  ASSUME FileInv, ~wild, NEW r \in Reducers, phase[r] = 3, NEW l \in Letters
  PROVE  sorted[l] = RightList(l)
<1>1. phase[r] > 2 /\ 2 \in 0 .. 2
  BY DEF FileInv, DataInv, SplitInv, BaseInv, TypeOK
<1>2. arrived[2] = Reducers
  BY <1>1 DEF FileInv, DataInv, SplitInv, BaseInv, Barriers, Participants
<1>3. \A s \in Reducers : ~Working(s, 2)
  BY <1>2 DEF FileInv, DataInv, SplitInv, BaseInv, Barriers, Working, Loops
<1> QED
  BY <1>2, <1>3 DEF FileInv, SortingCovers, ToDo

\* Every step keeps the lists and the files.
LEMMA NextFile == FileInv /\ [Next]_vars => FileInv'
<1> SUFFICES ASSUME FileInv, [Next]_vars
             PROVE  Shapes' /\ SortingCovers' /\ WrittenRight'
  BY NextData DEF FileInv
<1> USE DEF mapVars, results
<1>1. ASSUME UNCHANGED <<sorted, out>> PROVE Shapes' /\ WrittenRight'
  BY <1>1 DEF FileInv, Shapes, WrittenRight, RightList, RightEntries, FilesOf
<1>2. ASSUME NEW l \in Letters PROVE RightList(l)' = RightList(l)
  BY DEF RightList, RightEntries, FilesOf
<1>3. ASSUME UNCHANGED <<sorted, letter, counter, wild>>,
             arrived'[2] = arrived[2],
             \A r \in Reducers : Working(r, 2) => Working(r, 2)'
      PROVE  SortingCovers'
  <2>1. \A l \in Letters : ToDo(l, 2) => ToDo(l, 2)'
    BY <1>3, KeptToDo DEF Loops
  <2> QED
    BY <1>2, <1>3, <2>1 DEF FileInv, SortingCovers
<1>4. ASSUME NEW m \in Mappers, Mapper(m)
      PROVE  Shapes' /\ SortingCovers' /\ WrittenRight'
  <2>1. /\ UNCHANGED <<sorted, out, letter, counter, wild, at, phase>>
        /\ arrived'[2] = arrived[2]
    BY <1>4 DEF Mapper, Pop, Scan, Leave, FileInv, DataInv, SplitInv, BaseInv,
                TypeOK
  <2> QED
    BY <1>1, <1>3, <2>1 DEF Working
<1>5. ASSUME NEW r \in Reducers, Enter(r) \/ Pass(r)
      PROVE  Shapes' /\ SortingCovers' /\ WrittenRight'
  <2>1. /\ UNCHANGED <<sorted, out, letter, counter, wild>>
        /\ arrived'[2] = arrived[2]
        /\ at[r] # "work"
        /\ \A s \in Reducers \ {r} : at'[s] = at[s] /\ phase'[s] = phase[s]
    BY <1>5 DEF Enter, Pass, FileInv, DataInv, SplitInv, BaseInv, TypeOK
  <2> QED
    BY <1>1, <1>3, <2>1 DEF Working
<1>6. ASSUME ~wild, NEW r \in Reducers, Claim(r)
      PROVE  Shapes' /\ SortingCovers' /\ WrittenRight'
  <2>1. UNCHANGED <<sorted, out>>
    BY <1>6 DEF Claim
  <2>2. \A l \in Letters : ToDo(l, 2) => ToDo(l, 2)'
    BY <1>6, ClaimToDo DEF FileInv, DataInv, SplitInv, Loops
  <2>3. SortingCovers'
    BY <1>2, <1>6, <2>1, <2>2 DEF FileInv, SortingCovers
  <2> QED
    BY <1>1, <2>1, <2>3
<1>7. ASSUME ~wild, NEW r \in Reducers, Aggregate(r)
      PROVE  Shapes' /\ SortingCovers' /\ WrittenRight'
  <2>1. /\ UNCHANGED <<sorted, out, letter, counter, arrived, phase>>
        /\ phase[r] # 2
        /\ \A s \in Reducers \ {r} : at'[s] = at[s]
    BY <1>7 DEF Aggregate, Working, FileInv, DataInv, SplitInv, BaseInv, TypeOK
  <2>2. \A s \in Reducers : Working(s, 2) => Working(s, 2)'
    BY <2>1 DEF Working
  <2>3. \A l \in Letters : ToDo(l, 2) => ToDo(l, 2)'
    BY <2>1, <2>2, KeptToDo DEF Loops
  <2>4. SortingCovers'
    BY <1>2, <1>7, <2>1, <2>3 DEF FileInv, SortingCovers
  <2> QED
    BY <1>1, <2>1, <2>4
<1>8. ASSUME ~wild, NEW r \in Reducers, Sort(r)
      PROVE  Shapes' /\ SortingCovers' /\ WrittenRight'
  <2>1. /\ UNCHANGED <<out, letter, counter, arrived, phase>>
        /\ phase[r] = 2
        /\ \A s \in Reducers \ {r} : at'[s] = at[s]
    BY <1>8 DEF Sort, Working, FileInv, DataInv, SplitInv, BaseInv, TypeOK
  <2>2. \A l \in Letters \ {letter[r]} : ToDo(l, 2) => ToDo(l, 2)'
    BY <2>1 DEF ToDo, Working
  <2>3. \A l \in Letters : sorted[l] = RightList(l) \/ ToDo(l, 2)
    BY <1>8 DEF FileInv, SortingCovers
  <2>4. CASE letter[r] \in Letters
    <3>1. PICK l \in Letters : l = letter[r]
      BY <2>4
    <3>2. PICK s : s = SortEntries(Entries(l))
      OBVIOUS
    <3>3. s = RightList(l)
      BY <1>8, <2>1, <3>2, SortRight DEF FileInv
    <3>4. sorted' = [sorted EXCEPT ![l] = s]
      BY <1>8, <3>1, <3>2 DEF Sort
    <3>5. /\ sorted' = [k \in Letters |-> sorted'[k]]
          /\ sorted'[l] = s
          /\ \A k \in Letters \ {l} : sorted'[k] = sorted[k]
      BY <3>4 DEF FileInv, Shapes
    <3>6. SortingCovers'
      BY <1>2, <2>2, <2>3, <3>1, <3>3, <3>5 DEF SortingCovers
    <3>7. Shapes' /\ WrittenRight'
      BY <1>2, <2>1, <3>5 DEF FileInv, Shapes, WrittenRight
    <3> QED
      BY <3>6, <3>7
  <2>5. CASE letter[r] \notin Letters
    <3>1. UNCHANGED sorted /\ wild'
      BY <1>8, <2>5 DEF Sort
    <3> QED
      BY <1>1, <2>1, <3>1 DEF SortingCovers
  <2> QED
    BY <2>4, <2>5
<1>9. ASSUME ~wild, NEW r \in Reducers, Write(r)
      PROVE  Shapes' /\ SortingCovers' /\ WrittenRight'
  <2>1. /\ UNCHANGED <<sorted, letter, counter, arrived, phase>>
        /\ phase[r] = 3
        /\ \A s \in Reducers \ {r} : at'[s] = at[s]
    BY <1>9 DEF Write, Working, FileInv, DataInv, SplitInv, BaseInv, TypeOK
  <2>2. \A s \in Reducers : Working(s, 2) => Working(s, 2)'
    BY <2>1 DEF Working
  <2>3. \A l \in Letters : ToDo(l, 2) => ToDo(l, 2)'
    BY <2>1, <2>2, KeptToDo DEF Loops
  <2>4. SortingCovers'
    BY <1>2, <1>9, <2>1, <2>3 DEF FileInv, SortingCovers
  <2>5. CASE letter[r] \in Letters
    <3>1. PICK l \in Letters : l = letter[r]
      BY <2>5
    <3>2. out' = [out EXCEPT ![l] = sorted[l]]
      BY <1>9, <3>1 DEF Write
    <3>3. /\ out' = [k \in Letters |-> out'[k]]
          /\ out'[l] = sorted[l]
          /\ \A k \in Letters \ {l} : out'[k] = out[k]
      BY <3>2 DEF FileInv, Shapes
    <3>4. sorted[l] = RightList(l)
      BY <1>9, <2>1, ListsRight
    <3>5. Shapes' /\ WrittenRight'
      BY <1>2, <2>1, <3>3, <3>4 DEF FileInv, Shapes, WrittenRight
    <3> QED
      BY <2>4, <3>5
  <2>6. CASE letter[r] \notin Letters
    <3>1. UNCHANGED out
      BY <1>9, <2>6 DEF Write
    <3> QED
      BY <1>1, <2>1, <2>4, <3>1
  <2> QED
    BY <2>5, <2>6
<1>10. ASSUME UNCHANGED vars PROVE Shapes' /\ SortingCovers' /\ WrittenRight'
  BY <1>1, <1>3, <1>10 DEF vars, Working
<1> QED
  BY <1>4, <1>5, <1>6, <1>7, <1>8, <1>9, <1>10 DEF Next, Reducer, Halt

\* FileInv holds in every state.
LEMMA FileInvariant == Spec => []FileInv
<1>1. Init => Shapes /\ WrittenRight
  BY DEF Init, Shapes, WrittenRight
<1>2. Init => SortingCovers
  <2> SUFFICES ASSUME Init, NEW l \in Letters
               PROVE  arrived[2] = {} /\ counter[2] <= l
    BY DEF SortingCovers, ToDo
  <2> QED
    BY WordsAssumption DEF Init, Loops, Letters
<1>3. Init => FileInv
  BY <1>1, <1>2, InitData DEF FileInv
<1> QED
  BY <1>3, NextFile, PTL DEF Spec

\* The program keeps the promises of InvertedIndex.tla, for any number of
\* threads, even on the way to an overflow: each letter's file is written once,
\* with all words of the letter, each with all its files, in the order asked for.
THEOREM RefinementTheorem == Spec => Refinement
<1>1. Init => Abstract!Init
  BY DEF Init, Abstract!Init, Abstract!Letters, Letters
<1>2. FileInv /\ [Next]_vars => [Abstract!Next]_out
  <2> SUFFICES ASSUME FileInv, [Next]_vars, out' # out
               PROVE  Abstract!Next
    OBVIOUS
  <2>1. PICK r \in Reducers : ~wild /\ Write(r)
    BY DEF Next, Mapper, Reducer, Halt, Pop, Scan, Leave, Enter, Pass, Claim,
           Aggregate, Sort, vars, results
  <2>2. PICK l \in Letters : l = letter[r]
    BY <2>1 DEF Write
  <2>3. out' = [out EXCEPT ![l] = sorted[l]]
    BY <2>1, <2>2 DEF Write
  <2>4. sorted[l] = RightList(l)
    BY <2>1, ListsRight DEF Write, Working
  <2>5. PICK s : s = RightList(l)
    OBVIOUS
  <2>6. out = [k \in Letters |-> out[k]] /\ out[l] \in {NotWritten, s}
    BY <2>5 DEF FileInv, Shapes, WrittenRight
  <2>7. out' = [out EXCEPT ![l] = s] /\ out'[l] = s
    BY <2>3, <2>4, <2>5, <2>6
  <2>8. out[l] = NotWritten /\ s # NotWritten
    BY <2>6, <2>7
  <2>9. IsIndex(l, s)
    BY <2>5, RightListIsIndex
  <2>10. Abstract!IsIndex(l, s)
    <3>1. \A w : /\ Abstract!FilesOf(w) = FilesOf(w)
                 /\ \A ids : Abstract!Entry(w, ids) = Entry(w, ids)
      BY DEF FilesOf, Entry, Abstract!FilesOf, Abstract!Entry
    <3>2. {Abstract!Entry(w, Abstract!FilesOf(w)) :
             w \in {v \in Words : LetterOf[v] = l /\ Abstract!FilesOf(v) # {}}}
             = RightEntries(l)
      BY <3>1 DEF RightEntries
    <3>3. {s[i] : i \in 1 .. Len(s)} = RightEntries(l)
      BY <2>9 DEF IsIndex, RightEntries
    <3>4. \A S : Abstract!Cardinality(S) = Cardinality(S)
      BY DEF Abstract!Cardinality, Cardinality
    <3> QED
      BY <2>9, <3>2, <3>3, <3>4 DEF IsIndex, Abstract!IsIndex
  <2>11. Abstract!WriteLetter(l)
    BY <2>7, <2>8, <2>10 DEF Abstract!WriteLetter
  <2> QED
    BY <2>11 DEF Abstract!Next, Abstract!Letters, Letters
<1> QED
  BY <1>1, <1>2, FileInvariant, PTL DEF Spec, Refinement, Abstract!Spec

(***************************************************************************)
(* What main leaves when it returns: without an overflow, all the files.   *)
(***************************************************************************)
WritingCovers ==
    ~wild => \A l \in Letters : out[l] = RightList(l) \/ ToDo(l, 3)
EveryFile == Finished /\ ~wild => \A l \in Letters : IsIndex(l, out[l])

\* Every step keeps WritingCovers.
LEMMA NextWriting == FileInv /\ WritingCovers /\ [Next]_vars => WritingCovers'
<1> SUFFICES ASSUME FileInv, WritingCovers, [Next]_vars PROVE WritingCovers'
  OBVIOUS
<1> USE DEF mapVars, results
<1>1. ASSUME NEW l \in Letters PROVE RightList(l)' = RightList(l)
  BY DEF RightList, RightEntries, FilesOf
<1>2. ASSUME UNCHANGED <<out, letter, counter, wild>>,
             arrived'[3] = arrived[3],
             \A r \in Reducers : Working(r, 3) => Working(r, 3)'
      PROVE  WritingCovers'
  <2>1. \A l \in Letters : ToDo(l, 3) => ToDo(l, 3)'
    BY <1>2, KeptToDo DEF Loops
  <2> QED
    BY <1>1, <1>2, <2>1 DEF WritingCovers
<1>3. ASSUME NEW m \in Mappers, Mapper(m) PROVE WritingCovers'
  <2>1. /\ UNCHANGED <<out, letter, counter, wild, at, phase>>
        /\ arrived'[3] = arrived[3]
    BY <1>3 DEF Mapper, Pop, Scan, Leave, FileInv, DataInv, SplitInv, BaseInv,
                TypeOK
  <2> QED
    BY <1>2, <2>1 DEF Working
<1>4. ASSUME NEW r \in Reducers, Enter(r) \/ Pass(r) PROVE WritingCovers'
  <2>1. /\ UNCHANGED <<out, letter, counter, wild>>
        /\ arrived'[3] = arrived[3]
        /\ at[r] # "work"
        /\ \A s \in Reducers \ {r} : at'[s] = at[s] /\ phase'[s] = phase[s]
    BY <1>4 DEF Enter, Pass, FileInv, DataInv, SplitInv, BaseInv, TypeOK
  <2> QED
    BY <1>2, <2>1 DEF Working
<1>5. ASSUME ~wild, NEW r \in Reducers, Claim(r) PROVE WritingCovers'
  <2>1. UNCHANGED out
    BY <1>5 DEF Claim
  <2>2. \A l \in Letters : ToDo(l, 3) => ToDo(l, 3)'
    BY <1>5, ClaimToDo DEF FileInv, DataInv, SplitInv, Loops
  <2> QED
    BY <1>1, <1>5, <2>1, <2>2 DEF WritingCovers
<1>6. ASSUME ~wild, NEW r \in Reducers, Aggregate(r) \/ Sort(r)
      PROVE  WritingCovers'
  <2>1. /\ UNCHANGED <<out, letter, counter, arrived, phase>>
        /\ phase[r] # 3
        /\ \A s \in Reducers \ {r} : at'[s] = at[s]
    BY <1>6 DEF Aggregate, Sort, Working, FileInv, DataInv, SplitInv, BaseInv,
                TypeOK
  <2>2. \A s \in Reducers : Working(s, 3) => Working(s, 3)'
    BY <2>1 DEF Working
  <2>3. \A l \in Letters : ToDo(l, 3) => ToDo(l, 3)'
    BY <2>1, <2>2, KeptToDo DEF Loops
  <2> QED
    BY <1>1, <1>6, <2>1, <2>3 DEF WritingCovers
<1>7. ASSUME ~wild, NEW r \in Reducers, Write(r) PROVE WritingCovers'
  <2>1. /\ UNCHANGED <<letter, counter, arrived, phase>>
        /\ phase[r] = 3
        /\ \A s \in Reducers \ {r} : at'[s] = at[s]
    BY <1>7 DEF Write, Working, FileInv, DataInv, SplitInv, BaseInv, TypeOK
  <2>2. \A l \in Letters \ {letter[r]} : ToDo(l, 3) => ToDo(l, 3)'
    BY <2>1 DEF ToDo, Working
  <2>3. CASE letter[r] \in Letters
    <3>1. PICK l \in Letters : l = letter[r]
      BY <2>3
    <3>2. out' = [out EXCEPT ![l] = sorted[l]] /\ sorted[l] = RightList(l)
      BY <1>7, <2>1, <3>1, ListsRight DEF Write
    <3>3. out'[l] = RightList(l) /\ \A k \in Letters \ {l} : out'[k] = out[k]
      BY <3>2 DEF FileInv, Shapes
    <3> QED
      BY <1>1, <1>7, <2>2, <3>1, <3>3 DEF WritingCovers
  <2>4. CASE letter[r] \notin Letters
    BY <1>7, <2>4 DEF Write, WritingCovers
  <2> QED
    BY <2>3, <2>4
<1>8. ASSUME UNCHANGED vars PROVE WritingCovers'
  BY <1>2, <1>8 DEF vars, Working
<1> QED
  BY <1>3, <1>4, <1>5, <1>6, <1>7, <1>8 DEF Next, Reducer, Halt

\* When every thread has returned and the counters have not overflowed, every
\* letter's file is there and right.
THEOREM EveryFileTheorem == Spec => []EveryFile
<1>1. Init => WritingCovers
  <2> SUFFICES ASSUME Init, NEW l \in Letters
               PROVE  arrived[3] = {} /\ counter[3] <= l
    BY DEF WritingCovers, ToDo
  <2> QED
    BY WordsAssumption DEF Init, Loops, Letters
<1>2. FileInv /\ WritingCovers => EveryFile
  <2> SUFFICES ASSUME FileInv, WritingCovers, arrived[3] = Reducers, ~wild,
                      NEW l \in Letters
               PROVE  IsIndex(l, out[l])
    BY DEF EveryFile, Finished
  <2>1. \A r \in Reducers : ~Working(r, 3)
    BY DEF FileInv, DataInv, SplitInv, BaseInv, Barriers, Working, Loops
  <2>2. out[l] = RightList(l)
    BY <2>1, ThreadsAssumption DEF WritingCovers, ToDo
  <2> QED
    BY <2>2, RightListIsIndex
<1> QED
  BY <1>1, <1>2, NextWriting, FileInvariant, PTL DEF Spec
=============================================================================
