----------------------------- MODULE MapReduce -----------------------------
(***************************************************************************)
(* Map-Reduce Inverse Search Multi-thread/main.cpp: mapper threads take    *)
(* files from a priority queue and list their words; behind a barrier,     *)
(* reducer threads share out the letters three times, to aggregate, to     *)
(* sort and to write.  Each sharing is a fetch_add on an atomic_char,      *)
(* which is a signed char here, as on x86.                                 *)
(***************************************************************************)
EXTENDS WordIndex

CONSTANTS
    Mappers, Reducers,  \* the threads
    Size,               \* file sizes, which order the queue
    CharMin, CharMax,   \* range of char
    NoFile, NoLetter, NotWritten

ASSUME ThreadsAssumption ==
    /\ IsFiniteSet(Mappers) /\ IsFiniteSet(Reducers)
    /\ Mappers # {} /\ Reducers # {} /\ Mappers \cap Reducers = {}
    /\ IsFiniteSet(FileIds) /\ NoFile \notin FileIds
    /\ Size \in [FileIds -> Nat]
    /\ CharMin \in Int /\ CharMax \in Int
    /\ CharMin <= CharA /\ CharZ < CharMax
    /\ NoLetter \notin Int

VARIABLES
    queue,          \* pri_que
    mpc, held,      \* each mapper: where it is, and its file
    words,          \* words[m]: pairs of a word and the file it is in
    arrived,        \* arrived[k]: threads that have come to barrier k
    phase, at,      \* each reducer: the loop it is in, and where there
    letter,         \* each reducer: the letter it took
    counter,        \* letter_agregation, letter_sort and letter
    agg,            \* agg[l][w]: agregation_map[l - 'a'][w], {} for no entry
    sorted,         \* sorted_map[l - 'a']
    out,            \* <l>.txt
    wild            \* an access outside the vectors, or two to one map

mapVars == <<queue, mpc, held, words>>
results == <<agg, sorted, out>>
vars == <<mapVars, arrived, phase, at, letter, counter, results, wild>>

\* Barrier 0 starts the reducers; 1 and 2 end the first two loops, and 3
\* stands for the joins of main, which end the third.
Loops == 1 .. 3

\* Slips the definition that follows could have ("Bad...", "Worse..."): the
\* reducers start without the mappers, or every barrier counts them.
BadParticipants(k) == Reducers
WorseParticipants(k) == Mappers \cup Reducers
Participants(k) == IF k = 0 THEN Mappers \cup Reducers ELSE Reducers

\* A fetched value is past the last letter, as the loops test it.
BadExhausted(v) == v > CharZ + 1
Exhausted(v) == v > CharZ

\* pri_que after pop() of its top f.
BadRest(f) == queue
Rest(f) == queue \ {f}

\* The value after v in the signed char's cycle.
Successor(v) == IF v = CharMax THEN CharMin ELSE v + 1

Entries(l) == {Entry(w, agg[l][w]) : w \in {v \in Words : agg[l][v] # {}}}

-----------------------------------------------------------------------------
\* main has read the list of files and skipped those that do not exist.
Init ==
    /\ queue = FileIds
    /\ mpc = [m \in Mappers |-> "pop"]
    /\ held = [m \in Mappers |-> NoFile]
    /\ words = [m \in Mappers |-> {}]
    /\ arrived = [k \in 0 .. 3 |-> {}]
    /\ phase = [r \in Reducers |-> 0]
    /\ at = [r \in Reducers |-> "enter"]
    /\ letter = [r \in Reducers |-> NoLetter]
    /\ counter = [k \in Loops |-> CharA]
    /\ agg = [l \in Letters |-> [w \in Words |-> {}]]
    /\ sorted = [l \in Letters |-> <<>>]
    /\ out = [l \in Letters |-> NotWritten]
    /\ wild = FALSE

-----------------------------------------------------------------------------
(* Mapper m *)

\* The largest file of the queue, under the mutex.
Pop(m) ==
    /\ mpc[m] = "pop"
    /\ \E f \in queue :
        /\ \A g \in queue : Size[g] <= Size[f]
        /\ held' = [held EXCEPT ![m] = f]
        /\ queue' = Rest(f)
    /\ mpc' = [mpc EXCEPT ![m] = "scan"]
    /\ UNCHANGED <<words, arrived, phase, at, letter, counter, results, wild>>

\* The words of the file, into the mapper's own vector.
Scan(m) ==
    /\ mpc[m] = "scan"
    /\ words' = [words EXCEPT ![m] = @ \cup (Contents[held[m]] \X {held[m]})]
    /\ mpc' = [mpc EXCEPT ![m] = "pop"]
    /\ UNCHANGED <<queue, held, arrived, phase, at, letter, counter, results,
                   wild>>

\* The queue is empty: to the barrier.
Leave(m) ==
    /\ mpc[m] = "pop"
    /\ queue = {}
    /\ mpc' = [mpc EXCEPT ![m] = "done"]
    /\ arrived' = [arrived EXCEPT ![0] = @ \cup {m}]
    /\ UNCHANGED <<queue, held, words, phase, at, letter, counter, results,
                   wild>>

-----------------------------------------------------------------------------
(* Reducer r *)

\* To the barrier it shares with the mappers.
Enter(r) ==
    /\ at[r] = "enter"
    /\ at' = [at EXCEPT ![r] = "barrier"]
    /\ arrived' = [arrived EXCEPT ![0] = @ \cup {r}]
    /\ UNCHANGED <<mapVars, phase, letter, counter, results, wild>>

\* Every participant has come: into the next loop.
Pass(r) ==
    /\ at[r] = "barrier"
    /\ phase[r] < 3
    /\ arrived[phase[r]] = Participants(phase[r])
    /\ phase' = [phase EXCEPT ![r] = @ + 1]
    /\ at' = [at EXCEPT ![r] = "claim"]
    /\ UNCHANGED <<mapVars, arrived, letter, counter, results, wild>>

\* fetch_add: a letter, or past the last one and out of the loop.
Claim(r) ==
    LET k == phase[r]
        v == counter[k]
    IN  /\ at[r] = "claim"
        /\ counter' = [counter EXCEPT ![k] = Successor(@)]
        /\ IF Exhausted(v)
           THEN /\ at' = [at EXCEPT ![r] = "barrier"]
                /\ arrived' = [arrived EXCEPT ![k] = @ \cup {r}]
                /\ UNCHANGED letter
           ELSE /\ at' = [at EXCEPT ![r] = "work"]
                /\ letter' = [letter EXCEPT ![r] = v]
                /\ UNCHANGED arrived
        /\ UNCHANGED <<mapVars, phase, results, wild>>

Working(r, k) == at[r] = "work" /\ phase[r] = k

\* Another reducer is at the same element of the same vector.
Clash(r) ==
    \E s \in Reducers \ {r} :
        Working(s, phase[r]) /\ letter[s] = letter[r]

\* All words of the letter.  A character that is no letter matches no word
\* and touches no map.
Aggregate(r) ==
    LET l == letter[r]
    IN  /\ Working(r, 1)
        /\ at' = [at EXCEPT ![r] = "claim"]
        /\ IF l \in Letters
           THEN /\ agg' = [agg EXCEPT ![l] =
                     [w \in Words |->
                        IF LetterOf[w] = l
                        THEN @[w] \cup {f \in FileIds :
                                \E m \in Mappers : <<w, f>> \in words[m]}
                        ELSE @[w]]]
                /\ wild' = Clash(r)
           ELSE UNCHANGED <<agg, wild>>
        /\ UNCHANGED <<mapVars, arrived, phase, letter, counter, sorted, out>>

Sort(r) ==
    LET l == letter[r]
    IN  /\ Working(r, 2)
        /\ at' = [at EXCEPT ![r] = "claim"]
        /\ IF l \in Letters
           THEN /\ sorted' = [sorted EXCEPT ![l] = SortEntries(Entries(l))]
                /\ wild' = Clash(r)
           ELSE wild' = TRUE /\ UNCHANGED sorted
        /\ UNCHANGED <<mapVars, arrived, phase, letter, counter, agg, out>>

Write(r) ==
    LET l == letter[r]
    IN  /\ Working(r, 3)
        /\ at' = [at EXCEPT ![r] = "claim"]
        /\ IF l \in Letters
           THEN /\ out' = [out EXCEPT ![l] = sorted[l]]
                /\ wild' = Clash(r)
           ELSE wild' = TRUE /\ UNCHANGED out
        /\ UNCHANGED <<mapVars, arrived, phase, letter, counter, agg, sorted>>

-----------------------------------------------------------------------------
Mapper(m) == Pop(m) \/ Scan(m) \/ Leave(m)

Reducer(r) ==
    Enter(r) \/ Pass(r) \/ Claim(r) \/ Aggregate(r) \/ Sort(r) \/ Write(r)

\* Every thread has returned.
Finished == arrived[3] = Reducers

\* main returns; of a program that went wild nothing is said.
Halt == (Finished \/ wild) /\ UNCHANGED vars

Next ==
    \/ /\ ~wild
       /\ \/ \E m \in Mappers : Mapper(m)
          \/ \E r \in Reducers : Reducer(r)
    \/ Halt

Spec == Init /\ [][Next]_vars

\* The operating system runs every thread; a mutex, a barrier and fetch_add
\* keep none of them waiting while it could go on.
Fairness ==
    /\ \A m \in Mappers : WF_vars(~wild /\ Mapper(m))
    /\ \A r \in Reducers : WF_vars(~wild /\ Reducer(r))

FairSpec == Spec /\ Fairness

-----------------------------------------------------------------------------
(* Properties *)

\* Every variable keeps its type.
TypeOK ==
    /\ queue \subseteq FileIds
    /\ mpc \in [Mappers -> {"pop", "scan", "done"}]
    /\ held \in [Mappers -> FileIds \cup {NoFile}]
    /\ words \in [Mappers -> SUBSET (Words \X FileIds)]
    /\ arrived \in [0 .. 3 -> SUBSET (Mappers \cup Reducers)]
    /\ phase \in [Reducers -> 0 .. 3]
    /\ at \in [Reducers -> {"enter", "barrier", "claim", "work"}]
    /\ letter \in [Reducers -> (CharMin .. CharZ) \cup {NoLetter}]
    /\ counter \in [Loops -> CharMin .. CharMax]
    /\ agg \in [Letters -> [Words -> SUBSET FileIds]]
    /\ wild \in BOOLEAN

(***************************************************************************)
(* The files are shared out: each is waiting, held by one mapper that has  *)
(* not recorded any of it, or recorded by one mapper, completely.          *)
(***************************************************************************)
Holds(m, f) == mpc[m] = "scan" /\ held[m] = f
Recorded(m, f) == {w \in Words : <<w, f>> \in words[m]}
Untouched(m, f) == ~Holds(m, f) /\ Recorded(m, f) = {}
WorkSplit ==
    \A f \in FileIds :
        IF f \in queue
        THEN \A m \in Mappers : Untouched(m, f)
        ELSE \E m \in Mappers :
                /\ IF Holds(m, f) THEN Recorded(m, f) = {}
                                  ELSE Recorded(m, f) = Contents[f]
                /\ \A n \in Mappers \ {m} : Untouched(n, f)

(***************************************************************************)
(* What a loop of the reducers reads is complete when the first of them    *)
(* enters the loop, and no thread is still writing it: the words at the    *)
(* first loop, the aggregated maps at the second.                          *)
(***************************************************************************)
PhaseData ==
    ~wild => \A r \in Reducers :
        /\ phase[r] >= 1 => \A m \in Mappers : mpc[m] = "done"
        /\ phase[r] >= 2 =>
              \A l \in Letters : \A w \in Words :
                  agg[l][w] = IF LetterOf[w] = l THEN FilesOf(w) ELSE {}

(***************************************************************************)
(* The atomic counters overflow.  Every reducer that leaves a loop adds    *)
(* one more to a counter that is past 'z', so when CharMax - 'z' of them   *)
(* have left, the next value is CharMin and a reducer that is still in the *)
(* loop goes on with negative characters.  Drained says that this many     *)
(* have left loop k; with 'z' = 122 and CHAR_MAX = 127 it takes five.      *)
(***************************************************************************)
Drained(k) == Cardinality(arrived[k]) >= CharMax - CharZ

\* Until that happens, no two reducers of a loop work on one letter, and the
\* one that a reducer works on indexes the vectors of 26 elements.
OneOwner ==
    \A r, s \in Reducers :
        at[r] = "work" /\ ~Drained(phase[r]) =>
            /\ letter[r] \in Letters
            /\ Working(s, phase[r]) /\ letter[s] = letter[r] => s = r

\* The program goes wild only by that overflow, while some reducer is still
\* in the loop: never with CharMax - 'z' reducers or fewer.
WildOnlyDrained ==
    wild => \E k \in Loops : Drained(k) /\ arrived[k] # Reducers

\* The promises of InvertedIndex.tla, about the output files alone.
Abstract == INSTANCE InvertedIndex WITH NotWritten <- NotWritten, out <- out
Refinement == Abstract!Spec

\* Every thread returns and every letter's file is there, unless the counters
\* overflow.
Completion ==
    <>(wild \/ (Finished /\ \A l \in Letters : out[l] # NotWritten))
=============================================================================
