---------------------------- MODULE ShellProofs ----------------------------
(***************************************************************************)
(* Theorems about Shell.tla and ShellMeaning.tla, for any lines, any       *)
(* number of processes and pipes and any size of a pipe.                   *)
(***************************************************************************)
EXTENDS ShellMeaning, FiniteSetTheorems, TLAPS

\* A set of positive integers up to n has a least element, if it has any.
LEMMA LeastElement ==
  ASSUME NEW n \in Nat, NEW S \in SUBSET (1 .. n), S # {}
  PROVE  \E i \in S : \A j \in S : i <= j
<1> DEFINE T == {1 .. i : i \in S}
<1>1. T # {} /\ T \subseteq FiniteSubsetsOf(1 .. n)
  <2>1. \A i \in S : 1 .. i \subseteq 1 .. n /\ IsFiniteSet(1 .. i)
    BY FS_Interval
  <2> QED
    BY <2>1 DEF FiniteSubsetsOf
<1>2. IsWellFoundedOn(StrictSubsetOrdering(1 .. n), FiniteSubsetsOf(1 .. n))
  BY FS_StrictSubsetOrderingWellFounded
<1>3. \E x \in T : \A y \in T : <<y, x>> \notin StrictSubsetOrdering(1 .. n)
  <2> HIDE DEF T
  <2> QED
    BY <1>1, <1>2, WFMin
<1>4. PICK i \in S :
        \A j \in S : <<1 .. j, 1 .. i>> \notin StrictSubsetOrdering(1 .. n)
  BY <1>3
<1>5. ASSUME NEW j \in S, j < i PROVE FALSE
  <2>1. 1 .. j \subseteq 1 .. i /\ 1 .. i # 1 .. j
    <3>1. i \in 1 .. i /\ i \notin 1 .. j
      BY <1>5
    <3>2. \A k \in 1 .. j : k \in 1 .. i
      BY <1>5
    <3> QED
      BY <3>1, <3>2
  <2>2. 1 .. j \subseteq 1 .. n /\ 1 .. i \subseteq 1 .. n
    OBVIOUS
  <2> QED
    BY <1>4, <2>1, <2>2 DEF StrictSubsetOrdering
<1> QED
  BY <1>5

-----------------------------------------------------------------------------
(* A forest: who has not yet been waited for, and by whom.                 *)

\* N are the processes there are, L[p] the children p has still to wait for.
\* Each but the first is a child of one process, and ranks below it.
Forest(N, L) ==
    /\ 1 \in N /\ N \subseteq Pids
    /\ L \in [Pids -> SUBSET (N \ {1})]
    /\ \A p \in Pids : p \notin N => L[p] = {}
    /\ \A p, q \in Pids : p # q => L[p] \cap L[q] = {}
    /\ \A q \in N \ {1} : \E p \in Pids : q \in L[p]
    /\ \E rank \in [Pids -> Nat] : \A p \in Pids : \A q \in L[p] : rank[p] < rank[q]

\* Of the processes of a set one ranks first.
LEMMA FirstRank ==
  ASSUME NEW rank \in [Pids -> Nat], NEW S \in SUBSET Pids, S # {}
  PROVE  \E p \in S : \A q \in S : rank[p] <= rank[q]
<1>1. PICK a \in S : TRUE
  OBVIOUS
<1> DEFINE n == rank[a] + 1
           R == {rank[p] + 1 : p \in {p \in S : rank[p] <= rank[a]}}
<1>2. n \in Nat /\ R \in SUBSET (1 .. n) /\ R # {}
  BY <1>1
<1>3. PICK i \in R : \A j \in R : i <= j
  <2> HIDE DEF n, R
  <2> QED
    BY <1>2, LeastElement
<1>4. PICK p \in S : rank[p] <= rank[a] /\ i = rank[p] + 1
  BY <1>3
<1>5. ASSUME NEW q \in S PROVE rank[p] <= rank[q]
  <2>1. rank[q] \in Nat /\ rank[p] \in Nat /\ rank[a] \in Nat
    BY <1>1
  <2>2. CASE rank[q] <= rank[a]
    <3>1. rank[q] + 1 \in R
      BY <2>2
    <3> QED
      BY <1>3, <1>4, <2>1, <3>1
  <2>3. CASE rank[q] > rank[a]
    BY <1>4, <2>1, <2>3
  <2> QED
    BY <2>1, <2>2, <2>3
<1> QED
  BY <1>5

\* When the first waits for nobody there is nobody else.
LEMMA ForestRoot ==
  ASSUME NEW N, NEW L, Forest(N, L), L[1] = {}
  PROVE  N = {1}
<1>1. PICK rank \in [Pids -> Nat] : \A p \in Pids : \A q \in L[p] : rank[p] < rank[q]
  BY DEF Forest
<1> SUFFICES ASSUME N \ {1} # {} PROVE FALSE
  BY DEF Forest
<1>2. N \ {1} \in SUBSET Pids
  BY DEF Forest
<1>3. PICK q \in N \ {1} : \A r \in N \ {1} : rank[q] <= rank[r]
  <2> DEFINE S == N \ {1}
  <2> HIDE DEF S
  <2>1. \E q \in S : \A r \in S : rank[q] <= rank[r]
    BY <1>2, FirstRank DEF S
  <2> QED
    BY <2>1 DEF S
<1>4. PICK p \in Pids : q \in L[p]
  BY DEF Forest
<1>5. p \in N \ {1}
  BY <1>4 DEF Forest
<1>6. rank[p] < rank[q] /\ rank[q] <= rank[p]
  BY <1>1, <1>3, <1>4, <1>5
<1>7. rank[p] \in Nat /\ rank[q] \in Nat
  BY <1>2, <1>4
<1> QED
  BY <1>6, <1>7

\* A new child, which has none itself.
LEMMA ForestFork ==
  ASSUME NEW N, NEW L, Forest(N, L), NEW p \in N, NEW q \in Pids \ N
  PROVE  Forest(N \cup {q}, [L EXCEPT ![p] = L[p] \cup {q}])
<1> DEFINE M == N \cup {q}
           K == [L EXCEPT ![p] = L[p] \cup {q}]
<1>1. /\ 1 \in N /\ N \subseteq Pids
      /\ L \in [Pids -> SUBSET (N \ {1})]
      /\ \A r \in Pids : r \notin N => L[r] = {}
      /\ \A r, s \in Pids : r # s => L[r] \cap L[s] = {}
      /\ \A r \in N \ {1} : \E s \in Pids : r \in L[s]
  BY DEF Forest
<1>2. p \in Pids /\ p # q /\ q # 1
  BY <1>1
<1>3. K \in [Pids -> SUBSET (M \ {1})] /\ K[p] = L[p] \cup {q}
      /\ \A r \in Pids : r # p => K[r] = L[r]
  BY <1>1, <1>2
<1>4. \A r \in Pids : q \notin L[r]
  BY <1>1
<1> HIDE DEF K
<1>5. 1 \in M /\ M \subseteq Pids /\ \A r \in Pids : r \notin M => K[r] = {}
  BY <1>1, <1>3
<1>6. ASSUME NEW r \in Pids, NEW s \in Pids, r # s PROVE K[r] \cap K[s] = {}
  BY <1>1, <1>2, <1>3, <1>4, <1>6
<1>7. ASSUME NEW r \in M \ {1} PROVE \E s \in Pids : r \in K[s]
  <2>1. CASE r = q
    BY <1>2, <1>3, <2>1
  <2>2. CASE r # q
    <3>1. PICK s \in Pids : r \in L[s]
      BY <1>1, <2>2
    <3> QED
      BY <1>3, <3>1
  <2> QED
    BY <2>1, <2>2
<1>8. \E rank \in [Pids -> Nat] : \A r \in Pids : \A s \in K[r] : rank[r] < rank[s]
  <2>1. PICK f \in [Pids -> Nat] : \A r \in Pids : \A s \in L[r] : f[r] < f[s]
    BY DEF Forest
  <2> DEFINE g == [f EXCEPT ![q] = f[p] + 1]
  <2>2. g \in [Pids -> Nat] /\ g[q] = f[p] + 1 /\ \A r \in Pids : r # q => g[r] = f[r]
    BY <1>2
  <2> HIDE DEF g
  <2>3. ASSUME NEW r \in Pids, NEW s \in K[r] PROVE g[r] < g[s]
    <3>1. r # q
      BY <1>1, <1>2, <1>3, <2>3
    <3>2. CASE s = q
      <4>1. r = p
        BY <1>3, <1>4, <2>3, <3>2
      <4>2. g[r] = f[p] /\ g[s] = f[p] + 1 /\ f[p] \in Nat
        BY <1>2, <2>2, <3>2, <4>1
      <4> QED
        BY <4>2
    <3>3. CASE s # q
      <4>1. s \in L[r] /\ s \in Pids
        BY <1>1, <1>3, <2>3, <3>3
      <4> QED
        BY <2>1, <2>2, <3>1, <3>3, <4>1
    <3> QED
      BY <3>2, <3>3
  <2> QED
    BY <2>2, <2>3
<1> QED
  BY <1>3, <1>5, <1>6, <1>7, <1>8 DEF Forest, K

\* A child that has none is waited for.
LEMMA ForestReap ==
  ASSUME NEW N, NEW L, Forest(N, L), NEW p \in Pids, NEW q \in L[p], L[q] = {}
  PROVE  Forest(N \ {q}, [L EXCEPT ![p] = L[p] \ {q}])
<1> DEFINE M == N \ {q}
           K == [L EXCEPT ![p] = L[p] \ {q}]
<1>1. /\ 1 \in N /\ N \subseteq Pids
      /\ L \in [Pids -> SUBSET (N \ {1})]
      /\ \A r \in Pids : r \notin N => L[r] = {}
      /\ \A r, s \in Pids : r # s => L[r] \cap L[s] = {}
      /\ \A r \in N \ {1} : \E s \in Pids : r \in L[s]
  BY DEF Forest
<1>2. q \in N /\ q # 1 /\ q \in Pids
  BY <1>1
<1>3. \A r \in Pids : r # p => q \notin L[r]
  BY <1>1
<1>4. K[p] = L[p] \ {q} /\ \A r \in Pids : r # p => K[r] = L[r]
  BY <1>1
<1>5. \A r \in Pids : K[r] = L[r] \ {q}
  BY <1>3, <1>4
<1>6. K \in [Pids -> SUBSET (M \ {1})]
  <2>1. K = [r \in Pids |-> K[r]]
    BY <1>1
  <2>2. \A r \in Pids : K[r] \in SUBSET (M \ {1})
    BY <1>1, <1>5
  <2> HIDE DEF K, M
  <2> QED
    BY <2>1, <2>2
<1> HIDE DEF K
<1>7. 1 \in M /\ M \subseteq Pids /\ \A r \in Pids : r \notin M => K[r] = {}
  BY <1>1, <1>2, <1>5
<1>8. \A r, s \in Pids : r # s => K[r] \cap K[s] = {}
  BY <1>1, <1>5
<1>9. ASSUME NEW r \in M \ {1} PROVE \E s \in Pids : r \in K[s]
  <2>1. PICK s \in Pids : r \in L[s]
    BY <1>1
  <2> QED
    BY <1>5, <2>1
<1>10. \E rank \in [Pids -> Nat] : \A r \in Pids : \A s \in K[r] : rank[r] < rank[s]
  <2>1. PICK f \in [Pids -> Nat] : \A r \in Pids : \A s \in L[r] : f[r] < f[s]
    BY DEF Forest
  <2> QED
    BY <1>5, <2>1
<1> QED
  BY <1>6, <1>7, <1>8, <1>9, <1>10 DEF Forest, K
-----------------------------------------------------------------------------
(* The stack of parse_command calls of a process.                          *)

IsSeq(s) == \E S : s \in Seq(S)

IsFrame(f) == f = [c |-> f.c, at |-> f.at, kids |-> f.kids, pipe |-> f.pipe]

\* The children a frame still has to wait for.
LiveOf(f) == IF f.at = "wait2" THEN {Last(f.kids)}
             ELSE {f.kids[i] : i \in 1 .. Len(f.kids)}

Calling == {"second", "last"}
FrameOK(f) ==
    /\ IsFrame(f) /\ IsSeq(f.kids)
    /\ f.at \in {"start", "fork2", "wait1", "wait2"} \cup Calling
    /\ f.at \in {"start"} \cup Calling => f.kids = <<>>
    /\ f.at = "fork2" => Len(f.kids) = 1
    /\ f.at = "wait1" => Len(f.kids) = 2 /\ f.kids[1] # f.kids[2]

StackOK(s) ==
    /\ IsSeq(s) /\ Len(s) >= 1
    /\ \A i \in 1 .. Len(s) : FrameOK(s[i]) /\ (i < Len(s) => s[i].at \in Calling)

LEMMA AppendSeq ==
  ASSUME NEW s, IsSeq(s), NEW x
  PROVE  /\ IsSeq(Append(s, x)) /\ Len(s) \in Nat
         /\ Len(Append(s, x)) = Len(s) + 1
         /\ \A i \in 1 .. Len(s) : Append(s, x)[i] = s[i]
         /\ Append(s, x)[Len(s) + 1] = x
         /\ Front(Append(s, x)) = s /\ Last(Append(s, x)) = x
<1>1. PICK S : s \in Seq(S)
  BY DEF IsSeq
<1> DEFINE T == S \cup {x}
<1>2. s \in Seq(T) /\ x \in T
  <2>1. s = [i \in 1 .. Len(s) |-> s[i]] /\ Len(s) \in Nat
    BY <1>1
  <2>2. \A i \in 1 .. Len(s) : s[i] \in T
    BY <1>1
  <2> HIDE DEF T
  <2>3. s \in Seq(T)
    BY <2>1, <2>2
  <2> QED
    BY <2>3 DEF T
<1> HIDE DEF T
<1>3. Append(s, x) \in Seq(T) /\ Len(s) \in Nat
      /\ Len(Append(s, x)) = Len(s) + 1
      /\ (\A i \in 1 .. Len(s) : Append(s, x)[i] = s[i])
      /\ Append(s, x)[Len(s) + 1] = x
  BY <1>2
<1>4. Front(Append(s, x)) = s
  <2>1. Len(Append(s, x)) - 1 = Len(s)
    BY <1>3
  <2>2. SubSeq(Append(s, x), 1, Len(s)) = [i \in 1 .. Len(s) |-> Append(s, x)[i]]
    BY <1>2, <1>3
  <2>3. s = [i \in 1 .. Len(s) |-> s[i]]
    BY <1>1
  <2> QED
    BY <1>3, <2>1, <2>2, <2>3 DEF Front
<1>5. Last(Append(s, x)) = x
  BY <1>3 DEF Last
<1> QED
  BY <1>3, <1>4, <1>5 DEF IsSeq

LEMMA FrontSeq ==
  ASSUME NEW s, IsSeq(s), Len(s) >= 1
  PROVE  /\ IsSeq(Front(s)) /\ Len(Front(s)) = Len(s) - 1 /\ Len(s) \in Nat
         /\ \A i \in 1 .. Len(s) - 1 : Front(s)[i] = s[i]
<1>1. PICK S : s \in Seq(S)
  BY DEF IsSeq
<1>2. Len(s) \in Nat /\ Len(s) - 1 \in Nat
  BY <1>1
<1> DEFINE n == Len(s) - 1
<1>3. SubSeq(s, 1, n) = [i \in 1 .. n |-> s[i]]
  BY <1>1, <1>2
<1>4. Front(s) = [i \in 1 .. n |-> s[i]]
  BY <1>3 DEF Front
<1>5. \A i \in 1 .. n : s[i] \in S
  BY <1>1, <1>2
<1>6. Front(s) \in Seq(S) /\ Len(Front(s)) = n /\ \A i \in 1 .. n : Front(s)[i] = s[i]
  <2> HIDE DEF n
  <2> QED
    BY <1>2, <1>4, <1>5 DEF n
<1> QED
  BY <1>2, <1>6 DEF IsSeq

LEMMA OneSeq ==
  ASSUME NEW x
  PROVE  IsSeq(<<x>>) /\ Len(<<x>>) = 1 /\ <<x>>[1] = x /\ Last(<<x>>) = x
<1>1. <<x>> \in Seq({x})
  OBVIOUS
<1> QED
  BY <1>1 DEF IsSeq, Last

LEMMA NewFrame ==
  ASSUME NEW c
  PROVE  /\ FrameOK(Frame(c)) /\ Frame(c).at = "start" /\ Frame(c).pipe = 0
         /\ LiveOf(Frame(c)) = {}
         /\ StackOK(<<Frame(c)>>) /\ Last(<<Frame(c)>>) = Frame(c)
<1>1. IsFrame(Frame(c)) /\ Frame(c).at = "start" /\ Frame(c).kids = <<>> /\ Frame(c).pipe = 0
  BY DEF IsFrame, Frame
<1>2. <<>> \in Seq({})
  OBVIOUS
<1>3. IsSeq(<<>>) /\ Len(<<>>) = 0
  BY <1>2 DEF IsSeq
<1>4. FrameOK(Frame(c))
  BY <1>1, <1>3 DEF FrameOK
<1>5. LiveOf(Frame(c)) = {}
  BY <1>1, <1>3 DEF LiveOf
<1>6. StackOK(<<Frame(c)>>)
  <2>1. \A i \in 1 .. 1 : i = 1
    OBVIOUS
  <2> QED
    BY <1>4, <2>1, OneSeq DEF StackOK
<1> QED
  BY <1>1, <1>4, <1>5, <1>6, OneSeq

\* The frame a call is in.
LEMMA TopFrame ==
  ASSUME NEW s, StackOK(s)
  PROVE  /\ FrameOK(Last(s)) /\ IsSeq(s) /\ Len(s) \in Nat /\ Len(s) >= 1
         /\ Last(s).at \in {"start"} \cup Calling => LiveOf(Last(s)) = {}
<1>1. IsSeq(s) /\ Len(s) >= 1 /\ Len(s) \in Nat
  BY FrontSeq DEF StackOK
<1>2. FrameOK(Last(s))
  BY <1>1 DEF StackOK, Last
<1>3. ASSUME Last(s).at \in {"start"} \cup Calling PROVE LiveOf(Last(s)) = {}
  <2>1. Last(s).kids = <<>> /\ Len(<<>>) = 0
    BY <1>2, <1>3 DEF FrameOK
  <2> QED
    BY <1>3, <2>1 DEF LiveOf, Calling
<1> QED
  BY <1>1, <1>2, <1>3

LEMMA PutTop ==
  ASSUME NEW s, StackOK(s), NEW f, FrameOK(f)
  PROVE  LET t == Append(Front(s), f)
         IN  StackOK(t) /\ Last(t) = f /\ Front(t) = Front(s) /\ Len(t) = Len(s)
<1> DEFINE r == Front(s)
           t == Append(r, f)
<1>1. /\ IsSeq(s) /\ Len(s) \in Nat /\ Len(s) >= 1
      /\ \A i \in 1 .. Len(s) : FrameOK(s[i]) /\ (i < Len(s) => s[i].at \in Calling)
  BY TopFrame DEF StackOK
<1>2. IsSeq(r) /\ Len(r) = Len(s) - 1 /\ \A i \in 1 .. Len(s) - 1 : r[i] = s[i]
  BY <1>1, FrontSeq
<1> HIDE DEF r
<1>3. /\ IsSeq(t) /\ Len(t) = Len(r) + 1 /\ \A i \in 1 .. Len(r) : t[i] = r[i]
      /\ t[Len(r) + 1] = f /\ Front(t) = r /\ Last(t) = f
  BY <1>2, AppendSeq
<1> HIDE DEF t
<1>4. Len(t) = Len(s) /\ t[Len(s)] = f /\ \A i \in 1 .. Len(s) - 1 : t[i] = s[i]
  BY <1>1, <1>2, <1>3
<1>5. ASSUME NEW i \in 1 .. Len(t)
      PROVE  FrameOK(t[i]) /\ (i < Len(t) => t[i].at \in Calling)
  <2>1. i \in 1 .. Len(s) /\ (i = Len(s) \/ i \in 1 .. Len(s) - 1)
    BY <1>1, <1>4
  <2> QED
    BY <1>1, <1>4, <2>1
<1>6. StackOK(t)
  BY <1>1, <1>3, <1>4, <1>5 DEF StackOK
<1> QED
  BY <1>3, <1>4, <1>6 DEF r, t

LEMMA PushFrame ==
  ASSUME NEW s, StackOK(s), Last(s).at \in Calling, NEW c
  PROVE  LET t == Append(s, Frame(c)) IN StackOK(t) /\ Last(t) = Frame(c)
<1> DEFINE t == Append(s, Frame(c))
<1>1. /\ IsSeq(s) /\ Len(s) \in Nat /\ Len(s) >= 1
      /\ \A i \in 1 .. Len(s) : FrameOK(s[i]) /\ (i < Len(s) => s[i].at \in Calling)
  BY TopFrame DEF StackOK
<1>2. /\ IsSeq(t) /\ Len(t) = Len(s) + 1 /\ \A i \in 1 .. Len(s) : t[i] = s[i]
      /\ t[Len(s) + 1] = Frame(c) /\ Last(t) = Frame(c)
  BY <1>1, AppendSeq
<1> HIDE DEF t
<1>3. ASSUME NEW i \in 1 .. Len(t)
      PROVE  FrameOK(t[i]) /\ (i < Len(t) => t[i].at \in Calling)
  <2>1. i = Len(s) + 1 \/ i = Len(s) \/ i \in 1 .. Len(s) - 1
    BY <1>1, <1>2
  <2>2. CASE i = Len(s) + 1
    <3>1. FrameOK(t[i])
      BY <1>2, <2>2, NewFrame
    <3>2. ~(i < Len(t))
      BY <1>1, <1>2, <2>2
    <3> QED
      BY <3>1, <3>2
  <2>3. CASE i = Len(s)
    <3>1. i \in 1 .. Len(s) /\ t[i] = Last(s)
      BY <1>1, <1>2, <2>3 DEF Last
    <3> QED
      BY <3>1, TopFrame
  <2>4. CASE i \in 1 .. Len(s) - 1
    <3>1. i \in 1 .. Len(s) /\ i < Len(s)
      BY <1>1, <2>4
    <3> QED
      BY <1>1, <1>2, <3>1
  <2> QED
    BY <2>1, <2>2, <2>3, <2>4
<1>4. StackOK(t)
  BY <1>1, <1>2, <1>3 DEF StackOK
<1> QED
  BY <1>2, <1>4 DEF t

LEMMA PopFrame ==
  ASSUME NEW s, StackOK(s), Len(s) > 1
  PROVE  StackOK(Front(s)) /\ Last(Front(s)).at \in Calling
<1> DEFINE t == Front(s)
<1>1. /\ IsSeq(s) /\ Len(s) \in Nat /\ Len(s) >= 1
      /\ \A i \in 1 .. Len(s) : FrameOK(s[i]) /\ (i < Len(s) => s[i].at \in Calling)
  BY TopFrame DEF StackOK
<1>2. IsSeq(t) /\ Len(t) = Len(s) - 1 /\ \A i \in 1 .. Len(s) - 1 : t[i] = s[i]
  BY <1>1, FrontSeq
<1> HIDE DEF t
<1>3. ASSUME NEW i \in 1 .. Len(t) PROVE FrameOK(t[i]) /\ t[i].at \in Calling
  <2>1. i \in 1 .. Len(s) /\ i \in 1 .. Len(s) - 1 /\ i < Len(s)
    BY <1>1, <1>2
  <2> QED
    BY <1>1, <1>2, <2>1
<1>4. Len(t) >= 1 /\ Len(t) \in 1 .. Len(t)
  BY <1>1, <1>2
<1>5. StackOK(t) /\ Last(t).at \in Calling
  BY <1>2, <1>3, <1>4 DEF StackOK, Last
<1> QED
  BY <1>5 DEF t

-----------------------------------------------------------------------------
(* One process.                                                            *)

IsProc(pr) ==
    pr = [kind |-> pr.kind, stack |-> pr.stack, ret |-> pr.ret, in |-> pr.in,
          out |-> pr.out, held |-> pr.held, env |-> pr.env, reads |-> pr.reads,
          writes |-> pr.writes]

\* Between the forks of a pipe: its number, or 0.
Piping(pr) ==
    IF pr.kind = "shell" /\ Last(pr.stack).at = "fork2" THEN Last(pr.stack).pipe ELSE 0
Both(x) == {<<x, "r">>, <<x, "w">>}

\* The children a process still has to wait for.
Live(pr) == IF pr.kind = "shell" THEN LiveOf(Last(pr.stack)) ELSE {}

\* Who has ended has no end of a pipe open, the first process only those of
\* the pipe it is about, and who writes into a pipe holds the end to read from.
EndsOK(p, kind, in, out, held, x) ==
    /\ kind \in {"free", "zombie"} => in = 0 /\ out = 0 /\ held = {}
    /\ p = 1 => in = 0 /\ out = 0 /\ held = IF x = 0 THEN {} ELSE Both(x)
    /\ out # 0 => <<out, "r">> \in held
    /\ x # 0 => out # x

ProcOK(p, pr) ==
    /\ IsProc(pr)
    /\ IF p = 1 THEN pr.kind \in {"prompt", "shell", "left"}
       ELSE pr.kind \in {"free", "shell", "prog", "zombie"}
    /\ pr.kind = "shell" => StackOK(pr.stack)
    /\ EndsOK(p, pr.kind, pr.in, pr.out, pr.held, Piping(pr))

\* The changes of a process.
WithRun(pr, k, s, r) == [pr EXCEPT !.kind = k, !.stack = s, !.ret = r]
WithExec(pr, k, r, a, b, x, y) ==
    [pr EXCEPT !.kind = k, !.ret = r, !.reads = a, !.writes = b, !.in = x, !.out = y]
WithWork(pr, a, b) == [pr EXCEPT !.reads = a, !.writes = b]
WithHeld(pr, h) == [pr EXCEPT !.held = h]
WithEnds(pr, x, y, h) == [pr EXCEPT !.in = x, !.out = y, !.held = h]

LEMMA RunFields ==
  ASSUME NEW pr, IsProc(pr), NEW k, NEW s, NEW r,
         NEW new, new = WithRun(pr, k, s, r)
  PROVE  /\ IsProc(new) /\ new.kind = k /\ new.stack = s
         /\ new.in = pr.in /\ new.out = pr.out /\ new.held = pr.held
         /\ new.ret = r /\ new.env = pr.env
<1>1. new = [kind |-> k, stack |-> s, ret |-> r, in |-> pr.in, out |-> pr.out,
             held |-> pr.held, env |-> pr.env, reads |-> pr.reads, writes |-> pr.writes]
  BY DEF IsProc, WithRun
<1> QED
  BY <1>1 DEF IsProc

LEMMA ExecFields ==
  ASSUME NEW pr, IsProc(pr), NEW k, NEW r, NEW a, NEW b, NEW x, NEW y,
         NEW new, new = WithExec(pr, k, r, a, b, x, y)
  PROVE  /\ IsProc(new) /\ new.kind = k /\ new.stack = pr.stack
         /\ new.in = x /\ new.out = y /\ new.held = pr.held /\ new.ret = r
<1>1. new = [kind |-> k, stack |-> pr.stack, ret |-> r, in |-> x, out |-> y,
             held |-> pr.held, env |-> pr.env, reads |-> a, writes |-> b]
  BY DEF IsProc, WithExec
<1> QED
  BY <1>1 DEF IsProc

LEMMA WorkFields ==
  ASSUME NEW pr, IsProc(pr), NEW a, NEW b, NEW new, new = WithWork(pr, a, b)
  PROVE  /\ IsProc(new) /\ new.kind = pr.kind /\ new.stack = pr.stack
         /\ new.in = pr.in /\ new.out = pr.out /\ new.held = pr.held
         /\ new.ret = pr.ret
<1>1. new = [kind |-> pr.kind, stack |-> pr.stack, ret |-> pr.ret, in |-> pr.in,
             out |-> pr.out, held |-> pr.held, env |-> pr.env, reads |-> a, writes |-> b]
  BY DEF IsProc, WithWork
<1> QED
  BY <1>1 DEF IsProc

\* What a process number stands for at first, and after exit.
LEMMA FreshFields ==
  ASSUME NEW k, NEW r, NEW e, NEW new,
         new = [kind |-> k, stack |-> <<>>, ret |-> r, in |-> 0, out |-> 0, held |-> {},
                env |-> e, reads |-> 0, writes |-> 0]
  PROVE  /\ IsProc(new) /\ new.kind = k /\ new.in = 0 /\ new.out = 0 /\ new.held = {}
         /\ new.ret = r /\ new.env = e
BY DEF IsProc

FreeBut(k) == [Free EXCEPT !.kind = k]

LEMMA FreeFields ==
  ASSUME NEW k, NEW new, new = FreeBut(k)
  PROVE  /\ IsProc(new) /\ new.kind = k /\ new.in = 0 /\ new.out = 0 /\ new.held = {}
         /\ new.env = [n \in Names |-> ""]
<1> DEFINE e == [n \in Names |-> ""]
<1>1. new = [kind |-> k, stack |-> <<>>, ret |-> 0, in |-> 0, out |-> 0, held |-> {},
             env |-> e, reads |-> 0, writes |-> 0]
  BY DEF FreeBut, Free
<1>2. e = [n \in Names |-> ""]
  OBVIOUS
<1> HIDE DEF e
<1>3. /\ IsProc(new) /\ new.kind = k /\ new.in = 0 /\ new.out = 0 /\ new.held = {}
      /\ new.env = e
  BY <1>1, FreshFields
<1> QED
  BY <1>2, <1>3

LEMMA EndedFields ==
  ASSUME NEW r, NEW new, new = Ended(r)
  PROVE  /\ IsProc(new) /\ new.kind = "zombie" /\ new.in = 0 /\ new.out = 0
         /\ new.held = {} /\ new.ret = r
<1> DEFINE e == [n \in Names |-> ""]
<1>1. new = [kind |-> "zombie", stack |-> <<>>, ret |-> r, in |-> 0, out |-> 0, held |-> {},
             env |-> e, reads |-> 0, writes |-> 0]
  BY DEF Ended, Free
<1> HIDE DEF e
<1> QED
  BY <1>1, FreshFields

\* A change of what the proofs do not look at.
LEMMA SameProc ==
  ASSUME NEW p, NEW pr, ProcOK(p, pr), NEW new, IsProc(new),
         new.kind = pr.kind, new.stack = pr.stack, new.in = pr.in,
         new.out = pr.out, new.held = pr.held
  PROVE  ProcOK(p, new) /\ Live(new) = Live(pr)
<1>1. Piping(new) = Piping(pr) /\ Live(new) = Live(pr)
  BY DEF Piping, Live
<1> QED
  BY <1>1 DEF ProcOK

LEMMA WithTopOK ==
  ASSUME NEW p, NEW pr, ProcOK(p, pr), pr.kind = "shell", NEW f, FrameOK(f)
  PROVE  LET new == WithTop(pr, f)
         IN  /\ IsProc(new) /\ new.kind = "shell" /\ new.in = pr.in /\ new.out = pr.out
             /\ new.held = pr.held /\ new.stack = Append(Front(pr.stack), f)
             /\ new.ret = pr.ret /\ new.env = pr.env
             /\ StackOK(new.stack) /\ Last(new.stack) = f
             /\ Front(new.stack) = Front(pr.stack)
<1> DEFINE new == WithTop(pr, f)
<1>1. IsProc(pr) /\ StackOK(pr.stack)
  BY DEF ProcOK
<1>2. new = [pr EXCEPT !.stack = Append(Front(pr.stack), f)]
  BY DEF WithTop
<1>3. /\ IsProc(new) /\ new.kind = pr.kind /\ new.in = pr.in /\ new.out = pr.out
      /\ new.held = pr.held /\ new.stack = Append(Front(pr.stack), f)
      /\ new.ret = pr.ret /\ new.env = pr.env
  BY <1>1, <1>2 DEF IsProc
<1> HIDE DEF new
<1>4. StackOK(new.stack) /\ Last(new.stack) = f /\ Front(new.stack) = Front(pr.stack)
  BY <1>1, <1>3, PutTop
<1> QED
  BY <1>3, <1>4 DEF new

\* A command is called, in a frame of its own.
LEMMA CallOK ==
  ASSUME NEW p, NEW pr, ProcOK(p, pr), pr.kind = "shell",
         Last(pr.stack).at \in {"start", "second"}, NEW place \in Calling, NEW c
  PROVE  LET new == Call(pr, place, c)
         IN  ProcOK(p, new) /\ new.kind = "shell" /\ Live(new) = {} /\ Live(pr) = {}
<1> DEFINE top == Last(pr.stack)
           f == [top EXCEPT !.at = place]
           mid == Moved(pr, place)
           new == Call(pr, place, c)
<1>1. StackOK(pr.stack) /\ FrameOK(top) /\ LiveOf(top) = {}
  BY TopFrame DEF ProcOK, Calling
<1> HIDE DEF top
<1>2. IsFrame(f) /\ f.at = place /\ f.kids = top.kids
  BY <1>1 DEF FrameOK, IsFrame
<1>3. top.at \in {"start"} \cup Calling
  BY DEF top, Calling
<1> HIDE DEF f
<1>4. FrameOK(f)
  BY <1>1, <1>2, <1>3 DEF FrameOK, Calling
<1>5. mid = WithTop(pr, f)
  BY DEF Moved, f, top
<1>6. /\ IsProc(mid) /\ mid.kind = "shell" /\ mid.in = pr.in /\ mid.out = pr.out
      /\ mid.held = pr.held /\ StackOK(mid.stack) /\ Last(mid.stack) = f
  BY <1>4, <1>5, WithTopOK
<1>7. new = [mid EXCEPT !.stack = Append(mid.stack, Frame(c))]
  BY DEF Call
<1> HIDE DEF mid, new
<1>8. /\ IsProc(new) /\ new.kind = "shell" /\ new.in = pr.in /\ new.out = pr.out
      /\ new.held = pr.held /\ new.stack = Append(mid.stack, Frame(c))
  BY <1>6, <1>7 DEF IsProc
<1>9. StackOK(new.stack) /\ Last(new.stack) = Frame(c)
  BY <1>2, <1>6, <1>8, PushFrame
<1>10. Piping(new) = 0 /\ Piping(pr) = 0 /\ Live(new) = {}
  BY <1>8, <1>9, NewFrame DEF Piping, Live, top
<1>11. Live(pr) = {}
  BY <1>1 DEF Live, top
<1>12. ProcOK(p, new)
  BY <1>8, <1>9, <1>10 DEF ProcOK
<1> QED
  BY <1>8, <1>10, <1>11, <1>12 DEF new

\* A command comes back.
LEMMA ReturnedOK ==
  ASSUME NEW p, NEW pr, ProcOK(p, pr), pr.kind = "shell",
         Last(pr.stack).at # "fork2", NEW r
  PROVE  LET new == Returned(p, pr, r)
         IN  ProcOK(p, new) /\ new.kind # "free" /\ Live(new) = {}
<1> DEFINE new == Returned(p, pr, r)
<1>1. IsProc(pr) /\ StackOK(pr.stack) /\ Piping(pr) = 0
  BY DEF ProcOK, Piping
<1>2. EndsOK(p, "shell", pr.in, pr.out, pr.held, 0)
  BY <1>1 DEF ProcOK
<1>3. CASE Len(pr.stack) > 1
  <2>1. new = [pr EXCEPT !.stack = Front(pr.stack), !.ret = r]
    BY <1>3 DEF Returned
  <2>2. /\ IsProc(new) /\ new.kind = "shell" /\ new.in = pr.in /\ new.out = pr.out
        /\ new.held = pr.held /\ new.stack = Front(pr.stack)
    BY <1>1, <2>1 DEF IsProc
  <2> HIDE DEF new
  <2>3. StackOK(new.stack) /\ Last(new.stack).at \in Calling
    BY <1>1, <1>3, <2>2, PopFrame
  <2>4. Piping(new) = 0 /\ Live(new) = {}
    BY <2>2, <2>3, TopFrame DEF Piping, Live, Calling
  <2>5. ProcOK(p, new)
    BY <1>2, <2>2, <2>3, <2>4 DEF ProcOK
  <2> QED
    BY <2>2, <2>4, <2>5 DEF new
<1>4. CASE ~(Len(pr.stack) > 1) /\ p # 1
  <2>1. new = Ended(Exited(r))
    BY <1>4 DEF Returned
  <2>2. IsProc(new) /\ new.kind = "zombie" /\ new.in = 0 /\ new.out = 0 /\ new.held = {}
    BY <2>1 DEF Ended, Free, IsProc
  <2> HIDE DEF new
  <2>3. Piping(new) = 0 /\ Live(new) = {}
    BY <2>2 DEF Piping, Live
  <2>4. ProcOK(p, new)
    BY <1>4, <2>2, <2>3 DEF ProcOK, EndsOK
  <2> QED
    BY <2>2, <2>3, <2>4 DEF new
<1>5. CASE ~(Len(pr.stack) > 1) /\ p = 1
  <2> DEFINE k == IF r = SHELL_EXIT THEN "left" ELSE "prompt"
  <2>1. new = [pr EXCEPT !.stack = <<>>, !.ret = r, !.kind = k]
    BY <1>5 DEF Returned
  <2>2. k \in {"left", "prompt"}
    OBVIOUS
  <2> HIDE DEF k
  <2>3. /\ IsProc(new) /\ new.kind = k /\ new.in = pr.in /\ new.out = pr.out
        /\ new.held = pr.held
    BY <1>1, <2>1 DEF IsProc
  <2> HIDE DEF new
  <2>4. Piping(new) = 0 /\ Live(new) = {}
    BY <2>2, <2>3 DEF Piping, Live
  <2>5. EndsOK(p, new.kind, new.in, new.out, new.held, 0)
    BY <1>2, <2>2, <2>3 DEF EndsOK
  <2>6. ProcOK(p, new)
    BY <1>5, <2>2, <2>3, <2>4, <2>5 DEF ProcOK
  <2> QED
    BY <2>2, <2>3, <2>4, <2>6 DEF new
<1> QED
  BY <1>3, <1>4, <1>5

-----------------------------------------------------------------------------
(* All processes.                                                          *)

Alive == {p \in Pids : proc[p].kind # "free"}
Kids == [p \in Pids |-> Live(proc[p])]

IInv ==
    /\ proc = [p \in Pids |-> proc[p]]
    /\ \A p \in Pids : ProcOK(p, proc[p])
    /\ Forest(Alive, Kids)

LEMMA KidsAlive ==
  ASSUME IInv, NEW p \in Pids
  PROVE  /\ Kids[p] = Live(proc[p])
         /\ \A q \in Live(proc[p]) : q \in Pids /\ q # 1 /\ proc[q].kind # "free"
<1>1. Kids[p] = Live(proc[p])
  BY DEF Kids
<1>2. Kids[p] \subseteq Alive \ {1}
  BY DEF IInv, Forest
<1> QED
  BY <1>1, <1>2 DEF Alive

\* A process changes, and those it waits for stay the same.
LEMMA QuietStep ==
  ASSUME IInv, NEW p \in Pids, NEW new, proc' = [proc EXCEPT ![p] = new],
         proc[p].kind # "free", ProcOK(p, new), new.kind # "free",
         Live(new) = Live(proc[p])
  PROVE  IInv'
<1>1. proc' = [q \in Pids |-> proc'[q]] /\ \A q \in Pids : ProcOK(q, proc[q])
  BY DEF IInv
<1>2. proc'[p] = new /\ \A q \in Pids : q # p => proc'[q] = proc[q]
  BY DEF IInv
<1>3. \A q \in Pids : ProcOK(q, proc'[q])
  BY <1>1, <1>2
<1>4. Alive' = Alive
  BY <1>2 DEF Alive
<1>5. Kids' = Kids
  BY <1>2 DEF Kids
<1>6. Forest(Alive', Kids')
  BY <1>4, <1>5 DEF IInv
<1> QED
  BY <1>1, <1>3, <1>6 DEF IInv

\* A process forks, and its frame g notes the child.
LEMMA ForkStep ==
  ASSUME IInv, NEW p \in Pids, proc[p].kind = "shell",
         NEW child, NEW parent, NEW g, Fork(p, child, parent),
         \A q \in Pids \ {1} : ProcOK(q, child), child.kind # "free", Live(child) = {},
         IsProc(parent), parent.kind = "shell",
         Front(parent.stack) = Front(proc[p].stack), Last(parent.stack) = g,
         IsFrame(g), IsSeq(g.kids), g.at \in {"fork2", "wait1", "wait2"},
         g.at # "wait1" => g.kids = <<>> /\ Live(proc[p]) = {},
         g.at = "wait1" => Len(g.kids) = 1 /\ Live(proc[p]) = {g.kids[1]},
         EndsOK(p, "shell", parent.in, parent.out, parent.held,
                IF g.at = "fork2" THEN g.pipe ELSE 0)
  PROVE  IInv'
<1> DEFINE free(q) == proc[q].kind = "free"
           q == CHOOSE r \in Pids : free(r)
           f == [g EXCEPT !.kids = Append(g.kids, q)]
           new == WithTop(parent, f)
<1>1. q \in Pids /\ proc[q].kind = "free"
  <2>1. \E r \in Pids : free(r)
    BY DEF Fork
  <2> HIDE DEF free
  <2>2. q \in Pids /\ free(q)
    BY <2>1, Zenon
  <2> QED
    BY <2>2 DEF free
<1>2. proc' = [proc EXCEPT ![q] = child, ![p] = new]
  BY DEF Fork
<1> HIDE DEF q
<1>3. q # p /\ q # 1 /\ q \notin Live(proc[p])
  <2>1. 1 \in Alive
    BY DEF IInv, Forest
  <2> QED
    BY <1>1, <2>1, KidsAlive DEF Alive
<1>4. f = [c |-> g.c, at |-> g.at, kids |-> Append(g.kids, q), pipe |-> g.pipe]
  BY DEF IsFrame
<1> HIDE DEF f
<1>5. IsFrame(f) /\ f.at = g.at /\ f.kids = Append(g.kids, q) /\ f.pipe = g.pipe
  BY <1>4 DEF IsFrame
<1>6. FrameOK(f) /\ LiveOf(f) = Live(proc[p]) \cup {q}
  <2>1. /\ IsSeq(f.kids) /\ Len(g.kids) \in Nat /\ Len(f.kids) = Len(g.kids) + 1
        /\ \A i \in 1 .. Len(g.kids) : f.kids[i] = g.kids[i]
        /\ f.kids[Len(g.kids) + 1] = q /\ Last(f.kids) = q
    BY <1>5, AppendSeq
  <2>2. CASE g.at # "wait1"
    <3>1. Len(g.kids) = 0 /\ Len(f.kids) = 1 /\ f.kids[1] = q
      BY <2>1, <2>2
    <3>2. FrameOK(f)
      BY <1>5, <2>1, <2>2, <3>1 DEF FrameOK, Calling
    <3>3. {f.kids[i] : i \in 1 .. Len(f.kids)} = {q}
      <4>1. \A i \in 1 .. Len(f.kids) : i = 1
        BY <3>1
      <4>2. 1 \in 1 .. Len(f.kids)
        BY <3>1
      <4> QED
        BY <3>1, <4>1, <4>2
    <3> QED
      BY <2>1, <2>2, <3>2, <3>3 DEF LiveOf
  <2>3. CASE g.at = "wait1"
    <3>1. Len(f.kids) = 2 /\ f.kids[1] = g.kids[1] /\ f.kids[2] = q
      BY <2>1, <2>3
    <3>2. f.kids[1] # f.kids[2]
      BY <1>3, <2>3, <3>1
    <3>3. FrameOK(f)
      BY <1>5, <2>1, <2>3, <3>1, <3>2 DEF FrameOK, Calling
    <3>4. {f.kids[i] : i \in 1 .. Len(f.kids)} = {f.kids[1], f.kids[2]}
      <4>1. \A i \in 1 .. Len(f.kids) : i = 1 \/ i = 2
        BY <3>1
      <4>2. 1 \in 1 .. Len(f.kids) /\ 2 \in 1 .. Len(f.kids)
        BY <3>1
      <4> QED
        BY <4>1, <4>2
    <3> QED
      BY <1>5, <2>3, <3>1, <3>3, <3>4 DEF LiveOf
  <2> QED
    BY <2>2, <2>3
<1>7. StackOK(proc[p].stack)
  BY DEF IInv, ProcOK
<1>8. new = [parent EXCEPT !.stack = Append(Front(proc[p].stack), f)]
  BY DEF WithTop
<1> HIDE DEF new
<1>9. /\ IsProc(new) /\ new.kind = "shell" /\ new.in = parent.in /\ new.out = parent.out
      /\ new.held = parent.held /\ new.stack = Append(Front(proc[p].stack), f)
  BY <1>8 DEF IsProc
<1>10. StackOK(new.stack) /\ Last(new.stack) = f
  BY <1>6, <1>7, <1>9, PutTop
<1>11. Piping(new) = (IF g.at = "fork2" THEN g.pipe ELSE 0) /\ Live(new) = LiveOf(f)
  BY <1>5, <1>9, <1>10 DEF Piping, Live
<1>12. ProcOK(p, new)
  BY <1>9, <1>10, <1>11 DEF ProcOK
<1>13. proc' = [r \in Pids |-> proc'[r]] /\ \A r \in Pids : ProcOK(r, proc[r])
  BY <1>2 DEF IInv
<1>14. /\ proc'[p] = new /\ proc'[q] = child
       /\ \A r \in Pids : r # p /\ r # q => proc'[r] = proc[r]
  BY <1>1, <1>2, <1>3 DEF IInv
<1>15. \A r \in Pids : ProcOK(r, proc'[r])
  BY <1>1, <1>3, <1>12, <1>13, <1>14
<1>16. Alive' = Alive \cup {q}
  BY <1>1, <1>9, <1>14 DEF Alive
<1>17. Kids' = [Kids EXCEPT ![p] = Kids[p] \cup {q}]
  <2>1. Live(proc[q]) = {}
    BY <1>1 DEF Live
  <2>2. \A r \in Pids : Live(proc'[r]) =
          IF r = p THEN Live(proc[p]) \cup {q} ELSE Live(proc[r])
    BY <1>6, <1>11, <1>14, <2>1
  <2> QED
    BY <2>2 DEF Kids
<1>18. Forest(Alive', Kids')
  <2>1. p \in Alive /\ q \in Pids \ Alive /\ Forest(Alive, Kids)
    BY <1>1 DEF Alive, IInv
  <2> QED
    BY <1>16, <1>17, <2>1, ForestFork
<1> QED
  BY <1>13, <1>15, <1>18 DEF IInv

\* A process has waited for a child.
LEMMA ReapStep ==
  ASSUME IInv, NEW p \in Pids, NEW q \in Live(proc[p]), proc[q].kind = "zombie",
         NEW new, Reap(p, q, new), ProcOK(p, new), new.kind # "free",
         Live(new) = Live(proc[p]) \ {q}
  PROVE  IInv'
<1>1. q \in Pids /\ q # 1
  BY KidsAlive
<1>2. proc[p].kind = "shell" /\ p # q
  BY DEF Live
<1>3. proc' = [proc EXCEPT ![q] = Free, ![p] = new]
  BY DEF Reap
<1>4. ProcOK(q, Free) /\ Free.kind = "free" /\ Live(Free) = {}
  <2>1. IsProc(Free) /\ Free.kind = "free" /\ Free.in = 0 /\ Free.out = 0 /\ Free.held = {}
    BY DEF Free, IsProc
  <2>2. Piping(Free) = 0 /\ Live(Free) = {}
    BY <2>1 DEF Piping, Live
  <2> QED
    BY <1>1, <2>1, <2>2 DEF ProcOK, EndsOK
<1>5. proc' = [r \in Pids |-> proc'[r]] /\ \A r \in Pids : ProcOK(r, proc[r])
  BY <1>3 DEF IInv
<1>6. /\ proc'[p] = new /\ proc'[q] = Free
      /\ \A r \in Pids : r # p /\ r # q => proc'[r] = proc[r]
  BY <1>1, <1>2, <1>3 DEF IInv
<1>7. \A r \in Pids : ProcOK(r, proc'[r])
  BY <1>4, <1>5, <1>6
<1>8. Alive' = Alive \ {q}
  BY <1>2, <1>4, <1>6 DEF Alive
<1>9. Live(proc[q]) = {}
  BY DEF Live
<1>10. Kids' = [Kids EXCEPT ![p] = Kids[p] \ {q}]
  <2>1. \A r \in Pids : Live(proc'[r]) =
          IF r = p THEN Live(proc[p]) \ {q} ELSE Live(proc[r])
    BY <1>4, <1>6, <1>9
  <2> QED
    BY <2>1 DEF Kids
<1>11. Forest(Alive', Kids')
  <2>1. q \in Kids[p] /\ Kids[q] = {} /\ Forest(Alive, Kids)
    BY <1>1, <1>9 DEF Kids, IInv
  <2> QED
    BY <1>8, <1>10, <2>1, ForestReap
<1> QED
  BY <1>5, <1>7, <1>11 DEF IInv

-----------------------------------------------------------------------------
(* The actions.                                                            *)

\* At a place of parse_command.
LEMMA AtPlace ==
  ASSUME IInv, NEW p \in Pids, NEW place, At(p, place)
  PROVE  /\ ProcOK(p, proc[p]) /\ IsProc(proc[p]) /\ proc[p].kind = "shell"
         /\ StackOK(proc[p].stack) /\ Top(p) = Last(proc[p].stack)
         /\ FrameOK(Top(p)) /\ IsFrame(Top(p)) /\ Top(p).at = place
         /\ EndsOK(p, "shell", proc[p].in, proc[p].out, proc[p].held,
                   IF place = "fork2" THEN Top(p).pipe ELSE 0)
<1>1. ProcOK(p, proc[p]) /\ proc[p].kind = "shell" /\ Top(p) = Last(proc[p].stack)
      /\ Top(p).at = place
  BY DEF IInv, At, Top
<1>2. StackOK(proc[p].stack) /\ IsProc(proc[p])
  BY <1>1 DEF ProcOK
<1>3. FrameOK(Top(p)) /\ IsFrame(Top(p))
  BY <1>1, <1>2, TopFrame DEF FrameOK
<1>4. Piping(proc[p]) = IF place = "fork2" THEN Top(p).pipe ELSE 0
  BY <1>1 DEF Piping
<1> QED
  BY <1>1, <1>2, <1>3, <1>4 DEF ProcOK

LEMMA TypeStep ==
  ASSUME IInv, NumbersAssumption, NEW c, Type(c)
  PROVE  IInv'
<1> DEFINE pr == proc[1]
           new == [pr EXCEPT !.kind = "shell", !.stack = <<Frame(c)>>, !.ret = 0]
<1>1. 1 \in Pids /\ ProcOK(1, pr) /\ pr.kind = "prompt"
  BY DEF NumbersAssumption, IInv, Type
<1>2. proc' = [proc EXCEPT ![1] = new]
  BY <1>1 DEF Type, IInv
<1>3. /\ IsProc(new) /\ new.kind = "shell" /\ new.stack = <<Frame(c)>>
      /\ new.in = pr.in /\ new.out = pr.out /\ new.held = pr.held
  <2>1. IsProc(pr)
    BY <1>1 DEF ProcOK
  <2>2. new = WithRun(pr, "shell", <<Frame(c)>>, 0)
    BY DEF WithRun
  <2> HIDE DEF pr, new
  <2> QED
    BY <2>1, <2>2, RunFields
<1> HIDE DEF new
<1>4. StackOK(new.stack) /\ Last(new.stack) = Frame(c)
  BY <1>3, NewFrame
<1>5. Piping(new) = 0 /\ Live(new) = {} /\ Piping(pr) = 0 /\ Live(pr) = {}
  BY <1>1, <1>3, <1>4, NewFrame DEF Piping, Live
<1>6. EndsOK(1, new.kind, new.in, new.out, new.held, 0)
  BY <1>1, <1>3, <1>5 DEF ProcOK, EndsOK
<1>7. ProcOK(1, new)
  BY <1>3, <1>4, <1>5, <1>6 DEF ProcOK
<1> QED
  BY <1>1, <1>2, <1>3, <1>5, <1>7, QuietStep

\* A process that is at no fork and waits for nobody returns.
LEMMA ReturnStep ==
  ASSUME IInv, NEW p \in Pids, NEW place \in {"start", "second", "last"}, At(p, place),
         NEW pr, ProcOK(p, pr), pr.kind = "shell", pr.stack = proc[p].stack,
         NEW r, proc' = [proc EXCEPT ![p] = Returned(p, pr, r)]
  PROVE  IInv'
<1>1. /\ proc[p].kind = "shell" /\ StackOK(proc[p].stack)
      /\ Last(proc[p].stack).at = place
  BY AtPlace
<1>2. Live(proc[p]) = {}
  BY <1>1, TopFrame DEF Live, Calling
<1>3. Last(pr.stack).at # "fork2"
  BY <1>1
<1> DEFINE new == Returned(p, pr, r)
<1>4. ProcOK(p, new) /\ new.kind # "free" /\ Live(new) = {}
  BY <1>3, ReturnedOK
<1>5. proc' = [proc EXCEPT ![p] = new]
  OBVIOUS
<1> HIDE DEF new
<1> QED
  BY <1>1, <1>2, <1>4, <1>5, QuietStep

LEMMA BuiltinStep ==
  ASSUME IInv, NEW p \in Pids, Builtin(p)
  PROVE  IInv'
<1> DEFINE c == Top(p).c
           pr == proc[p]
<1>1. At(p, "start") /\ ProcOK(p, pr) /\ IsProc(pr) /\ pr.kind = "shell"
  BY AtPlace DEF Builtin
<1>2. ASSUME NEW e PROVE ProcOK(p, [pr EXCEPT !.env = e]) /\ [pr EXCEPT !.env = e].kind = "shell"
                         /\ [pr EXCEPT !.env = e].stack = proc[p].stack
  <2> DEFINE new == [pr EXCEPT !.env = e]
  <2>1. /\ IsProc(new) /\ new.kind = pr.kind /\ new.stack = pr.stack
        /\ new.in = pr.in /\ new.out = pr.out /\ new.held = pr.held
    BY <1>1 DEF IsProc
  <2> HIDE DEF new
  <2>2. ProcOK(p, new)
    BY <1>1, <2>1, SameProc
  <2> QED
    BY <1>1, <2>1, <2>2 DEF new
<1>3. \E r, e : \/ proc' = [proc EXCEPT ![p] = Returned(p, pr, r)]
                \/ proc' = [proc EXCEPT ![p] = Returned(p, [pr EXCEPT !.env = e], r)]
  BY DEF Builtin
<1>4. PICK r, e : \/ proc' = [proc EXCEPT ![p] = Returned(p, pr, r)]
                  \/ proc' = [proc EXCEPT ![p] = Returned(p, [pr EXCEPT !.env = e], r)]
  BY <1>3
<1>5. CASE proc' = [proc EXCEPT ![p] = Returned(p, pr, r)]
  BY <1>1, <1>5, ReturnStep
<1>6. CASE proc' = [proc EXCEPT ![p] = Returned(p, [pr EXCEPT !.env = e], r)]
  BY <1>1, <1>2, <1>6, ReturnStep
<1> QED
  BY <1>4, <1>5, <1>6

LEMMA CallStep ==
  ASSUME IInv, NEW p \in Pids, NEW at \in {"start", "second"}, At(p, at),
         NEW place \in Calling, NEW c, proc' = [proc EXCEPT ![p] = Call(proc[p], place, c)]
  PROVE  IInv'
<1>1. ProcOK(p, proc[p]) /\ proc[p].kind = "shell" /\ Last(proc[p].stack).at = at
  BY AtPlace
<1> DEFINE new == Call(proc[p], place, c)
<1>2. ProcOK(p, new) /\ new.kind = "shell" /\ Live(new) = {} /\ Live(proc[p]) = {}
  BY <1>1, CallOK
<1>3. proc' = [proc EXCEPT ![p] = new]
  OBVIOUS
<1> HIDE DEF new
<1> QED
  BY <1>1, <1>2, <1>3, QuietStep

LEMMA FirstStep ==
  ASSUME IInv, NEW p \in Pids, First(p)
  PROVE  IInv'
<1>1. At(p, "start") /\ proc' = [proc EXCEPT ![p] = Call(proc[p], "second", Top(p).c.cmd1)]
  BY DEF First
<1>2. "second" \in Calling
  BY DEF Calling
<1> QED
  BY <1>1, <1>2, CallStep

LEMMA SecondStep ==
  ASSUME IInv, NEW p \in Pids, Second(p)
  PROVE  IInv'
<1>1. At(p, "second") /\ ProcOK(p, proc[p]) /\ proc[p].kind = "shell"
  BY AtPlace DEF Second
<1>2. CASE GoesOn(Top(p).c.op, proc[p].ret)
  <2>1. proc' = [proc EXCEPT ![p] = Call(proc[p], "last", Top(p).c.cmd2)]
    BY <1>2 DEF Second
  <2>2. "last" \in Calling
    BY DEF Calling
  <2> QED
    BY <1>1, <2>1, <2>2, CallStep
<1>3. CASE ~GoesOn(Top(p).c.op, proc[p].ret)
  <2>1. proc' = [proc EXCEPT ![p] = Returned(p, proc[p], proc[p].ret)]
    BY <1>3 DEF Second
  <2> QED
    BY <1>1, <2>1, ReturnStep
<1> QED
  BY <1>2, <1>3

LEMMA ThirdStep ==
  ASSUME IInv, NEW p \in Pids, Third(p)
  PROVE  IInv'
<1>1. At(p, "last") /\ ProcOK(p, proc[p]) /\ proc[p].kind = "shell"
  BY AtPlace DEF Third
<1>2. proc' = [proc EXCEPT ![p] = Returned(p, proc[p], proc[p].ret)]
  BY DEF Third
<1> QED
  BY <1>1, <1>2, ReturnStep

\* The frame of a process that forks.
LEMMA ParentTop ==
  ASSUME NEW pr, IsProc(pr), StackOK(pr.stack), NEW g, NEW h,
         NEW parent, parent = WithHeld(WithTop(pr, g), h)
  PROVE  /\ IsProc(parent) /\ parent.kind = pr.kind
         /\ parent.in = pr.in /\ parent.out = pr.out /\ parent.held = h
         /\ Front(parent.stack) = Front(pr.stack) /\ Last(parent.stack) = g
         /\ parent.ret = pr.ret /\ parent.env = pr.env
<1> DEFINE s == Append(Front(pr.stack), g)
<1>1. Front(s) = Front(pr.stack) /\ Last(s) = g
  <2>1. IsSeq(Front(pr.stack))
    BY TopFrame, FrontSeq
  <2> QED
    BY <2>1, AppendSeq
<1>2. parent = [[pr EXCEPT !.stack = s] EXCEPT !.held = h]
  BY DEF WithTop, WithHeld
<1> HIDE DEF s
<1>3. /\ IsProc(parent) /\ parent.kind = pr.kind /\ parent.in = pr.in
      /\ parent.out = pr.out /\ parent.held = h /\ parent.stack = s
      /\ parent.ret = pr.ret /\ parent.env = pr.env
  BY <1>2 DEF IsProc
<1> QED
  BY <1>1, <1>3

\* What exec forks.
LEMMA ExecForks ==
  ASSUME IInv, NEW p \in Pids, Exec(p)
  PROVE  \E child, g :
           /\ IsProc(child) /\ child.kind = "prog" /\ child.ret = Top(p).c.status
           /\ child.in \in {0, proc[p].in} /\ child.out \in {0, proc[p].out}
           /\ child.held = proc[p].held
           /\ IsFrame(g) /\ g.at = "wait2" /\ g.c = Top(p).c /\ g.kids = <<>> /\ IsSeq(g.kids)
           /\ Live(proc[p]) = {}
           /\ Fork(p, child, WithHeld(WithTop(proc[p], g), proc[p].held))
<1> DEFINE pr == proc[p]
           c == Top(p).c
           x == IF c.in THEN 0 ELSE pr.in
           y == IF c.out THEN 0 ELSE pr.out
           child == [pr EXCEPT !.kind = "prog", !.ret = c.status,
                               !.reads = c.reads, !.writes = c.writes,
                               !.in = x, !.out = y]
           g == [Last(pr.stack) EXCEPT !.at = "wait2"]
           parent == Moved(pr, "wait2")
<1>1. /\ ProcOK(p, pr) /\ IsProc(pr) /\ pr.kind = "shell" /\ StackOK(pr.stack)
      /\ FrameOK(Last(pr.stack)) /\ Last(pr.stack).at = "start" /\ Top(p) = Last(pr.stack)
  BY AtPlace DEF Exec
<1>2. Fork(p, child, parent)
  BY DEF Exec
<1>3. /\ IsProc(child) /\ child.kind = "prog" /\ child.in = x /\ child.out = y
      /\ child.held = pr.held /\ child.ret = c.status
  <2>1. child = WithExec(pr, "prog", c.status, c.reads, c.writes, x, y)
    BY DEF WithExec
  <2> HIDE DEF pr, c, x, y, child
  <2> QED
    BY <1>1, <2>1, ExecFields
<1>4. /\ IsFrame(g) /\ g.at = "wait2" /\ g.c = c /\ g.kids = <<>> /\ IsSeq(g.kids)
      /\ Live(pr) = {}
  <2>1. /\ IsFrame(Last(pr.stack)) /\ Last(pr.stack).kids = <<>>
        /\ IsSeq(Last(pr.stack).kids)
    BY <1>1 DEF FrameOK
  <2>2. Live(pr) = {}
    BY <1>1, TopFrame DEF Live
  <2>3. Last(pr.stack).c = c
    BY <1>1
  <2> HIDE DEF pr, c
  <2>4. IsFrame(g) /\ g.at = "wait2" /\ g.kids = Last(pr.stack).kids /\ g.c = Last(pr.stack).c
    BY <2>1 DEF IsFrame
  <2> QED
    BY <2>1, <2>2, <2>3, <2>4
<1>5. parent = WithHeld(WithTop(pr, g), pr.held)
  <2>1. parent = [pr EXCEPT !.stack = Append(Front(pr.stack), g)]
    BY DEF Moved, WithTop
  <2>2. WithTop(pr, g) = [pr EXCEPT !.stack = Append(Front(pr.stack), g)]
    BY DEF WithTop
  <2> HIDE DEF pr, g, parent
  <2> QED
    BY <1>1, <2>1, <2>2 DEF IsProc, WithHeld
<1>6. x \in {0, pr.in} /\ y \in {0, pr.out}
  OBVIOUS
<1> HIDE DEF child, g, parent, x, y
<1> QED
  BY <1>2, <1>3, <1>4, <1>5, <1>6

LEMMA ExecStep ==
  ASSUME IInv, NEW p \in Pids, Exec(p)
  PROVE  IInv'
<1> DEFINE pr == proc[p]
<1>1. /\ ProcOK(p, pr) /\ IsProc(pr) /\ pr.kind = "shell" /\ StackOK(pr.stack)
      /\ EndsOK(p, "shell", pr.in, pr.out, pr.held, 0)
  BY AtPlace DEF Exec
<1>2. PICK child, g :
           /\ IsProc(child) /\ child.kind = "prog"
           /\ child.in \in {0, pr.in} /\ child.out \in {0, pr.out} /\ child.held = pr.held
           /\ IsFrame(g) /\ g.at = "wait2" /\ g.kids = <<>> /\ IsSeq(g.kids)
           /\ Live(pr) = {}
           /\ Fork(p, child, WithHeld(WithTop(pr, g), pr.held))
  BY ExecForks
<1>3. \A q \in Pids \ {1} : ProcOK(q, child)
  <2>1. Piping(child) = 0
    BY <1>2 DEF Piping
  <2>2. ASSUME NEW q \in Pids \ {1} PROVE EndsOK(q, "prog", child.in, child.out, child.held, 0)
    BY <1>1, <1>2 DEF EndsOK
  <2> QED
    BY <1>2, <2>1, <2>2 DEF ProcOK
<1>4. Live(child) = {}
  BY <1>2 DEF Live
<1>5. PICK parent : parent = WithHeld(WithTop(pr, g), pr.held)
  OBVIOUS
<1>6. /\ IsProc(parent) /\ parent.kind = "shell"
      /\ parent.in = pr.in /\ parent.out = pr.out /\ parent.held = pr.held
      /\ Front(parent.stack) = Front(pr.stack) /\ Last(parent.stack) = g
  <2> HIDE DEF pr
  <2> QED
    BY <1>1, <1>5, ParentTop
<1>7. Fork(p, child, parent)
  BY <1>2, <1>5
<1> QED
  BY <1>1, <1>2, <1>3, <1>4, <1>6, <1>7, ForkStep

\* A child that is to run c, with ends of its own.
LEMMA ChildOK ==
  ASSUME IInv, NEW p \in Pids, proc[p].kind = "shell", NEW c, NEW in, NEW out, NEW held,
         out # 0 => <<out, "r">> \in held,
         NEW child, child = WithEnds(Child(p, c), in, out, held)
  PROVE  /\ \A q \in Pids \ {1} : ProcOK(q, child)
         /\ child.kind = "shell" /\ Live(child) = {}
         /\ child.stack = <<Frame(c)>> /\ child.env = proc[p].env
<1> DEFINE pr == proc[p]
           s == <<Frame(c)>>
<1>1. IsProc(pr)
  BY DEF IInv, ProcOK
<1>2. child = [[pr EXCEPT !.stack = s] EXCEPT !.in = in, !.out = out, !.held = held]
  BY DEF Child, WithEnds
<1>3. StackOK(s) /\ Last(s) = Frame(c)
  BY NewFrame
<1>4. /\ IsProc(child) /\ child.kind = pr.kind /\ child.stack = s
      /\ child.in = in /\ child.out = out /\ child.held = held
      /\ child.env = pr.env
  <2> HIDE DEF pr, s
  <2> QED
    BY <1>1, <1>2 DEF IsProc
<1>5. child.kind = "shell"
  BY <1>4
<1>6. Piping(child) = 0 /\ Live(child) = {}
  BY <1>3, <1>4, <1>5, NewFrame DEF Piping, Live
<1>7. ASSUME NEW q \in Pids \ {1} PROVE ProcOK(q, child)
  <2>1. EndsOK(q, "shell", in, out, held, 0)
    BY DEF EndsOK
  <2> QED
    BY <1>3, <1>4, <1>5, <1>6, <2>1 DEF ProcOK
<1> QED
  BY <1>4, <1>5, <1>6, <1>7

AtFork2(f, x) == [f EXCEPT !.at = "fork2", !.pipe = x]

LEMMA Fork2Frame ==
  ASSUME NEW f, IsFrame(f), NEW x, NEW g, g = AtFork2(f, x)
  PROVE  IsFrame(g) /\ g.c = f.c /\ g.at = "fork2" /\ g.kids = f.kids /\ g.pipe = x
<1>1. g = [c |-> f.c, at |-> "fork2", kids |-> f.kids, pipe |-> x]
  BY DEF AtFork2, IsFrame
<1> QED
  BY <1>1 DEF IsFrame

\* What the two forks of run_in_parallel and run_on_pipe fork.
LEMMA Fork1Forks ==
  ASSUME IInv, NumbersAssumption, NEW p \in Pids, Fork1(p)
  PROVE  \E g, h, in, out, held :
           /\ IsFrame(g) /\ g.at = "fork2" /\ g.c = Top(p).c /\ g.kids = <<>> /\ IsSeq(g.kids)
           /\ Live(proc[p]) = {}
           /\ EndsOK(p, "shell", proc[p].in, proc[p].out, h, g.pipe)
           /\ out # 0 => <<out, "r">> \in held
           /\ Fork(p, WithEnds(Child(p, Top(p).c.cmd1), in, out, held),
                      WithHeld(WithTop(proc[p], g), h))
<1> DEFINE pr == proc[p]
           c == Top(p).c
           x == IF c.op = "par" THEN 0 ELSE CHOOSE y \in Pipes : Unused(y)
           g == [Top(p) EXCEPT !.at = "fork2", !.pipe = x]
<1>1. /\ ProcOK(p, pr) /\ IsProc(pr) /\ pr.kind = "shell" /\ StackOK(pr.stack)
      /\ FrameOK(Top(p)) /\ Top(p).at = "start" /\ Top(p) = Last(pr.stack)
      /\ EndsOK(p, "shell", pr.in, pr.out, pr.held, 0)
  <2>1. At(p, "start") /\ ("start" = "fork2" <=> FALSE)
    BY DEF Fork1
  <2> QED
    BY <2>1, AtPlace
<1>2. x # 0 => x \in Pipes /\ Unused(x)
  <2>1. c.op = "pipe" => \E y \in Pipes : Unused(y)
    BY DEF Fork1
  <2>2. c.op = "par" \/ c.op = "pipe"
    BY DEF Fork1
  <2>3. (\E y \in Pipes : Unused(y)) =>
          (CHOOSE y \in Pipes : Unused(y)) \in Pipes
          /\ Unused(CHOOSE y \in Pipes : Unused(y))
    BY Zenon
  <2> QED
    BY <2>1, <2>2, <2>3
<1>3. IF x = 0 THEN Fork(p, Child(p, c.cmd1), WithTop(pr, g))
      ELSE Fork(p, [Child(p, c.cmd1) EXCEPT !.out = x, !.held = @ \cup {<<x, "r">>}],
                   [WithTop(pr, g) EXCEPT !.held = @ \cup {<<x, "r">>, <<x, "w">>}])
  BY DEF Fork1
<1> HIDE DEF x
<1>4. /\ IsFrame(g) /\ g.at = "fork2" /\ g.kids = <<>> /\ IsSeq(g.kids) /\ g.pipe = x
      /\ Live(pr) = {} /\ g.c = c
  <2>1. IsFrame(Top(p)) /\ Top(p).kids = <<>> /\ IsSeq(Top(p).kids)
    BY <1>1 DEF FrameOK
  <2>2. Live(pr) = {}
    BY <1>1, TopFrame DEF Live
  <2>3. g = AtFork2(Top(p), x)
    BY DEF AtFork2
  <2> HIDE DEF g, x
  <2>4. IsFrame(g) /\ g.c = c /\ g.at = "fork2" /\ g.kids = Top(p).kids /\ g.pipe = x
    BY <2>1, <2>3, Fork2Frame
  <2> QED
    BY <2>1, <2>2, <2>4
<1> HIDE DEF g
<1>5. PICK d : d = c.cmd1
  OBVIOUS
<1>6. \E h, in, out, held :
        /\ EndsOK(p, "shell", pr.in, pr.out, h, x)
        /\ out # 0 => <<out, "r">> \in held
        /\ Fork(p, WithEnds(Child(p, d), in, out, held), WithHeld(WithTop(pr, g), h))
  <2>1. /\ Child(p, d).in = pr.in /\ Child(p, d).out = pr.out
        /\ Child(p, d).held = pr.held /\ IsProc(Child(p, d))
    BY <1>1 DEF Child, IsProc
  <2>2. WithTop(pr, g).held = pr.held /\ IsProc(WithTop(pr, g))
    BY <1>1 DEF WithTop, IsProc
  <2>3. CASE x = 0
    <3>1. Child(p, d) = WithEnds(Child(p, d), pr.in, pr.out, pr.held)
      BY <2>1 DEF IsProc, WithEnds
    <3>2. WithTop(pr, g) = WithHeld(WithTop(pr, g), pr.held)
      BY <2>2 DEF IsProc, WithHeld
    <3>3. pr.out # 0 => <<pr.out, "r">> \in pr.held
      BY <1>1 DEF EndsOK
    <3>4. Fork(p, WithEnds(Child(p, d), pr.in, pr.out, pr.held),
                  WithHeld(WithTop(pr, g), pr.held))
      BY <1>3, <1>5, <2>3, <3>1, <3>2
    <3> QED
      BY <1>1, <2>3, <3>3, <3>4
  <2>4. CASE x # 0
    <3> DEFINE h == pr.held \cup Both(x)
               held == pr.held \cup {<<x, "r">>}
    <3>1. [Child(p, d) EXCEPT !.out = x, !.held = @ \cup {<<x, "r">>}]
            = WithEnds(Child(p, d), pr.in, x, held)
      BY <2>1 DEF IsProc, WithEnds
    <3>2. [WithTop(pr, g) EXCEPT !.held = @ \cup {<<x, "r">>, <<x, "w">>}]
            = WithHeld(WithTop(pr, g), h)
      BY <2>2 DEF Both, WithHeld
    <3>3. pr.out # x
      BY <1>2, <2>4 DEF Unused, Open, Holds
    <3>4. EndsOK(p, "shell", pr.in, pr.out, h, x)
      BY <1>1, <2>4, <3>3 DEF EndsOK, Both
    <3>5. <<x, "r">> \in held
      OBVIOUS
    <3>6. Fork(p, WithEnds(Child(p, d), pr.in, x, held),
                  WithHeld(WithTop(pr, g), h))
      BY <1>3, <1>5, <2>4, <3>1, <3>2
    <3> HIDE DEF h, held
    <3> QED
      BY <3>4, <3>5, <3>6
  <2> QED
    BY <2>3, <2>4
<1> QED
  BY <1>4, <1>5, <1>6

LEMMA Fork1Step ==
  ASSUME IInv, NumbersAssumption, NEW p \in Pids, Fork1(p)
  PROVE  IInv'
<1> DEFINE pr == proc[p]
<1>1. ProcOK(p, pr) /\ IsProc(pr) /\ pr.kind = "shell" /\ StackOK(pr.stack)
  BY AtPlace DEF Fork1
<1>2. PICK g, h, in, out, held :
           /\ IsFrame(g) /\ g.at = "fork2" /\ g.kids = <<>> /\ IsSeq(g.kids)
           /\ Live(pr) = {}
           /\ EndsOK(p, "shell", pr.in, pr.out, h, g.pipe)
           /\ out # 0 => <<out, "r">> \in held
           /\ Fork(p, WithEnds(Child(p, Top(p).c.cmd1), in, out, held),
                      WithHeld(WithTop(pr, g), h))
  BY Fork1Forks
<1>3. PICK child : child = WithEnds(Child(p, Top(p).c.cmd1), in, out, held)
  OBVIOUS
<1>4. PICK parent : parent = WithHeld(WithTop(pr, g), h)
  OBVIOUS
<1>5. /\ \A q \in Pids \ {1} : ProcOK(q, child)
      /\ child.kind # "free" /\ Live(child) = {}
  BY <1>1, <1>2, <1>3, ChildOK
<1>6. /\ IsProc(parent) /\ parent.kind = "shell"
      /\ parent.in = pr.in /\ parent.out = pr.out /\ parent.held = h
      /\ Front(parent.stack) = Front(pr.stack) /\ Last(parent.stack) = g
  <2> HIDE DEF pr
  <2> QED
    BY <1>1, <1>4, ParentTop
<1>7. Fork(p, child, parent)
  BY <1>2, <1>3, <1>4
<1> QED
  BY <1>1, <1>2, <1>5, <1>6, <1>7, ForkStep

LEMMA Fork2Forks ==
  ASSUME IInv, NEW p \in Pids, Fork2(p)
  PROVE  \E g, h, in, out, held :
           /\ IsFrame(g) /\ g.at = "wait1" /\ g.c = Top(p).c /\ IsSeq(g.kids)
           /\ Len(g.kids) = 1 /\ Live(proc[p]) = {g.kids[1]}
           /\ EndsOK(p, "shell", proc[p].in, proc[p].out, h, 0)
           /\ out # 0 => <<out, "r">> \in held
           /\ Fork(p, WithEnds(Child(p, Top(p).c.cmd2), in, out, held),
                      WithHeld(WithTop(proc[p], g), h))
<1> DEFINE pr == proc[p]
           x == Top(p).pipe
           g == [Top(p) EXCEPT !.at = "wait1"]
<1>1. /\ ProcOK(p, pr) /\ IsProc(pr) /\ pr.kind = "shell" /\ StackOK(pr.stack)
      /\ FrameOK(Top(p)) /\ Top(p).at = "fork2" /\ Top(p) = Last(pr.stack)
      /\ EndsOK(p, "shell", pr.in, pr.out, pr.held, x)
  BY AtPlace DEF Fork2
<1>2. Moved(pr, "wait1") = WithTop(pr, g)
  BY <1>1 DEF Moved
<1>3. /\ IsFrame(g) /\ g.at = "wait1" /\ IsSeq(g.kids) /\ Len(g.kids) = 1
      /\ Live(pr) = {g.kids[1]} /\ g.c = Top(p).c
  <2>1. IsFrame(Top(p)) /\ IsSeq(Top(p).kids) /\ Len(Top(p).kids) = 1
    BY <1>1 DEF FrameOK
  <2>2. IsFrame(g) /\ g.at = "wait1" /\ g.kids = Top(p).kids /\ g.c = Top(p).c
    BY <2>1 DEF IsFrame
  <2>3. Live(pr) = {Top(p).kids[1]}
    <3>1. \A i \in 1 .. Len(Top(p).kids) : i = 1
      BY <2>1
    <3>2. 1 \in 1 .. Len(Top(p).kids)
      BY <2>1
    <3>3. LiveOf(Top(p)) = {Top(p).kids[1]}
      BY <1>1, <3>1, <3>2 DEF LiveOf
    <3> QED
      BY <1>1, <3>3 DEF Live
  <2> QED
    BY <2>1, <2>2, <2>3
<1>4. PICK d : d = Top(p).c.cmd2
  OBVIOUS
<1>5. IF x = 0 THEN Fork(p, Child(p, d), WithTop(pr, g))
      ELSE Fork(p, [Child(p, d) EXCEPT !.in = x,
                                       !.held = (pr.held \ Closed(x)) \ {<<x, "r">>}],
                   [WithTop(pr, g) EXCEPT !.held = (pr.held \ Closed(x)) \ Rest(x)])
  BY <1>2, <1>4 DEF Fork2
<1> HIDE DEF g, x
<1>6. \E h, in, out, held :
        /\ EndsOK(p, "shell", pr.in, pr.out, h, 0)
        /\ out # 0 => <<out, "r">> \in held
        /\ Fork(p, WithEnds(Child(p, d), in, out, held), WithHeld(WithTop(pr, g), h))
  <2>1. /\ Child(p, d).in = pr.in /\ Child(p, d).out = pr.out
        /\ Child(p, d).held = pr.held /\ IsProc(Child(p, d))
    BY <1>1 DEF Child, IsProc
  <2>2. WithTop(pr, g).held = pr.held /\ IsProc(WithTop(pr, g))
    BY <1>1 DEF WithTop, IsProc
  <2>3. CASE x = 0
    <3>1. Child(p, d) = WithEnds(Child(p, d), pr.in, pr.out, pr.held)
      BY <2>1 DEF IsProc, WithEnds
    <3>2. WithTop(pr, g) = WithHeld(WithTop(pr, g), pr.held)
      BY <2>2 DEF IsProc, WithHeld
    <3>3. pr.out # 0 => <<pr.out, "r">> \in pr.held
      BY <1>1 DEF EndsOK
    <3>4. Fork(p, WithEnds(Child(p, d), pr.in, pr.out, pr.held),
                  WithHeld(WithTop(pr, g), pr.held))
      BY <1>5, <2>3, <3>1, <3>2
    <3> QED
      BY <1>1, <2>3, <3>3, <3>4
  <2>4. CASE x # 0
    <3> DEFINE h == (pr.held \ Closed(x)) \ Rest(x)
               held == (pr.held \ Closed(x)) \ {<<x, "r">>}
    <3>1. [Child(p, d) EXCEPT !.in = x, !.held = held]
            = WithEnds(Child(p, d), x, pr.out, held)
      <4> HIDE DEF held
      <4> QED
        BY <2>1 DEF IsProc, WithEnds
    <3>2. EndsOK(p, "shell", pr.in, pr.out, h, 0)
      BY <1>1, <2>4 DEF EndsOK, Both, Closed, Rest
    <3>3. pr.out # 0 => <<pr.out, "r">> \in held
      BY <1>1, <2>4 DEF EndsOK, Closed
    <3>4. Fork(p, WithEnds(Child(p, d), x, pr.out, held),
                  WithHeld(WithTop(pr, g), h))
      BY <1>5, <2>4, <3>1 DEF WithHeld
    <3> HIDE DEF h, held
    <3> QED
      BY <3>2, <3>3, <3>4
  <2> QED
    BY <2>3, <2>4
<1> QED
  BY <1>3, <1>4, <1>6

LEMMA Fork2Step ==
  ASSUME IInv, NEW p \in Pids, Fork2(p)
  PROVE  IInv'
<1> DEFINE pr == proc[p]
<1>1. ProcOK(p, pr) /\ IsProc(pr) /\ pr.kind = "shell" /\ StackOK(pr.stack)
  BY AtPlace DEF Fork2
<1>2. PICK g, h, in, out, held :
           /\ IsFrame(g) /\ g.at = "wait1" /\ IsSeq(g.kids)
           /\ Len(g.kids) = 1 /\ Live(pr) = {g.kids[1]}
           /\ EndsOK(p, "shell", pr.in, pr.out, h, 0)
           /\ out # 0 => <<out, "r">> \in held
           /\ Fork(p, WithEnds(Child(p, Top(p).c.cmd2), in, out, held),
                      WithHeld(WithTop(pr, g), h))
  BY Fork2Forks
<1>3. PICK child : child = WithEnds(Child(p, Top(p).c.cmd2), in, out, held)
  OBVIOUS
<1>4. PICK parent : parent = WithHeld(WithTop(pr, g), h)
  OBVIOUS
<1>5. /\ \A q \in Pids \ {1} : ProcOK(q, child)
      /\ child.kind # "free" /\ Live(child) = {}
  BY <1>1, <1>2, <1>3, ChildOK
<1>6. /\ IsProc(parent) /\ parent.kind = "shell"
      /\ parent.in = pr.in /\ parent.out = pr.out /\ parent.held = h
      /\ Front(parent.stack) = Front(pr.stack) /\ Last(parent.stack) = g
  <2> HIDE DEF pr
  <2> QED
    BY <1>1, <1>4, ParentTop
<1>7. Fork(p, child, parent)
  BY <1>2, <1>3, <1>4
<1> QED
  BY <1>1, <1>2, <1>5, <1>6, <1>7, ForkStep

LEMMA Wait1Step ==
  ASSUME IInv, NEW p \in Pids, Wait1(p)
  PROVE  IInv'
<1> DEFINE pr == proc[p]
           top == Top(p)
           q == Head(top.kids)
           g == [top EXCEPT !.at = "wait2"]
           new == Moved(pr, "wait2")
<1>1. /\ ProcOK(p, pr) /\ IsProc(pr) /\ pr.kind = "shell" /\ StackOK(pr.stack)
      /\ FrameOK(top) /\ top.at = "wait1" /\ top = Last(pr.stack)
      /\ EndsOK(p, "shell", pr.in, pr.out, pr.held, 0)
  BY AtPlace DEF Wait1
<1>2. proc[q].kind = "zombie" /\ Reap(p, q, new)
  BY DEF Wait1
<1>3. new = WithTop(pr, g)
  BY <1>1 DEF Moved
<1>4. IsFrame(top) /\ IsSeq(top.kids) /\ Len(top.kids) = 2 /\ top.kids[1] # top.kids[2]
  BY <1>1 DEF FrameOK
<1>5. q = top.kids[1] /\ Last(top.kids) = top.kids[2]
  <2>1. PICK S : top.kids \in Seq(S)
    BY <1>4 DEF IsSeq
  <2>2. top.kids # <<>>
    BY <1>4
  <2> HIDE DEF top
  <2>3. Head(top.kids) = top.kids[1]
    BY <2>1, <2>2
  <2> QED
    BY <1>4, <2>3 DEF Last
<1> HIDE DEF q, top
<1>6. IsFrame(g) /\ g.at = "wait2" /\ g.kids = top.kids
  BY <1>4 DEF IsFrame
<1> HIDE DEF g, new
<1>7. FrameOK(g) /\ LiveOf(g) = {top.kids[2]}
  BY <1>4, <1>5, <1>6 DEF FrameOK, LiveOf, Calling
<1>8. /\ IsProc(new) /\ new.kind = "shell" /\ new.in = pr.in /\ new.out = pr.out
      /\ new.held = pr.held /\ StackOK(new.stack) /\ Last(new.stack) = g
  BY <1>1, <1>3, <1>7, WithTopOK
<1>9. Piping(new) = 0 /\ Live(new) = {top.kids[2]}
  BY <1>6, <1>7, <1>8 DEF Piping, Live
<1>10. ProcOK(p, new)
  BY <1>1, <1>8, <1>9 DEF ProcOK
<1>11. Live(pr) = {top.kids[1], top.kids[2]}
  <2>1. \A i \in 1 .. Len(top.kids) : i = 1 \/ i = 2
    BY <1>4
  <2>2. 1 \in 1 .. Len(top.kids) /\ 2 \in 1 .. Len(top.kids)
    BY <1>4
  <2>3. LiveOf(top) = {top.kids[1], top.kids[2]}
    BY <1>1, <2>1, <2>2 DEF LiveOf
  <2> QED
    BY <1>1, <2>3 DEF Live
<1>12. q \in Live(pr) /\ Live(new) = Live(pr) \ {q}
  BY <1>4, <1>5, <1>9, <1>11
<1> QED
  BY <1>2, <1>8, <1>10, <1>12, ReapStep

LEMMA Wait2Step ==
  ASSUME IInv, NEW p \in Pids, Wait2(p)
  PROVE  IInv'
<1> DEFINE pr == proc[p]
           q == Last(Top(p).kids)
           status == proc[q].ret
           r == IF Top(p).c.op = "prog" THEN status ELSE IF status = 0 THEN 0 ELSE 1
           new == Returned(p, pr, r)
<1>1. /\ ProcOK(p, pr) /\ pr.kind = "shell" /\ Top(p).at = "wait2"
      /\ Top(p) = Last(pr.stack)
  BY AtPlace DEF Wait2
<1>2. proc[q].kind = "zombie" /\ Reap(p, q, new)
  BY DEF Wait2
<1>3. Live(pr) = {q}
  BY <1>1 DEF Live, LiveOf
<1> HIDE DEF q, r
<1>4. ProcOK(p, new) /\ new.kind # "free" /\ Live(new) = {}
  BY <1>1, ReturnedOK
<1> HIDE DEF new
<1>5. q \in Live(pr) /\ Live(new) = Live(pr) \ {q}
  BY <1>3, <1>4
<1> QED
  BY <1>2, <1>4, <1>5, ReapStep

\* A program reads or writes.
LEMMA ProgStep ==
  ASSUME IInv, NEW p \in Pids, proc[p].kind = "prog", NEW a, NEW b,
         proc' = [proc EXCEPT ![p] = [proc[p] EXCEPT !.reads = a, !.writes = b]]
  PROVE  IInv'
<1> DEFINE pr == proc[p]
           new == [pr EXCEPT !.reads = a, !.writes = b]
<1>1. ProcOK(p, pr) /\ IsProc(pr)
  BY DEF IInv, ProcOK
<1>2. /\ IsProc(new) /\ new.kind = pr.kind /\ new.stack = pr.stack
      /\ new.in = pr.in /\ new.out = pr.out /\ new.held = pr.held
  <2>1. new = WithWork(pr, a, b)
    BY DEF WithWork
  <2> HIDE DEF pr, new
  <2> QED
    BY <1>1, <2>1, WorkFields
<1>3. proc' = [proc EXCEPT ![p] = new]
  OBVIOUS
<1> HIDE DEF new
<1>4. ProcOK(p, new) /\ Live(new) = Live(pr)
  BY <1>1, <1>2, SameProc
<1> QED
  BY <1>2, <1>3, <1>4, QuietStep

LEMMA ReadStep ==
  ASSUME IInv, NEW p \in Pids, Read(p)
  PROVE  IInv'
<1> DEFINE pr == proc[p]
<1>1. IsProc(pr) /\ pr.kind = "prog"
  BY DEF IInv, ProcOK, Read
<1>2. PICK a : proc' = [proc EXCEPT ![p] = [pr EXCEPT !.reads = a]]
  BY DEF Read
<1>3. [pr EXCEPT !.reads = a] = [pr EXCEPT !.reads = a, !.writes = pr.writes]
  <2> HIDE DEF pr
  <2> QED
    BY <1>1 DEF IsProc
<1> QED
  BY <1>1, <1>2, <1>3, ProgStep

LEMMA WriteStep ==
  ASSUME IInv, NEW p \in Pids, Write(p)
  PROVE  IInv'
<1> DEFINE pr == proc[p]
<1>1. IsProc(pr) /\ pr.kind = "prog"
  BY DEF IInv, ProcOK, Write
<1>2. PICK b : proc' = [proc EXCEPT ![p] = [pr EXCEPT !.writes = b]]
  BY DEF Write
<1>3. [pr EXCEPT !.writes = b] = [pr EXCEPT !.reads = pr.reads, !.writes = b]
  <2> HIDE DEF pr
  <2> QED
    BY <1>1 DEF IsProc
<1> QED
  BY <1>1, <1>2, <1>3, ProgStep

LEMMA ExitStep ==
  ASSUME IInv, NEW p \in Pids, Exit(p)
  PROVE  IInv'
<1> DEFINE new == Ended(Exited(proc[p].ret))
<1>1. ProcOK(p, proc[p]) /\ proc[p].kind = "prog"
  BY DEF IInv, Exit
<1>2. p # 1
  BY <1>1 DEF ProcOK
<1>3. proc' = [proc EXCEPT ![p] = new]
  BY DEF Exit
<1>4. IsProc(new) /\ new.kind = "zombie" /\ new.in = 0 /\ new.out = 0 /\ new.held = {}
  <2>1. new = Ended(Exited(proc[p].ret))
    OBVIOUS
  <2> HIDE DEF new
  <2> QED
    BY <2>1, EndedFields
<1> HIDE DEF new
<1>5. Piping(new) = 0 /\ Live(new) = {} /\ Live(proc[p]) = {}
  BY <1>1, <1>4 DEF Piping, Live
<1>6. ProcOK(p, new)
  BY <1>2, <1>4, <1>5 DEF ProcOK, EndsOK
<1> QED
  BY <1>1, <1>3, <1>4, <1>5, <1>6, QuietStep

-----------------------------------------------------------------------------
(* The theorems.                                                           *)

LEMMA Inductive == Spec => []IInv
<1>1. Init => IInv
  <2> SUFFICES ASSUME Init PROVE IInv
    OBVIOUS
  <2>1. IsProc(Free) /\ Free.kind = "free" /\ Free.in = 0 /\ Free.out = 0 /\ Free.held = {}
    BY DEF Free, IsProc
  <2> DEFINE shell == [Free EXCEPT !.kind = "prompt"]
  <2>2. /\ IsProc(shell) /\ shell.kind = "prompt" /\ shell.in = 0 /\ shell.out = 0
        /\ shell.held = {}
    <3>1. shell = FreeBut("prompt")
      BY DEF FreeBut
    <3> HIDE DEF shell
    <3> QED
      BY <3>1, FreeFields
  <2>3. proc = [p \in Pids |-> IF p = 1 THEN shell ELSE Free]
    BY DEF Init
  <2> HIDE DEF shell
  <2>4. /\ Piping(Free) = 0 /\ Live(Free) = {}
        /\ Piping(shell) = 0 /\ Live(shell) = {}
    BY <2>1, <2>2 DEF Piping, Live
  <2>5. ASSUME NEW p \in Pids PROVE ProcOK(p, proc[p])
    BY <2>1, <2>2, <2>3, <2>4 DEF ProcOK, EndsOK
  <2>6. Alive = {1} /\ Kids = [p \in Pids |-> {}]
    BY <2>1, <2>2, <2>3, <2>4, NumbersAssumption DEF Alive, Kids
  <2>7. Forest({1}, [p \in Pids |-> {}])
    <3> DEFINE L == [p \in Pids |-> {}]
               rank == [p \in Pids |-> 0]
    <3>1. rank \in [Pids -> Nat] /\ \A p \in Pids : \A q \in L[p] : rank[p] < rank[q]
      OBVIOUS
    <3> HIDE DEF rank
    <3>2. \E f \in [Pids -> Nat] : \A p \in Pids : \A q \in L[p] : f[p] < f[q]
      BY <3>1
    <3> QED
      BY <3>2, NumbersAssumption DEF Forest
  <2>8. proc = [p \in Pids |-> proc[p]]
    BY <2>3
  <2> QED
    BY <2>5, <2>6, <2>7, <2>8 DEF IInv
<1>2. IInv /\ [Next]_vars => IInv'
  <2> SUFFICES ASSUME IInv, [Next]_vars PROVE IInv'
    OBVIOUS
  <2>1. ASSUME NEW c \in Lines, Type(c) PROVE IInv'
    BY <2>1, NumbersAssumption, TypeStep
  <2>2. ASSUME NEW p \in Pids, Step(p) PROVE IInv'
    BY <2>2, NumbersAssumption, BuiltinStep, ExecStep, FirstStep, SecondStep, ThirdStep,
       Fork1Step, Fork2Step, Wait1Step, Wait2Step, ReadStep, WriteStep, ExitStep DEF Step
  <2>3. CASE UNCHANGED vars
    <3>1. proc' = proc
      BY <2>3 DEF vars
    <3>2. Alive' = Alive /\ Kids' = Kids
      BY <3>1 DEF Alive, Kids
    <3> QED
      BY <3>1, <3>2 DEF IInv
  <2> QED
    BY <2>1, <2>2, <2>3 DEF Next
<1> QED
  BY <1>1, <1>2, PTL DEF Spec

(***************************************************************************)
(* At the prompt, and when it has been left, the shell has waited for every *)
(* process it forked and they for theirs, and no end of a pipe is open: for *)
(* all lines, however pipes and parallel commands are nested in them.       *)
(***************************************************************************)
THEOREM EndsTheorem == Spec => []EndsClosed
<1>1. IInv => EndsClosed
  <2> SUFFICES ASSUME IInv, AtRest
               PROVE  /\ \A p \in Pids \ {1} : proc[p].kind = "free"
                      /\ \A x \in Pipes, e \in {"r", "w"} : ~Open(x, e)
    BY DEF EndsClosed
  <2>1. 1 \in Pids /\ proc[1].kind # "shell" /\ ProcOK(1, proc[1])
    BY NumbersAssumption DEF AtRest, IInv
  <2>2. Kids[1] = {}
    BY <2>1 DEF Kids, Live
  <2>3. Alive = {1}
    BY <2>2, ForestRoot DEF IInv
  <2>4. \A p \in Pids \ {1} : proc[p].kind = "free"
    BY <2>3 DEF Alive
  <2>5. ASSUME NEW p \in Pids
        PROVE  proc[p].in = 0 /\ proc[p].out = 0 /\ proc[p].held = {}
    <3>1. CASE p = 1
      <4>1. Piping(proc[1]) = 0
        BY <2>1 DEF Piping
      <4> QED
        BY <2>1, <3>1, <4>1 DEF ProcOK, EndsOK
    <3>2. CASE p # 1
      BY <2>4, <3>2 DEF IInv, ProcOK, EndsOK
    <3> QED
      BY <3>1, <3>2
  <2>6. ASSUME NEW x \in Pipes, NEW e \in {"r", "w"} PROVE ~Open(x, e)
    BY <2>5, NumbersAssumption DEF Open, Holds
  <2> QED
    BY <2>4, <2>6
<1> QED
  BY <1>1, Inductive, PTL

\* Whoever has a pipe for its output holds the end to read from as well.
ReaderKept == \A p \in Pids : proc[p].out # 0 => Holds(p, proc[p].out, "r")

(***************************************************************************)
(* No write finds its pipe without a reader, since the writer is one: a    *)
(* program on the left of a pipe is never ended by SIGPIPE, and waits for  *)
(* ever when the pipe is full and nobody else reads (run_on_pipe leaves    *)
(* the end to read from open in the first child).                          *)
(***************************************************************************)
THEOREM ReaderTheorem == Spec => []ReaderKept
<1>1. IInv => ReaderKept
  BY DEF IInv, ProcOK, EndsOK, ReaderKept, Holds
<1> QED
  BY <1>1, Inductive, PTL

-----------------------------------------------------------------------------
(* What a command means.                                                   *)

\* The recursion of Meaning, for the command c, when f are the meanings.
Body(f, c) ==
    [env \in Envs |-> IF c.op \in Pairs THEN Paired(c.op, f[c.cmd1], f[c.cmd2], env)
                      ELSE Simple(c, env)]

Below(n) == {c \in Commands : Depth[c] < n}
UpTo(f, n) == f = [c \in Below(n) |-> Body(f, c)]

LEMMA DepthNat == \A c \in Commands : Depth[c] \in Nat
<1>1. Depth \in [Commands -> Nat]
  BY CommandsAssumption
<1> QED
  BY <1>1

\* Of the commands of a set one is the least deep.
LEMMA LeastDepth ==
  ASSUME NEW S \in SUBSET Commands, S # {}
  PROVE  \E c \in S : \A d \in S : Depth[c] <= Depth[d]
<1>1. PICK a \in S : TRUE
  OBVIOUS
<1>2. \A c \in S : Depth[c] \in Nat
  BY DepthNat
<1> DEFINE n == Depth[a] + 1
           R == {Depth[c] + 1 : c \in {c \in S : Depth[c] <= Depth[a]}}
<1>3. n \in Nat /\ R \in SUBSET (1 .. n) /\ R # {}
  BY <1>1, <1>2
<1>4. PICK i \in R : \A j \in R : i <= j
  <2> HIDE DEF n, R
  <2> QED
    BY <1>3, LeastElement
<1>5. PICK c \in S : Depth[c] <= Depth[a] /\ i = Depth[c] + 1
  BY <1>4
<1>6. ASSUME NEW d \in S PROVE Depth[c] <= Depth[d]
  <2>1. Depth[c] \in Nat /\ Depth[d] \in Nat /\ Depth[a] \in Nat
    BY <1>1, <1>2
  <2>2. CASE Depth[d] <= Depth[a]
    <3>1. Depth[d] + 1 \in R
      BY <2>2
    <3> QED
      BY <1>4, <1>5, <2>1, <3>1
  <2>3. CASE Depth[d] > Depth[a]
    BY <1>5, <2>1, <2>3
  <2> QED
    BY <2>1, <2>2, <2>3
<1> QED
  BY <1>6

\* The meaning of a command depends on those of its two parts.
LEMMA BodySame ==
  ASSUME NEW c \in Commands, NEW f, NEW g,
         c.op \in Pairs => f[c.cmd1] = g[c.cmd1] /\ f[c.cmd2] = g[c.cmd2]
  PROVE  Body(f, c) = Body(g, c)
<1>1. CASE c.op \in Pairs
  BY <1>1 DEF Body
<1>2. CASE c.op \notin Pairs
  BY <1>2 DEF Body
<1> QED
  BY <1>1, <1>2

LEMMA PartsBelow ==
  ASSUME NEW n \in Nat, NEW c \in Below(n + 1), c.op \in Pairs
  PROVE  c.cmd1 \in Below(n) /\ c.cmd2 \in Below(n)
<1>1. /\ c.cmd1 \in Commands /\ Depth[c.cmd1] < Depth[c]
      /\ c.cmd2 \in Commands /\ Depth[c.cmd2] < Depth[c] /\ Depth[c] \in Nat
  BY CommandsAssumption DEF Below
<1>2. Depth[c.cmd1] \in Nat /\ Depth[c.cmd2] \in Nat /\ Depth[c] < n + 1
  BY <1>1, CommandsAssumption DEF Below
<1> QED
  BY <1>1, <1>2 DEF Below

\* There are meanings up to any depth,
LEMMA UpToExists ==
  ASSUME NEW n \in Nat
  PROVE  \E f : UpTo(f, n)
<1> DEFINE Bad == {m \in 1 .. n : ~ \E f : UpTo(f, m)}
<1>1. \E f : UpTo(f, 0)
  <2>1. Below(0) = {}
    BY DepthNat DEF Below
  <2>2. UpTo([c \in {} |-> 0], 0)
    BY <2>1 DEF UpTo
  <2> QED
    BY <2>2
<1>2. ASSUME NEW m \in Nat, NEW f, UpTo(f, m) PROVE \E g : UpTo(g, m + 1)
  <2> DEFINE g == [c \in Below(m + 1) |-> Body(f, c)]
  <2>1. Below(m) \subseteq Below(m + 1)
    BY DepthNat DEF Below
  <2>2. \A c \in Below(m) : g[c] = f[c]
    BY <1>2, <2>1 DEF UpTo
  <2>3. ASSUME NEW c \in Below(m + 1) PROVE g[c] = Body(g, c)
    <3>1. c.op \in Pairs => f[c.cmd1] = g[c.cmd1] /\ f[c.cmd2] = g[c.cmd2]
      BY <2>2, PartsBelow
    <3>2. c \in Commands
      BY DEF Below
    <3>3. Body(f, c) = Body(g, c)
      <4> HIDE DEF g
      <4> QED
        BY <3>1, <3>2, BodySame
    <3>4. g[c] = Body(f, c)
      OBVIOUS
    <3> HIDE DEF g
    <3> QED
      BY <3>3, <3>4
  <2>4. g = [c \in Below(m + 1) |-> g[c]]
    OBVIOUS
  <2> HIDE DEF g
  <2>5. UpTo(g, m + 1)
    BY <2>3, <2>4 DEF UpTo
  <2> QED
    BY <2>5
<1>3. CASE Bad # {}
  <2>1. Bad \in SUBSET (1 .. n)
    OBVIOUS
  <2> HIDE DEF Bad
  <2>2. PICK m \in Bad : \A k \in Bad : m <= k
    BY <1>3, <2>1, LeastElement
  <2>3. m \in 1 .. n /\ m - 1 \notin Bad /\ m - 1 \in Nat /\ (m - 1) + 1 = m
    BY <2>1, <2>2
  <2>4. \E f : UpTo(f, m - 1)
    <3>1. CASE m = 1
      BY <1>1, <3>1
    <3>2. CASE m # 1
      <4>1. m - 1 \in 1 .. n
        BY <2>3, <3>2
      <4> QED
        BY <2>3, <4>1 DEF Bad
    <3> QED
      BY <3>1, <3>2
  <2>5. \E f : UpTo(f, m)
    BY <1>2, <2>3, <2>4
  <2> QED
    BY <2>2, <2>5 DEF Bad
<1>4. CASE Bad = {}
  <2>1. CASE n = 0
    BY <1>1, <2>1
  <2>2. CASE n # 0
    <3>1. n \in 1 .. n
      BY <2>2
    <3> QED
      BY <1>4, <3>1
  <2> QED
    BY <2>1, <2>2
<1> QED
  BY <1>3, <1>4

\* and they agree.
LEMMA UpToAgree ==
  ASSUME NEW n \in Nat, NEW m \in Nat, NEW f, NEW g, UpTo(f, n), UpTo(g, m),
         NEW c \in Below(n) \cap Below(m)
  PROVE  f[c] = g[c]
<1> DEFINE S == {d \in Below(n) \cap Below(m) : f[d] # g[d]}
<1> SUFFICES ASSUME S # {} PROVE FALSE
  OBVIOUS
<1>1. S \in SUBSET Commands
  BY DEF Below
<1> HIDE DEF S
<1>2. PICK d \in S : \A e \in S : Depth[d] <= Depth[e]
  BY <1>1, LeastDepth
<1>3. d \in Below(n) /\ d \in Below(m) /\ f[d] # g[d] /\ d \in Commands
  BY <1>2 DEF S, Below
<1>4. ASSUME d.op \in Pairs, NEW e \in {d.cmd1, d.cmd2} PROVE f[e] = g[e]
  <2>1. /\ e \in Commands /\ Depth[e] < Depth[d] /\ Depth[d] \in Nat /\ Depth[e] \in Nat
        /\ Depth[d] < n /\ Depth[d] < m
    BY <1>3, <1>4, CommandsAssumption DEF Below
  <2>2. e \notin S
    BY <1>2, <2>1
  <2>3. e \in Below(n) /\ e \in Below(m)
    BY <2>1 DEF Below
  <2> QED
    BY <2>2, <2>3 DEF S
<1>5. Body(f, d) = Body(g, d)
  BY <1>3, <1>4, BodySame
<1>6. f[d] = Body(f, d) /\ g[d] = Body(g, d)
  BY <1>3 DEF UpTo
<1> QED
  BY <1>3, <1>5, <1>6

\* There is a function that satisfies the recursion of Meaning.
LEMMA MeaningEquation == Meaning = [c \in Commands |-> Body(Meaning, c)]
<1> DEFINE Part(n) == CHOOSE f : UpTo(f, n)
           M == [c \in Commands |-> Part(Depth[c] + 1)[c]]
<1>1. ASSUME NEW n \in Nat PROVE UpTo(Part(n), n)
  <2>1. \E f : UpTo(f, n)
    BY UpToExists
  <2> QED
    BY <2>1, Zenon
<1> HIDE DEF Part
<1>2. ASSUME NEW c \in Commands, NEW n \in Nat, c \in Below(n) PROVE M[c] = Part(n)[c]
  <2>1. Depth[c] + 1 \in Nat /\ c \in Below(Depth[c] + 1)
    BY DepthNat DEF Below
  <2>2. M[c] = Part(Depth[c] + 1)[c]
    OBVIOUS
  <2> QED
    BY <1>1, <1>2, <2>1, <2>2, UpToAgree
<1>3. ASSUME NEW c \in Commands PROVE M[c] = Body(M, c)
  <2>1. PICK n \in Nat : n = Depth[c]
    BY DepthNat
  <2>2. c \in Below(n + 1) /\ n + 1 \in Nat
    BY <2>1 DEF Below
  <2> DEFINE f == Part(n + 1)
  <2>3. UpTo(f, n + 1)
    BY <1>1, <2>2
  <2>4. M[c] = f[c] /\ f[c] = Body(f, c)
    BY <1>2, <2>2, <2>3 DEF UpTo
  <2>5. c.op \in Pairs => f[c.cmd1] = M[c.cmd1] /\ f[c.cmd2] = M[c.cmd2]
    <3>1. ASSUME NEW d \in Below(n) PROVE f[d] = M[d]
      <4>1. d \in Commands /\ d \in Below(n + 1)
        BY <2>1, DepthNat DEF Below
      <4> HIDE DEF M
      <4> QED
        BY <1>2, <2>2, <4>1
    <3> HIDE DEF f, M
    <3> QED
      BY <2>1, <2>2, <3>1, PartsBelow
  <2>6. Body(f, c) = Body(M, c)
    <3> HIDE DEF f, M
    <3> QED
      BY <2>5, BodySame
  <2> HIDE DEF f, M
  <2> QED
    BY <2>4, <2>6
<1>4. M = [c \in Commands |-> Body(M, c)]
  <2>1. M = [c \in Commands |-> M[c]]
    OBVIOUS
  <2> HIDE DEF M
  <2> QED
    BY <1>3, <2>1
<1>5. \E f : f = [c \in Commands |-> Body(f, c)]
  <2> HIDE DEF M
  <2> QED
    BY <1>4
<1> QED
  BY <1>5, Zenon DEF Meaning, Body

LEMMA MeaningOf ==
  ASSUME NEW c \in Commands, NEW env \in Envs
  PROVE  Meaning[c][env] = IF c.op \in Pairs
                           THEN Paired(c.op, Meaning[c.cmd1], Meaning[c.cmd2], env)
                           ELSE Simple(c, env)
<1>1. Meaning[c] = Body(Meaning, c)
  BY MeaningEquation, Zenon
<1> DEFINE M == Meaning
<1>2. M[c] = Body(M, c)
  BY <1>1
<1> HIDE DEF M
<1>3. M[c][env] = IF c.op \in Pairs THEN Paired(c.op, M[c.cmd1], M[c.cmd2], env)
                  ELSE Simple(c, env)
  BY <1>2 DEF Body
<1> QED
  BY <1>3 DEF M

\* What parse_line makes, one fact at a time.
LEMMA Parsed ==
  ASSUME NEW c \in Commands
  PROVE  /\ c.op \in Pairs \cup {"exit", "cd", "set", "prog"}
         /\ c.op \in Pairs => /\ c.cmd1 \in Commands /\ Depth[c.cmd1] < Depth[c]
                              /\ c.cmd2 \in Commands /\ Depth[c.cmd2] < Depth[c]
         /\ c.op = "cd" => c.dir \in Strings
         /\ c.op = "set" => c.name \in Names /\ c.string \in IF c.expand THEN Names ELSE Strings
         /\ c.op = "prog" => c.status \in Nat
BY CommandsAssumption

Typed(v) == v.ret \in Int /\ v.env \in Envs

LEMMA SimpleType ==
  ASSUME NEW c \in Commands, c.op \notin Pairs, NEW env \in Envs
  PROVE  Typed(Simple(c, env))
<1>1. ASSUME NEW n \in Names, NEW s \in Strings PROVE [env EXCEPT ![n] = s] \in Envs
  BY DEF Envs
<1>2. CASE c.op = "exit"
  BY <1>2 DEF Simple, Typed, Came, SHELL_EXIT
<1>3. CASE c.op = "cd"
  <2>1. c.dir \in Strings /\ "cwd" \in Names
    BY <1>3, Parsed, CommandsAssumption
  <2> QED
    BY <1>1, <1>3, <2>1 DEF Simple, Typed, Came
<1>4. CASE c.op = "set"
  <2>1. c.name \in Names /\ c.string \in IF c.expand THEN Names ELSE Strings
    BY <1>4, Parsed
  <2>2. get_word(c, env) \in Strings
    BY <2>1 DEF get_word, Envs
  <2> QED
    BY <1>1, <1>4, <2>1, <2>2 DEF Simple, Typed, Came
<1>5. CASE c.op = "prog"
  <2>1. Exited(c.status) \in Int
    BY <1>5, Parsed DEF Exited
  <2> QED
    BY <1>5, <2>1 DEF Simple, Typed, Came
<1> QED
  BY <1>2, <1>3, <1>4, <1>5, Parsed

\* A command comes back with a number, and leaves every variable with a value.
LEMMA MeaningType ==
  ASSUME NEW c \in Commands, NEW env \in Envs
  PROVE  Typed(Meaning[c][env])
<1> DEFINE S == {d \in Commands : \E e \in Envs : ~Typed(Meaning[d][e])}
<1> SUFFICES ASSUME S # {} PROVE FALSE
  OBVIOUS
<1>1. S \in SUBSET Commands
  OBVIOUS
<1> HIDE DEF S
<1>2. PICK d \in S : \A e \in S : Depth[d] <= Depth[e]
  BY <1>1, LeastDepth
<1>3. PICK e \in Envs : ~Typed(Meaning[d][e])
  BY <1>2 DEF S
<1>4. d \in Commands
  BY <1>1
<1>5. CASE d.op \notin Pairs
  BY <1>3, <1>4, <1>5, MeaningOf, SimpleType
<1>6. CASE d.op \in Pairs
  <2>1. ASSUME NEW f \in {d.cmd1, d.cmd2}, NEW a \in Envs PROVE Typed(Meaning[f][a])
    <3>1. f \in Commands /\ Depth[f] < Depth[d] /\ Depth[f] \in Nat /\ Depth[d] \in Nat
      BY <1>4, <1>6, Parsed, DepthNat
    <3>2. f \notin S
      BY <1>2, <3>1
    <3> QED
      BY <3>1, <3>2 DEF S
  <2>2. Meaning[d][e] = Paired(d.op, Meaning[d.cmd1], Meaning[d.cmd2], e)
    BY <1>4, <1>6, MeaningOf
  <2> DEFINE f == Meaning[d.cmd1]
             g == Meaning[d.cmd2]
  <2>3. Typed(f[e]) /\ Typed(g[e]) /\ Typed(g[f[e].env])
    BY <2>1 DEF Typed
  <2> HIDE DEF f, g
  <2>4. Typed(Paired(d.op, f, g, e))
    <3>1. CASE d.op \in {"par", "pipe"}
      BY <3>1 DEF Paired, Typed, Came
    <3>2. CASE d.op \notin {"par", "pipe"}
      <4>1. Paired(d.op, f, g, e) \in {f[e], g[f[e].env]}
        BY <3>2 DEF Paired
      <4> QED
        BY <2>3, <4>1
    <3> QED
      BY <3>1, <3>2
  <2> QED
    BY <1>3, <2>2, <2>4 DEF f, g
<1> QED
  BY <1>5, <1>6

-----------------------------------------------------------------------------
(* What a stack of calls will come back with.                              *)

\* What the call of frame f comes back with, when what it called has come back
\* with v, and when it is itself where the process is.
After(f, v) ==
    IF f.at = "second" /\ GoesOn(f.c.op, v.ret) THEN Meaning[f.c.cmd2][v.env] ELSE v
Here(f, env, ret) ==
    IF f.at \in Calling THEN After(f, Came(ret, env)) ELSE Meaning[f.c][env]

Sound(f) ==
    /\ f.c \in Commands
    /\ f.at \in Calling => f.c.op \in {"seq", "nz", "z"}
    /\ f.at \in {"fork2", "wait1"} => f.c.op \in {"par", "pipe"}
    /\ f.at = "wait2" => f.c.op \in {"par", "pipe", "prog"}

\* t is what the first call of the stack will come back with.
Comes(s, env, ret, t) ==
    /\ env \in Envs
    /\ \A i \in 1 .. Len(s) : Sound(s[i])
    /\ \E v : /\ v[1] = t /\ v[Len(s)] = Here(Last(s), env, ret)
             /\ \A i \in 1 .. Len(s) - 1 : v[i] = After(s[i], v[i + 1])

LEMMA NewSound ==
  ASSUME NEW c \in Commands
  PROVE  Sound(Frame(c)) /\ \A env, ret : Here(Frame(c), env, ret) = Meaning[c][env]
<1>1. Frame(c).at = "start" /\ Frame(c).c = c
  BY DEF Frame
<1> QED
  BY <1>1 DEF Sound, Here, Calling

LEMMA ComesNew ==
  ASSUME NEW c \in Commands, NEW env \in Envs, NEW ret
  PROVE  Comes(<<Frame(c)>>, env, ret, Meaning[c][env])
<1> DEFINE s == <<Frame(c)>>
           t == Meaning[c][env]
           v == [i \in {1} |-> t]
<1>1. Len(s) = 1 /\ s[1] = Frame(c) /\ Last(s) = Frame(c)
  BY OneSeq
<1>2. v[1] = t
  OBVIOUS
<1>3. Here(Frame(c), env, ret) = t /\ Sound(Frame(c))
  BY NewSound
<1> HIDE DEF s, t, v
<1>4. (\A i \in 1 .. Len(s) : Sound(s[i])) /\ 1 .. Len(s) - 1 = {}
  BY <1>1, <1>3
<1> QED
  BY <1>1, <1>2, <1>3, <1>4 DEF Comes, s, t

LEMMA TopPut ==
  ASSUME NEW s, IsSeq(s), Len(s) >= 1, NEW f
  PROVE  LET z == Append(Front(s), f)
         IN  /\ IsSeq(z) /\ Len(z) = Len(s) /\ z[Len(s)] = f /\ Last(z) = f
             /\ \A i \in 1 .. Len(s) - 1 : z[i] = s[i]
<1> DEFINE q == Front(s)
<1>1. /\ IsSeq(q) /\ Len(q) = Len(s) - 1 /\ Len(s) \in Nat
      /\ \A i \in 1 .. Len(s) - 1 : q[i] = s[i]
  BY FrontSeq
<1> HIDE DEF q
<1>2. /\ IsSeq(Append(q, f)) /\ Len(Append(q, f)) = Len(q) + 1
      /\ Append(q, f)[Len(q) + 1] = f /\ Last(Append(q, f)) = f
      /\ \A i \in 1 .. Len(q) : Append(q, f)[i] = q[i]
  BY <1>1, AppendSeq
<1> QED
  BY <1>1, <1>2 DEF q

\* The process goes on inside a call.
LEMMA ComesPut ==
  ASSUME NEW s, StackOK(s), NEW env, NEW ret, NEW t, Comes(s, env, ret, t),
         NEW f, Sound(f), NEW e \in Envs, NEW r,
         Here(f, e, r) = Here(Last(s), env, ret)
  PROVE  Comes(Append(Front(s), f), e, r, t)
<1> DEFINE z == Append(Front(s), f)
<1>1. IsSeq(s) /\ Len(s) \in Nat /\ Len(s) >= 1
  BY TopFrame
<1>2. /\ Len(z) = Len(s) /\ z[Len(s)] = f /\ Last(z) = f
      /\ \A i \in 1 .. Len(s) - 1 : z[i] = s[i]
  BY <1>1, TopPut
<1> HIDE DEF z
<1>3. PICK v : /\ v[1] = t /\ v[Len(s)] = Here(Last(s), env, ret)
               /\ \A i \in 1 .. Len(s) - 1 : v[i] = After(s[i], v[i + 1])
  BY DEF Comes
<1>4. ASSUME NEW i \in 1 .. Len(z) PROVE Sound(z[i])
  <2>1. i = Len(s) \/ i \in 1 .. Len(s) - 1
    BY <1>1, <1>2
  <2>2. i \in 1 .. Len(s) - 1 => Sound(s[i])
    BY <1>1 DEF Comes
  <2> QED
    BY <1>2, <2>1, <2>2
<1>5. \A i \in 1 .. Len(z) - 1 : v[i] = After(z[i], v[i + 1])
  BY <1>2, <1>3
<1>6. v[Len(z)] = Here(Last(z), e, r)
  BY <1>2, <1>3
<1>7. Comes(z, e, r, t)
  BY <1>3, <1>4, <1>5, <1>6 DEF Comes
<1> QED
  BY <1>7 DEF z

\* It calls c.
LEMMA ComesPush ==
  ASSUME NEW s, IsSeq(s), Len(s) >= 1, NEW c \in Commands, NEW env \in Envs, NEW ret, NEW t,
         \A i \in 1 .. Len(s) : Sound(s[i]),
         NEW w, w[1] = t, w[Len(s)] = After(Last(s), Meaning[c][env]),
         \A i \in 1 .. Len(s) - 1 : w[i] = After(s[i], w[i + 1])
  PROVE  Comes(Append(s, Frame(c)), env, ret, t)
<1> DEFINE z == Append(s, Frame(c))
           n == Len(s)
           m == Meaning[c][env]
           v == [i \in 1 .. n + 1 |-> IF i = n + 1 THEN m ELSE w[i]]
<1>1. /\ Len(z) = n + 1 /\ z[n + 1] = Frame(c) /\ Last(z) = Frame(c) /\ n \in Nat
      /\ \A i \in 1 .. n : z[i] = s[i]
  BY AppendSeq
<1>2. n >= 1 /\ s[n] = Last(s) /\ w[n] = After(s[n], m)
  BY DEF Last
<1>3. Here(Frame(c), env, ret) = m /\ Sound(Frame(c))
  BY NewSound
<1> HIDE DEF m, z, n
<1>4. v[1] = t /\ v[n + 1] = m /\ \A i \in 1 .. n : v[i] = w[i]
  <2>1. 1 \in 1 .. n + 1 /\ 1 # n + 1 /\ n + 1 \in 1 .. n + 1
    BY <1>1, <1>2
  <2>2. \A i \in 1 .. n : i \in 1 .. n + 1 /\ i # n + 1
    BY <1>1
  <2> QED
    BY <2>1, <2>2
<1> HIDE DEF v
<1>5. ASSUME NEW i \in 1 .. Len(z) PROVE Sound(z[i])
  <2>1. i = n + 1 \/ i \in 1 .. n
    BY <1>1
  <2> QED
    BY <1>1, <1>3, <2>1 DEF n
<1>6. ASSUME NEW i \in 1 .. Len(z) - 1 PROVE v[i] = After(z[i], v[i + 1])
  <2>1. i \in 1 .. n /\ z[i] = s[i] /\ v[i] = w[i]
    BY <1>1, <1>4
  <2>2. CASE i = n
    BY <1>2, <1>4, <2>1, <2>2
  <2>3. CASE i # n
    <3>1. i \in 1 .. n - 1 /\ i + 1 \in 1 .. n
      BY <1>1, <2>1, <2>3
    <3>2. w[i] = After(s[i], w[i + 1])
      BY <3>1 DEF n
    <3> QED
      BY <1>4, <2>1, <3>1, <3>2
  <2> QED
    BY <2>2, <2>3
<1>7. v[1] = t /\ v[Len(z)] = Here(Last(z), env, ret)
  BY <1>1, <1>3, <1>4
<1>8. Comes(z, env, ret, t)
  BY <1>5, <1>6, <1>7 DEF Comes
<1> QED
  BY <1>8 DEF z

\* It comes back with r from the innermost call,
LEMMA ComesPop ==
  ASSUME NEW s, StackOK(s), Len(s) > 1, NEW env, NEW ret, NEW t, Comes(s, env, ret, t),
         NEW e \in Envs, NEW r, Here(Last(s), env, ret) = Came(r, e)
  PROVE  Comes(Front(s), e, r, t)
<1> DEFINE z == Front(s)
           n == Len(s)
<1>1. IsSeq(s) /\ n \in Nat /\ n > 1
  BY TopFrame
<1>2. IsSeq(z) /\ Len(z) = n - 1 /\ \A i \in 1 .. n - 1 : z[i] = s[i]
  BY <1>1, FrontSeq
<1>3. Last(z).at \in Calling
  BY PopFrame
<1>4. PICK v : /\ v[1] = t /\ v[n] = Here(Last(s), env, ret)
               /\ \A i \in 1 .. n - 1 : v[i] = After(s[i], v[i + 1])
  BY DEF Comes
<1> HIDE DEF z
<1>5. Last(z) = s[n - 1] /\ n - 1 \in 1 .. n - 1 /\ (n - 1) + 1 = n
  BY <1>1, <1>2 DEF Last
<1>6. v[n - 1] = After(s[n - 1], Came(r, e))
  BY <1>4, <1>5
<1>7. v[Len(z)] = Here(Last(z), e, r)
  BY <1>2, <1>3, <1>5, <1>6 DEF Here
<1>8. \A i \in 1 .. Len(z) : Sound(z[i])
  BY <1>1, <1>2 DEF Comes
<1>9. ASSUME NEW i \in 1 .. Len(z) - 1 PROVE v[i] = After(z[i], v[i + 1])
  <2>1. i \in 1 .. n - 1 /\ z[i] = s[i]
    BY <1>1, <1>2
  <2> QED
    BY <1>4, <2>1
<1>10. Comes(z, e, r, t)
  BY <1>4, <1>7, <1>8, <1>9 DEF Comes
<1> QED
  BY <1>10 DEF z

\* and from the first.
LEMMA ComesEnd ==
  ASSUME NEW s, StackOK(s), ~(Len(s) > 1), NEW env, NEW ret, NEW t, Comes(s, env, ret, t)
  PROVE  t = Here(Last(s), env, ret)
<1>1. Len(s) = 1
  BY SMTT(30), TopFrame
<1> QED
  BY <1>1 DEF Comes

-----------------------------------------------------------------------------
(* What a process owes.                                                    *)

\* After a step of process p: t is still what it will come back with, or what
\* it came back with.
Goes(p, new, t) ==
    \/ new.kind = "shell" /\ Comes(new.stack, new.env, new.ret, t)
    \/ p # 1 /\ new.kind = "zombie" /\ new.ret = Exited(t.ret)
    \/ /\ p = 1 /\ new.kind \in {"prompt", "left"} /\ new.env \in Envs
       /\ Came(new.ret, new.env) = t
       /\ (new.kind = "left") <=> (new.ret = SHELL_EXIT)

\* r is what wait will get of the process.
Owes(pr, r) ==
    \/ pr.kind = "zombie" /\ pr.ret = r
    \/ pr.kind = "prog" /\ Exited(pr.ret) = r
    \/ pr.kind = "shell" /\ \E t : Comes(pr.stack, pr.env, pr.ret, t) /\ Exited(t.ret) = r

\* The status that decides about a command run in children.
Status(c, env) == IF c.op = "prog" THEN Exited(c.status) ELSE Exited(Meaning[c.cmd2][env].ret)

Waits(pr) == pr.kind = "shell" /\ Last(pr.stack).at \in {"wait1", "wait2"}
LastKid(pr) == Last(Last(pr.stack).kids)
Means(pr) == \E t : Comes(pr.stack, pr.env, pr.ret, t)

\* What process p among the processes P is owed.
Owed(P, p) == Waits(P[p]) => Owes(P[LastKid(P[p])], Status(Last(P[p].stack).c, P[p].env))
Thread(P, p) == P[p].kind = "shell" => Means(P[p]) /\ Owed(P, p)

\* A child that has just been forked.
Fresh(pr) == pr.kind = "prog" \/ (pr.kind = "shell" /\ Means(pr) /\ ~Waits(pr))

\* How the others differ after a step of p.
Elsewhere(P, Q, p) ==
    \A q \in Pids \ {p} :
        \/ Q[q] = P[q]
        \/ P[q].kind = "free" /\ Fresh(Q[q])
        \/ q \in Live(P[p]) /\ Q[q].kind = "free"

\* And of the first, if t is what the last line means.
First1(pr, n, t) ==
    /\ pr.env \in Envs
    /\ pr.kind = "shell" => Comes(pr.stack, pr.env, pr.ret, t)
    /\ n > 0 /\ pr.kind \in {"prompt", "left"} =>
          Came(pr.ret, pr.env) = t /\ ((pr.kind = "left") <=> (pr.ret = SHELL_EXIT))

MInv ==
    /\ lines \in Nat
    /\ \A p \in Pids : Thread(proc, p)
    /\ First1(proc[1], lines, Meaning[line][before])

\* The last child is still to be waited for.
LEMMA LastLive ==
  ASSUME NEW p, NEW pr, ProcOK(p, pr), Waits(pr)
  PROVE  LastKid(pr) \in Live(pr)
<1> DEFINE top == Last(pr.stack)
<1>1. FrameOK(top) /\ pr.kind = "shell" /\ Live(pr) = LiveOf(top)
  BY TopFrame DEF ProcOK, Waits, Live
<1>2. CASE top.at = "wait2"
  BY <1>1, <1>2 DEF LiveOf, LastKid
<1>3. CASE top.at = "wait1"
  <2>1. Len(top.kids) = 2
    BY <1>1, <1>3 DEF FrameOK
  <2>2. LastKid(pr) = top.kids[2] /\ 2 \in 1 .. Len(top.kids)
    BY <2>1 DEF LastKid, Last
  <2> QED
    BY <1>1, <1>3, <2>2 DEF LiveOf
<1> QED
  BY <1>2, <1>3 DEF Waits

\* A step of p, which may have forked a process or waited for one, leaves what
\* the others owe and are owed.
LEMMA OthersThread ==
  ASSUME IInv, NEW p \in Pids, NEW P, NEW Q, P = proc, \A q \in Pids : Thread(P, q),
         p # 1 => \A r : Owes(P[p], r) => Owes(Q[p], r),
         Thread(Q, p),
         Elsewhere(P, Q, p)
  PROVE  \A q \in Pids : Thread(Q, q)
<1> SUFFICES ASSUME NEW q \in Pids, q # p, Q[q].kind = "shell" PROVE Thread(Q, q)
  BY DEF Thread
<1>1. CASE P[q].kind = "free" /\ Q[q].kind = "shell" /\ Means(Q[q]) /\ ~Waits(Q[q])
  BY <1>1 DEF Thread, Owed
<1>2. CASE Q[q] = P[q]
  <2>1. Means(Q[q])
    BY <1>2 DEF Thread
  <2>2. ASSUME Waits(Q[q])
        PROVE  Owes(Q[LastKid(Q[q])], Status(Last(Q[q].stack).c, Q[q].env))
    <3> DEFINE k == LastKid(P[q])
    <3>1. Waits(P[q]) /\ Owes(P[k], Status(Last(P[q].stack).c, P[q].env))
      BY <1>2, <2>2 DEF Thread, Owed
    <3>2. k \in Live(P[q])
      BY <3>1, LastLive DEF IInv
    <3>3. k \in Pids /\ k # 1 /\ P[k].kind # "free" /\ Kids[q] = Live(P[q])
      BY <3>2, KidsAlive
    <3>4. k \notin Live(P[p])
      <4>1. Kids[p] = Live(P[p])
        BY KidsAlive
      <4>2. Kids[p] \cap Kids[q] = {}
        BY DEF IInv, Forest
      <4> QED
        BY <3>2, <3>3, <4>1, <4>2
    <3> HIDE DEF k
    <3>5. CASE k = p
      BY <1>2, <3>1, <3>3, <3>5 DEF k
    <3>6. CASE k # p
      <4>1. Q[k] = P[k]
        BY <3>3, <3>4, <3>6 DEF Elsewhere
      <4> QED
        BY <1>2, <3>1, <4>1 DEF k
    <3> QED
      BY <3>5, <3>6
  <2> QED
    BY <2>1, <2>2 DEF Thread, Owed
<1> QED
  BY <1>1, <1>2 DEF Elsewhere, Fresh

\* A process that runs parse_command has taken a step.
LEMMA ShellMeans ==
  ASSUME IInv, MInv, NEW p \in Pids, NEW P, NEW Q, P = proc, Q = proc',
         P[p].kind = "shell",
         \A t : Comes(P[p].stack, P[p].env, P[p].ret, t) => Goes(p, Q[p], t),
         Owed(Q, p),
         Elsewhere(P, Q, p),
         UNCHANGED <<line, lines, before>>
  PROVE  MInv'
<1>1. Means(P[p]) /\ \A q \in Pids : Thread(P, q)
  BY DEF MInv, Thread
<1>2. p # 1 => \A r : Owes(P[p], r) => Owes(Q[p], r)
  BY DEF Owes, Goes
<1>3. Thread(Q, p)
  BY <1>1 DEF Thread, Means, Goes
<1>4. \A q \in Pids : Thread(Q, q)
  BY <1>1, <1>2, <1>3, OthersThread
<1> DEFINE t == Meaning[line][before]
<1>5. First1(P[1], lines, t) /\ lines \in Nat
  BY DEF MInv
<1> HIDE DEF t
<1>6. First1(Q[1], lines, t)
  <2>1. CASE p = 1
    <3>1. Comes(P[1].stack, P[1].env, P[1].ret, t)
      BY <1>5, <2>1 DEF First1
    <3>2. Goes(1, Q[1], t)
      BY <2>1, <3>1
    <3>3. CASE Q[1].kind = "shell" /\ Comes(Q[1].stack, Q[1].env, Q[1].ret, t)
      <4>1. Q[1].env \in Envs
        BY <3>3 DEF Comes
      <4> QED
        BY <3>3, <4>1 DEF First1
    <3>4. CASE ~(Q[1].kind = "shell" /\ Comes(Q[1].stack, Q[1].env, Q[1].ret, t))
      <4>1. /\ Q[1].kind \in {"prompt", "left"} /\ Q[1].env \in Envs
            /\ Came(Q[1].ret, Q[1].env) = t
            /\ (Q[1].kind = "left") <=> (Q[1].ret = SHELL_EXIT)
        BY <3>2, <3>4 DEF Goes
      <4> QED
        BY <4>1 DEF First1
    <3> QED
      BY <3>3, <3>4
  <2>2. CASE p # 1
    <3>1. 1 \in Alive /\ Kids[p] \subseteq Alive \ {1}
      BY DEF IInv, Forest
    <3>2. P[1].kind # "free" /\ 1 \notin Live(P[p]) /\ 1 \in Pids
      BY <3>1, KidsAlive DEF Alive
    <3>3. Q[1] = P[1]
      BY <2>2, <3>2 DEF Elsewhere, Fresh
    <3> QED
      BY <1>5, <3>3
  <2> QED
    BY <2>1, <2>2
<1>7. lines' = lines /\ Meaning[line'][before'] = t
  BY DEF t
<1> QED
  BY <1>4, <1>5, <1>6, <1>7 DEF MInv

-----------------------------------------------------------------------------
(* The actions again.                                                      *)

\* A command comes back with r, and leaves the variables as pr has them.
LEMMA ReturnedGoes ==
  ASSUME NEW p, NEW old, ProcOK(p, old), old.kind = "shell",
         NEW pr, IsProc(pr), pr.kind = "shell", pr.stack = old.stack, pr.env \in Envs,
         NEW r, Here(Last(old.stack), old.env, old.ret) = Came(r, pr.env),
         NEW new, new = Returned(p, pr, r)
  PROVE  /\ \A t : Comes(old.stack, old.env, old.ret, t) => Goes(p, new, t)
         /\ ~Waits(new)
<1>1. StackOK(pr.stack) /\ IsProc(old)
  BY DEF ProcOK
<1>2. CASE Len(pr.stack) > 1
  <2>1. new = WithRun(pr, pr.kind, Front(pr.stack), r)
    <3>1. new = [pr EXCEPT !.stack = Front(pr.stack), !.ret = r]
      BY <1>2 DEF Returned
    <3> QED
      BY <3>1 DEF IsProc, WithRun
  <2>2. /\ new.kind = "shell" /\ new.stack = Front(pr.stack) /\ new.ret = r
        /\ new.env = pr.env
    BY <2>1, RunFields
  <2>3. Last(new.stack).at \in Calling
    BY <1>1, <1>2, <2>2, PopFrame
  <2>4. ~Waits(new)
    BY <2>3 DEF Waits, Calling
  <2>5. ASSUME NEW t, Comes(old.stack, old.env, old.ret, t)
        PROVE  Comes(new.stack, new.env, new.ret, t)
    BY <1>1, <1>2, <2>2, <2>5, ComesPop
  <2> QED
    BY <2>2, <2>4, <2>5 DEF Goes
<1>3. CASE ~(Len(pr.stack) > 1) /\ p # 1
  <2>1. new = Ended(Exited(r))
    BY <1>3 DEF Returned
  <2>2. new.kind = "zombie" /\ new.ret = Exited(r)
    BY <2>1, EndedFields
  <2>3. ASSUME NEW t, Comes(old.stack, old.env, old.ret, t)
        PROVE  t.ret = r
    <3>1. t = Came(r, pr.env)
      BY <1>1, <1>3, <2>3, ComesEnd
    <3> QED
      BY <3>1 DEF Came
  <2> QED
    BY <1>3, <2>2, <2>3 DEF Goes, Waits
<1>4. CASE ~(Len(pr.stack) > 1) /\ p = 1
  <2> DEFINE k == IF r = SHELL_EXIT THEN "left" ELSE "prompt"
  <2>1. new = WithRun(pr, k, <<>>, r)
    BY <1>4 DEF Returned, WithRun
  <2>2. k \in {"prompt", "left"} /\ ((k = "left") <=> (r = SHELL_EXIT))
    OBVIOUS
  <2> HIDE DEF k
  <2>3. new.kind = k /\ new.ret = r /\ new.env = pr.env
    BY <2>1, RunFields
  <2>4. ASSUME NEW t, Comes(old.stack, old.env, old.ret, t)
        PROVE  Came(new.ret, new.env) = t
    BY <1>1, <1>4, <2>3, <2>4, ComesEnd
  <2>5. ASSUME NEW t, Comes(old.stack, old.env, old.ret, t)
        PROVE  Goes(p, new, t)
    <3>1. Came(new.ret, new.env) = t
      BY <2>4, <2>5
    <3> QED
      BY <1>4, <2>2, <2>3, <3>1 DEF Goes
  <2> QED
    BY <2>2, <2>3, <2>5 DEF Waits
<1> QED
  BY <1>2, <1>3, <1>4

LEMMA ReturnMeans ==
  ASSUME IInv, MInv, NEW p \in Pids, NEW place, At(p, place),
         NEW pr, IsProc(pr), pr.kind = "shell", pr.stack = proc[p].stack, pr.env \in Envs,
         NEW r, Here(Top(p), proc[p].env, proc[p].ret) = Came(r, pr.env),
         proc' = [proc EXCEPT ![p] = Returned(p, pr, r)],
         UNCHANGED <<line, lines, before>>
  PROVE  MInv'
<1>1. PICK P, Q : P = proc /\ Q = proc'
  OBVIOUS
<1>2. ProcOK(p, P[p]) /\ P[p].kind = "shell" /\ Top(p) = Last(P[p].stack)
  BY <1>1, AtPlace
<1>3. Q[p] = Returned(p, pr, r) /\ \A q \in Pids \ {p} : Q[q] = P[q]
  BY <1>1 DEF IInv
<1>4. /\ \A t : Comes(P[p].stack, P[p].env, P[p].ret, t) => Goes(p, Q[p], t)
      /\ ~Waits(Q[p])
  BY <1>1, <1>2, <1>3, ReturnedGoes
<1>5. Owed(Q, p) /\ Elsewhere(P, Q, p)
  BY <1>3, <1>4 DEF Owed, Elsewhere
<1> QED
  BY <1>1, <1>2, <1>4, <1>5, ShellMeans

\* What is known of the command a process is at.
LEMMA AtMeans ==
  ASSUME IInv, MInv, NEW p \in Pids, NEW place, At(p, place)
  PROVE  /\ Sound(Top(p)) /\ Top(p).c \in Commands /\ proc[p].env \in Envs
         /\ \A i \in 1 .. Len(proc[p].stack) : Sound(proc[p].stack[i])
<1> DEFINE s == proc[p].stack
<1>1. StackOK(s) /\ Top(p) = Last(s) /\ proc[p].kind = "shell"
  BY AtPlace
<1>2. Means(proc[p])
  BY <1>1 DEF MInv, Thread
<1>3. proc[p].env \in Envs /\ \A i \in 1 .. Len(s) : Sound(s[i])
  BY <1>2 DEF Means, Comes
<1>4. Len(s) \in 1 .. Len(s) /\ Last(s) = s[Len(s)]
  <2>1. Len(s) \in Nat /\ Len(s) >= 1
    BY <1>1, TopFrame
  <2> QED
    BY <2>1 DEF Last
<1> QED
  BY <1>1, <1>3, <1>4 DEF Sound

WithEnv(pr, e) == [pr EXCEPT !.env = e]

LEMMA EnvFields ==
  ASSUME NEW pr, IsProc(pr), NEW e, NEW new, new = WithEnv(pr, e)
  PROVE  IsProc(new) /\ new.kind = pr.kind /\ new.stack = pr.stack /\ new.env = e
<1>1. new = [kind |-> pr.kind, stack |-> pr.stack, ret |-> pr.ret, in |-> pr.in,
             out |-> pr.out, held |-> pr.held, env |-> e, reads |-> pr.reads,
             writes |-> pr.writes]
  BY DEF IsProc, WithEnv
<1> QED
  BY <1>1 DEF IsProc

LEMMA BuiltinMeans ==
  ASSUME IInv, MInv, NEW p \in Pids, Builtin(p)
  PROVE  MInv'
<1> DEFINE c == Top(p).c
           pr == proc[p]
           env == pr.env
<1>1. /\ At(p, "start") /\ IsProc(pr) /\ pr.kind = "shell" /\ Top(p).at = "start"
      /\ UNCHANGED <<line, lines, before>>
  BY AtPlace DEF Builtin
<1>2. c \in Commands /\ env \in Envs
  BY <1>1, AtMeans
<1>3. ASSUME c.op \notin Pairs PROVE Here(Top(p), env, pr.ret) = Simple(c, env)
  BY <1>1, <1>2, <1>3, MeaningOf DEF Here, Calling
<1>4. CASE c.op = "exit" /\ proc' = [proc EXCEPT ![p] = Returned(p, pr, SHELL_EXIT)]
  <2>1. Here(Top(p), env, pr.ret) = Came(SHELL_EXIT, env)
    BY <1>3, <1>4 DEF Simple, Pairs
  <2> QED
    BY <1>1, <1>2, <1>4, <2>1, ReturnMeans
<1>5. CASE c.op = "cd" /\ ~c.ok /\ proc' = [proc EXCEPT ![p] = Returned(p, pr, 1)]
  <2>1. Here(Top(p), env, pr.ret) = Came(1, env)
    BY <1>3, <1>5 DEF Simple, Pairs
  <2> QED
    BY <1>1, <1>2, <1>5, <2>1, ReturnMeans
<1>6. ASSUME NEW e, Simple(c, env) = Came(0, e), c.op \notin Pairs,
             proc' = [proc EXCEPT ![p] = Returned(p, WithEnv(pr, e), 0)]
      PROVE  MInv'
  <2>1. Typed(Came(0, e))
    BY <1>2, <1>6, SimpleType
  <2>2. e \in Envs
    BY <2>1 DEF Typed, Came
  <2>3. PICK new : new = WithEnv(pr, e)
    OBVIOUS
  <2>4. IsProc(new) /\ new.kind = "shell" /\ new.stack = pr.stack /\ new.env = e
    <3> HIDE DEF pr
    <3> QED
      BY <1>1, <2>3, EnvFields
  <2>5. Here(Top(p), env, pr.ret) = Came(0, new.env)
    BY <1>3, <1>6, <2>4
  <2>6. proc' = [proc EXCEPT ![p] = Returned(p, new, 0)]
    BY <1>6, <2>3
  <2> QED
    BY <1>1, <2>2, <2>4, <2>5, <2>6, ReturnMeans
<1>7. CASE c.op = "cd" /\ c.ok /\ proc' = [proc EXCEPT ![p] =
             Returned(p, [pr EXCEPT !.env["cwd"] = c.dir], 0)]
  <2> DEFINE e == [env EXCEPT !["cwd"] = c.dir]
  <2>1. Simple(c, env) = Came(0, e)
    BY <1>7 DEF Simple
  <2>2. [pr EXCEPT !.env["cwd"] = c.dir] = WithEnv(pr, e)
    BY DEF WithEnv
  <2>3. c.op \notin Pairs
    BY <1>7 DEF Pairs
  <2> HIDE DEF e
  <2> QED
    BY <1>6, <1>7, <2>1, <2>2, <2>3
<1>8. CASE c.op = "set" /\ proc' = [proc EXCEPT ![p] =
             Returned(p, [pr EXCEPT !.env[c.name] = get_word(c, pr.env)], 0)]
  <2> DEFINE e == [env EXCEPT ![c.name] = get_word(c, env)]
  <2>1. Simple(c, env) = Came(0, e)
    BY <1>8 DEF Simple
  <2>2. [pr EXCEPT !.env[c.name] = get_word(c, pr.env)] = WithEnv(pr, e)
    BY DEF WithEnv
  <2>3. c.op \notin Pairs
    BY <1>8 DEF Pairs
  <2> HIDE DEF e
  <2> QED
    BY <1>6, <1>8, <2>1, <2>2, <2>3
<1>9. \/ c.op = "exit" /\ proc' = [proc EXCEPT ![p] = Returned(p, pr, SHELL_EXIT)]
      \/ c.op = "cd" /\ proc' = [proc EXCEPT ![p] =
            IF c.ok THEN Returned(p, [pr EXCEPT !.env["cwd"] = c.dir], 0)
            ELSE Returned(p, pr, 1)]
      \/ c.op = "set" /\ proc' = [proc EXCEPT ![p] =
            Returned(p, [pr EXCEPT !.env[c.name] = get_word(c, pr.env)], 0)]
  BY DEF Builtin
<1> HIDE DEF c, pr, env
<1> QED
  BY <1>4, <1>5, <1>7, <1>8, <1>9

Placed(f, place) == [f EXCEPT !.at = place]

LEMMA PlacedFrame ==
  ASSUME NEW f, IsFrame(f), NEW place, NEW g, g = Placed(f, place)
  PROVE  IsFrame(g) /\ g.c = f.c /\ g.at = place /\ g.kids = f.kids /\ g.pipe = f.pipe
<1>1. g = [c |-> f.c, at |-> place, kids |-> f.kids, pipe |-> f.pipe]
  BY DEF Placed, IsFrame
<1> QED
  BY <1>1 DEF IsFrame

\* A command is called, and what it means is what its caller needs.
LEMMA CallMeans ==
  ASSUME IInv, MInv, NEW p \in Pids, NEW at \in {"start", "second"}, At(p, at),
         NEW place \in Calling, NEW c \in Commands,
         Top(p).c.op \in {"seq", "nz", "z"},
         \A f : f.c = Top(p).c /\ f.at = place =>
            Here(Top(p), proc[p].env, proc[p].ret) = After(f, Meaning[c][proc[p].env]),
         proc' = [proc EXCEPT ![p] = Call(proc[p], place, c)],
         UNCHANGED <<line, lines, before>>
  PROVE  MInv'
<1> DEFINE pr == proc[p]
           s == pr.stack
<1>1. /\ ProcOK(p, pr) /\ IsProc(pr) /\ pr.kind = "shell" /\ StackOK(s)
      /\ Top(p) = Last(s) /\ FrameOK(Top(p)) /\ Top(p).at = at
  BY AtPlace
<1>2. IsSeq(s) /\ Len(s) >= 1 /\ Len(s) \in Nat
  BY <1>1, TopFrame
<1>3. PICK f : f = Placed(Top(p), place)
  OBVIOUS
<1>4. IsFrame(f) /\ f.c = Top(p).c /\ f.at = place /\ f.kids = Top(p).kids
  BY <1>1, <1>3, PlacedFrame DEF FrameOK
<1>5. FrameOK(f)
  BY <1>1, <1>4 DEF FrameOK, Calling
<1>6. Sound(f) /\ pr.env \in Envs /\ \A i \in 1 .. Len(s) : Sound(s[i])
  <2>1. Sound(Top(p)) /\ pr.env \in Envs /\ \A i \in 1 .. Len(s) : Sound(s[i])
    BY AtMeans
  <2> QED
    BY <1>4, <2>1 DEF Sound, Calling
<1>7. PICK mid : mid = WithTop(pr, f)
  OBVIOUS
<1>8. /\ IsProc(mid) /\ mid.kind = "shell" /\ mid.env = pr.env /\ mid.ret = pr.ret
      /\ mid.stack = Append(Front(s), f)
  <2> HIDE DEF pr
  <2> QED
    BY <1>1, <1>5, <1>7, WithTopOK DEF s
<1> DEFINE z == Append(Front(s), f)
<1>9. /\ IsSeq(z) /\ Len(z) = Len(s) /\ z[Len(s)] = f /\ Last(z) = f
      /\ \A i \in 1 .. Len(s) - 1 : z[i] = s[i]
  BY <1>2, TopPut
<1>10. PICK new : new = WithRun(mid, "shell", Append(mid.stack, Frame(c)), mid.ret)
  OBVIOUS
<1>11. proc'[p] = new /\ \A q \in Pids \ {p} : proc'[q] = proc[q]
  <2>1. Call(pr, place, c) = [mid EXCEPT !.stack = Append(mid.stack, Frame(c))]
    BY <1>1, <1>3, <1>7 DEF Call, Moved, Placed
  <2>2. [mid EXCEPT !.stack = Append(mid.stack, Frame(c))] = new
    BY <1>8, <1>10 DEF WithRun, IsProc
  <2> QED
    BY <2>1, <2>2 DEF IInv
<1>12. /\ new.kind = "shell" /\ new.stack = Append(mid.stack, Frame(c))
       /\ new.env = pr.env /\ new.ret = pr.ret
  <2>1. PICK k, u, r : k = "shell" /\ u = Append(mid.stack, Frame(c)) /\ r = mid.ret
    OBVIOUS
  <2>2. new = WithRun(mid, k, u, r)
    BY <1>10, <2>1
  <2>3. new.kind = k /\ new.stack = u /\ new.ret = r /\ new.env = mid.env
    BY <1>8, <2>2, RunFields
  <2> QED
    BY <1>8, <2>1, <2>3
<1> HIDE DEF z
<1>13. \A i \in 1 .. Len(z) : Sound(z[i])
  <2>1. \A i \in 1 .. Len(z) : i = Len(s) \/ i \in 1 .. Len(s) - 1
    BY <1>2, <1>9
  <2>2. \A i \in 1 .. Len(s) - 1 : i \in 1 .. Len(s)
    BY <1>2
  <2> QED
    BY <1>6, <1>9, <2>1, <2>2
<1>14. ASSUME NEW t, Comes(s, pr.env, pr.ret, t)
       PROVE  Goes(p, new, t)
  <2>1. PICK v : /\ v[1] = t /\ v[Len(s)] = Here(Last(s), pr.env, pr.ret)
                 /\ \A i \in 1 .. Len(s) - 1 : v[i] = After(s[i], v[i + 1])
    BY <1>14 DEF Comes
  <2>2. v[Len(z)] = After(Last(z), Meaning[c][pr.env])
    BY <1>1, <1>4, <1>9, <2>1
  <2>3. \A i \in 1 .. Len(z) - 1 : v[i] = After(z[i], v[i + 1])
    BY <1>9, <2>1
  <2>4. Comes(Append(z, Frame(c)), pr.env, new.ret, t)
    <3> HIDE DEF pr, s
    <3> QED
      BY <1>2, <1>6, <1>9, <1>13, <2>1, <2>2, <2>3, ComesPush
  <2> QED
    BY <1>8, <1>12, <2>4 DEF Goes, z
<1>15. ~Waits(new)
  <2>1. Last(new.stack) = Frame(c)
    <3>1. IsSeq(mid.stack)
      BY <1>8, <1>9 DEF z
    <3> QED
      BY <1>12, <3>1, AppendSeq
  <2> QED
    BY <2>1, NewFrame DEF Waits
<1>16. PICK P, Q : P = proc /\ Q = proc'
  OBVIOUS
<1>17. Owed(Q, p) /\ Elsewhere(P, Q, p)
  BY <1>11, <1>15, <1>16 DEF Owed, Elsewhere
<1>18. \A t : Comes(P[p].stack, P[p].env, P[p].ret, t) => Goes(p, Q[p], t)
  BY <1>11, <1>14, <1>16
<1>19. P[p].kind = "shell"
  BY <1>1, <1>16
<1> QED
  BY <1>16, <1>17, <1>18, <1>19, ShellMeans

LEMMA FirstMeans ==
  ASSUME IInv, MInv, NEW p \in Pids, First(p)
  PROVE  MInv'
<1> DEFINE c == Top(p).c
           env == proc[p].env
<1>1. /\ At(p, "start") /\ Top(p).at = "start" /\ c.op \in {"seq", "nz", "z"}
      /\ proc' = [proc EXCEPT ![p] = Call(proc[p], "second", c.cmd1)]
      /\ UNCHANGED <<line, lines, before>>
  BY AtPlace DEF First
<1>2. c \in Commands /\ env \in Envs /\ "second" \in Calling /\ c.op \in Pairs
  BY <1>1, AtMeans DEF Calling, Pairs
<1>3. c.cmd1 \in Commands
  BY <1>2, Parsed
<1>4. Meaning[c][env] = Paired(c.op, Meaning[c.cmd1], Meaning[c.cmd2], env)
  BY <1>2, MeaningOf
<1>5. Here(Top(p), env, proc[p].ret) = Meaning[c][env]
  BY <1>1 DEF Here, Calling
<1>6. ASSUME NEW f, f.c = c, f.at = "second"
      PROVE  After(f, Meaning[c.cmd1][env]) = Meaning[c][env]
  <2> DEFINE F == Meaning[c.cmd1]
             G == Meaning[c.cmd2]
  <2>1. After(f, F[env]) = IF GoesOn(c.op, F[env].ret) THEN G[F[env].env] ELSE F[env]
    BY <1>6 DEF After
  <2> HIDE DEF F, G
  <2>2. Paired(c.op, F, G, env) = IF GoesOn(c.op, F[env].ret) THEN G[F[env].env] ELSE F[env]
    BY <1>1 DEF Paired, GoesOn
  <2> QED
    BY <1>4, <2>1, <2>2 DEF F, G
<1> QED
  BY <1>1, <1>2, <1>3, <1>5, <1>6, CallMeans

LEMMA SecondMeans ==
  ASSUME IInv, MInv, NEW p \in Pids, Second(p)
  PROVE  MInv'
<1> DEFINE c == Top(p).c
           pr == proc[p]
<1>1. /\ At(p, "second") /\ Top(p).at = "second" /\ IsProc(pr) /\ pr.kind = "shell"
      /\ UNCHANGED <<line, lines, before>>
  BY AtPlace DEF Second
<1>2. /\ c \in Commands /\ pr.env \in Envs /\ "last" \in Calling
      /\ c.op \in {"seq", "nz", "z"} /\ c.op \in Pairs
  BY <1>1, AtMeans DEF Calling, Pairs, Sound
<1>3. c.cmd2 \in Commands
  BY <1>2, Parsed
<1>4. Here(Top(p), pr.env, pr.ret) = IF GoesOn(c.op, pr.ret) THEN Meaning[c.cmd2][pr.env]
                                     ELSE Came(pr.ret, pr.env)
  <2>1. Came(pr.ret, pr.env).ret = pr.ret /\ Came(pr.ret, pr.env).env = pr.env
    BY DEF Came
  <2> QED
    BY <1>1, <2>1 DEF Here, After, Calling
<1>5. CASE GoesOn(c.op, pr.ret)
  <2>1. proc' = [proc EXCEPT ![p] = Call(pr, "last", c.cmd2)]
    BY <1>5 DEF Second
  <2>2. \A f : f.at = "last" => After(f, Meaning[c.cmd2][pr.env]) = Meaning[c.cmd2][pr.env]
    BY DEF After
  <2> QED
    BY <1>1, <1>2, <1>3, <1>4, <1>5, <2>1, <2>2, CallMeans
<1>6. CASE ~GoesOn(c.op, pr.ret)
  <2>1. proc' = [proc EXCEPT ![p] = Returned(p, pr, pr.ret)]
    BY <1>6 DEF Second
  <2> QED
    BY <1>1, <1>2, <1>4, <1>6, <2>1, ReturnMeans
<1> QED
  BY <1>5, <1>6

LEMMA ThirdMeans ==
  ASSUME IInv, MInv, NEW p \in Pids, Third(p)
  PROVE  MInv'
<1> DEFINE pr == proc[p]
<1>1. /\ At(p, "last") /\ Top(p).at = "last" /\ IsProc(pr) /\ pr.kind = "shell"
      /\ UNCHANGED <<line, lines, before>>
      /\ proc' = [proc EXCEPT ![p] = Returned(p, pr, pr.ret)]
  BY AtPlace DEF Third
<1>2. pr.env \in Envs
  BY <1>1, AtMeans
<1>3. Here(Top(p), pr.env, pr.ret) = Came(pr.ret, pr.env)
  BY <1>1 DEF Here, After, Calling
<1> QED
  BY <1>1, <1>2, <1>3, ReturnMeans

WithKid(g, q) == [g EXCEPT !.kids = Append(g.kids, q)]
WithStack(pr, s) == [pr EXCEPT !.stack = s]

LEMMA KidFrame ==
  ASSUME NEW g, IsFrame(g), NEW q, NEW f, f = WithKid(g, q)
  PROVE  f.c = g.c /\ f.at = g.at /\ f.kids = Append(g.kids, q)
<1>1. f = [c |-> g.c, at |-> g.at, kids |-> Append(g.kids, q), pipe |-> g.pipe]
  BY DEF WithKid, IsFrame
<1> QED
  BY <1>1

LEMMA StackFields ==
  ASSUME NEW pr, IsProc(pr), NEW s, NEW new, new = WithStack(pr, s)
  PROVE  new.kind = pr.kind /\ new.stack = s /\ new.ret = pr.ret /\ new.env = pr.env
<1>1. new = [kind |-> pr.kind, stack |-> s, ret |-> pr.ret, in |-> pr.in,
             out |-> pr.out, held |-> pr.held, env |-> pr.env, reads |-> pr.reads,
             writes |-> pr.writes]
  BY DEF IsProc, WithStack
<1> QED
  BY <1>1

LEMMA ChildFields ==
  ASSUME NEW pr, IsProc(pr), NEW s, NEW in, NEW out, NEW held,
         NEW child, child = WithEnds(WithStack(pr, s), in, out, held)
  PROVE  child.kind = pr.kind /\ child.stack = s /\ child.env = pr.env
<1>1. child = [kind |-> pr.kind, stack |-> s, ret |-> pr.ret, in |-> in, out |-> out,
               held |-> held, env |-> pr.env, reads |-> pr.reads, writes |-> pr.writes]
  BY DEF IsProc, WithStack, WithEnds
<1> QED
  BY <1>1

\* A process forks: it goes on in the same command, and the last child it
\* forks for it owes the status that decides.
LEMMA ForkMeans ==
  ASSUME IInv, MInv, NEW p \in Pids, NEW place \in {"start", "fork2"}, At(p, place),
         NEW child, NEW g, NEW h, Fork(p, child, WithHeld(WithTop(proc[p], g), h)),
         IsFrame(g), IsSeq(g.kids), g.at \in {"fork2", "wait1", "wait2"},
         g.c = Top(p).c, Sound(g), Fresh(child),
         g.at # "fork2" => Owes(child, Status(g.c, proc[p].env)),
         UNCHANGED <<line, lines, before>>
  PROVE  MInv'
<1> DEFINE pr == proc[p]
           s == pr.stack
<1>1. /\ IsProc(pr) /\ pr.kind = "shell" /\ StackOK(s)
      /\ Top(p) = Last(s) /\ Top(p).at = place
  BY AtPlace
<1>2. pr.env \in Envs
  BY AtMeans
<1>3. PICK parent : parent = WithHeld(WithTop(pr, g), h)
  OBVIOUS
<1>4. /\ IsProc(parent) /\ parent.kind = "shell" /\ Front(parent.stack) = Front(s)
      /\ Last(parent.stack) = g /\ parent.ret = pr.ret /\ parent.env = pr.env
  <2> HIDE DEF pr
  <2> QED
    BY <1>1, <1>3, ParentTop DEF s
<1> DEFINE free(r) == proc[r].kind = "free"
           k == CHOOSE r \in Pids : free(r)
<1>5. k \in Pids /\ proc[k].kind = "free"
  <2>1. \E r \in Pids : free(r)
    BY DEF Fork
  <2> HIDE DEF free
  <2>2. k \in Pids /\ free(k)
    BY <2>1, Zenon
  <2> QED
    BY <2>2 DEF free
<1>6. proc' = [proc EXCEPT ![k] = child,
                           ![p] = WithTop(parent, [Last(parent.stack) EXCEPT !.kids = Append(@, k)])]
  BY <1>3 DEF Fork
<1> HIDE DEF k
<1>7. PICK q : q = k
  OBVIOUS
<1>8. PICK f : f = WithKid(g, q)
  OBVIOUS
<1>9. f.c = g.c /\ f.at = g.at /\ f.kids = Append(g.kids, q)
  BY <1>8, KidFrame
<1>10. Last(f.kids) = q
  BY <1>9, AppendSeq
<1>11. PICK new : new = WithStack(parent, Append(Front(s), f))
  OBVIOUS
<1>12. /\ new.kind = "shell" /\ new.stack = Append(Front(s), f) /\ new.ret = pr.ret
       /\ new.env = pr.env
  <2>1. PICK u : u = Append(Front(s), f)
    OBVIOUS
  <2>2. new = WithStack(parent, u)
    BY <1>11, <2>1
  <2>3. new.kind = parent.kind /\ new.stack = u /\ new.ret = parent.ret /\ new.env = parent.env
    BY <1>4, <2>2, StackFields
  <2> QED
    BY <1>4, <2>1, <2>3
<1>13. /\ proc'[p] = new /\ proc'[q] = child /\ q \in Pids /\ proc[q].kind = "free" /\ q # p
       /\ \A r \in Pids \ {p, q} : proc'[r] = proc[r]
  <2>1. WithTop(parent, [Last(parent.stack) EXCEPT !.kids = Append(@, k)]) = new
    BY <1>4, <1>7, <1>8, <1>11 DEF WithTop, WithKid, WithStack
  <2>2. proc' = [proc EXCEPT ![q] = child, ![p] = new]
    BY <1>6, <1>7, <2>1
  <2>3. q \in Pids /\ proc[q].kind = "free" /\ q # p
    BY <1>1, <1>5, <1>7
  <2> QED
    BY <2>2, <2>3 DEF IInv
<1>14. Last(new.stack) = f
  <2>1. IsSeq(s) /\ Len(s) >= 1
    BY <1>1, TopFrame
  <2> QED
    BY <1>12, <2>1, TopPut
<1>15. ASSUME NEW t, Comes(s, pr.env, pr.ret, t) PROVE Goes(p, new, t)
  <2>1. Here(f, pr.env, pr.ret) = Here(Last(s), pr.env, pr.ret)
    BY <1>1, <1>9 DEF Here, Calling
  <2>2. Sound(f)
    BY <1>9 DEF Sound
  <2>3. Comes(Append(Front(s), f), pr.env, pr.ret, t)
    <3> HIDE DEF pr, s
    <3> QED
      BY <1>1, <1>2, <1>15, <2>1, <2>2, ComesPut
  <2> QED
    BY <1>12, <2>3 DEF Goes
<1>16. PICK P, Q : P = proc /\ Q = proc'
  OBVIOUS
<1>17. Owed(Q, p)
  <2> SUFFICES ASSUME Waits(new) PROVE Owes(child, Status(f.c, pr.env))
    BY <1>10, <1>12, <1>13, <1>14, <1>16 DEF Owed, LastKid
  <2>1. f.at \in {"wait1", "wait2"}
    BY <1>14 DEF Waits
  <2> QED
    BY <1>9, <2>1
<1>18. Elsewhere(P, Q, p)
  BY <1>13, <1>16 DEF Elsewhere
<1>19. \A t : Comes(P[p].stack, P[p].env, P[p].ret, t) => Goes(p, Q[p], t)
  BY <1>13, <1>15, <1>16
<1>20. P[p].kind = "shell"
  BY <1>1, <1>16
<1> QED
  BY <1>16, <1>17, <1>18, <1>19, <1>20, ShellMeans

LEMMA ExecMeans ==
  ASSUME IInv, MInv, NEW p \in Pids, Exec(p)
  PROVE  MInv'
<1>1. /\ At(p, "start") /\ Top(p).c.op = "prog" /\ UNCHANGED <<line, lines, before>>
  BY DEF Exec
<1>2. PICK child, g :
        /\ IsProc(child) /\ child.kind = "prog" /\ child.ret = Top(p).c.status
        /\ IsFrame(g) /\ g.at = "wait2" /\ g.c = Top(p).c /\ IsSeq(g.kids)
        /\ Fork(p, child, WithHeld(WithTop(proc[p], g), proc[p].held))
  BY ExecForks
<1>3. Sound(g)
  BY <1>1, <1>2, AtMeans DEF Sound, Calling
<1>4. Fresh(child) /\ Owes(child, Status(g.c, proc[p].env))
  BY <1>1, <1>2 DEF Fresh, Owes, Status
<1> QED
  BY <1>1, <1>2, <1>3, <1>4, ForkMeans

\* A child owes what the command it is to run means.
LEMMA ChildMeans ==
  ASSUME NEW child, NEW c \in Commands, NEW env \in Envs,
         child.kind = "shell", child.stack = <<Frame(c)>>, child.env = env
  PROVE  Fresh(child) /\ Owes(child, Exited(Meaning[c][env].ret))
<1>1. Comes(child.stack, child.env, child.ret, Meaning[c][env])
  BY ComesNew
<1>2. ~Waits(child)
  <2>1. Last(child.stack) = Frame(c) /\ Frame(c).at = "start"
    BY NewFrame
  <2> QED
    BY <2>1 DEF Waits
<1> QED
  BY <1>1, <1>2 DEF Fresh, Owes, Means

LEMMA Fork1Means ==
  ASSUME IInv, MInv, NumbersAssumption, NEW p \in Pids, Fork1(p)
  PROVE  MInv'
<1> DEFINE c == Top(p).c
<1>1. /\ At(p, "start") /\ c.op \in {"par", "pipe"} /\ UNCHANGED <<line, lines, before>>
  BY DEF Fork1
<1>2. c \in Commands /\ proc[p].env \in Envs /\ c.op \in Pairs
      /\ proc[p].kind = "shell" /\ IsProc(proc[p])
  BY <1>1, AtMeans, AtPlace DEF Pairs
<1>3. c.cmd1 \in Commands
  BY <1>2, Parsed
<1>4. PICK g, h, in, out, held :
        /\ IsFrame(g) /\ g.at = "fork2" /\ g.c = c /\ IsSeq(g.kids)
        /\ out # 0 => <<out, "r">> \in held
        /\ Fork(p, WithEnds(Child(p, c.cmd1), in, out, held), WithHeld(WithTop(proc[p], g), h))
  BY Fork1Forks
<1>5. PICK child : child = WithEnds(Child(p, c.cmd1), in, out, held)
  OBVIOUS
<1>6. child.kind = "shell" /\ child.stack = <<Frame(c.cmd1)>> /\ child.env = proc[p].env
  <2>1. PICK u : u = <<Frame(c.cmd1)>>
    OBVIOUS
  <2>2. child = WithEnds(WithStack(proc[p], u), in, out, held)
    BY <1>5, <2>1 DEF Child, WithStack
  <2> QED
    BY <1>2, <2>1, <2>2, ChildFields
<1>7. Fresh(child)
  BY <1>2, <1>3, <1>6, ChildMeans
<1>8. Sound(g)
  BY <1>1, <1>2, <1>4 DEF Sound, Calling
<1>9. Fork(p, child, WithHeld(WithTop(proc[p], g), h))
  BY <1>4, <1>5
<1> QED
  BY <1>1, <1>4, <1>7, <1>8, <1>9, ForkMeans

LEMMA Fork2Means ==
  ASSUME IInv, MInv, NEW p \in Pids, Fork2(p)
  PROVE  MInv'
<1> DEFINE c == Top(p).c
<1>1. /\ At(p, "fork2") /\ Top(p).at = "fork2" /\ UNCHANGED <<line, lines, before>>
  BY AtPlace DEF Fork2
<1>2. /\ c \in Commands /\ proc[p].env \in Envs /\ c.op \in {"par", "pipe"} /\ c.op \in Pairs
      /\ proc[p].kind = "shell" /\ IsProc(proc[p])
  BY <1>1, AtMeans, AtPlace DEF Pairs, Sound
<1>3. c.cmd2 \in Commands
  BY <1>2, Parsed
<1>4. PICK g, h, in, out, held :
        /\ IsFrame(g) /\ g.at = "wait1" /\ g.c = c /\ IsSeq(g.kids)
        /\ out # 0 => <<out, "r">> \in held
        /\ Fork(p, WithEnds(Child(p, c.cmd2), in, out, held), WithHeld(WithTop(proc[p], g), h))
  BY Fork2Forks
<1>5. PICK child : child = WithEnds(Child(p, c.cmd2), in, out, held)
  OBVIOUS
<1>6. child.kind = "shell" /\ child.stack = <<Frame(c.cmd2)>> /\ child.env = proc[p].env
  <2>1. PICK u : u = <<Frame(c.cmd2)>>
    OBVIOUS
  <2>2. child = WithEnds(WithStack(proc[p], u), in, out, held)
    BY <1>5, <2>1 DEF Child, WithStack
  <2> QED
    BY <1>2, <2>1, <2>2, ChildFields
<1>7. Fresh(child) /\ Owes(child, Status(g.c, proc[p].env))
  <2>1. Fresh(child) /\ Owes(child, Exited(Meaning[c.cmd2][proc[p].env].ret))
    BY <1>2, <1>3, <1>6, ChildMeans
  <2> QED
    BY <1>2, <1>4, <2>1 DEF Status
<1>8. Sound(g)
  BY <1>1, <1>2, <1>4 DEF Sound, Calling
<1>9. Fork(p, child, WithHeld(WithTop(proc[p], g), h))
  BY <1>4, <1>5
<1> QED
  BY <1>1, <1>4, <1>7, <1>8, <1>9, ForkMeans

LEMMA Wait1Means ==
  ASSUME IInv, MInv, NEW p \in Pids, Wait1(p)
  PROVE  MInv'
<1> DEFINE pr == proc[p]
           s == pr.stack
<1>1. /\ At(p, "wait1") /\ Top(p).at = "wait1" /\ UNCHANGED <<line, lines, before>>
      /\ ProcOK(p, pr) /\ IsProc(pr) /\ pr.kind = "shell" /\ StackOK(s)
      /\ Top(p) = Last(s) /\ FrameOK(Top(p))
  BY AtPlace DEF Wait1
<1>2. pr.env \in Envs /\ Sound(Top(p))
  BY <1>1, AtMeans
<1>3. PICK q, g, new : q = Head(Top(p).kids) /\ g = Placed(Top(p), "wait2") /\ new = WithTop(pr, g)
  OBVIOUS
<1>4. Reap(p, q, new) /\ proc[q].kind = "zombie"
  BY <1>1, <1>3 DEF Wait1, Moved, Placed
<1>5. IsFrame(g) /\ g.c = Top(p).c /\ g.at = "wait2" /\ g.kids = Top(p).kids
  BY <1>1, <1>3, PlacedFrame DEF FrameOK
<1>6. FrameOK(g)
  BY <1>1, <1>5 DEF FrameOK, Calling
<1>7. /\ new.kind = "shell" /\ new.env = pr.env /\ new.ret = pr.ret
      /\ new.stack = Append(Front(s), g) /\ Last(new.stack) = g
  <2> HIDE DEF pr
  <2> QED
    BY <1>1, <1>3, <1>6, WithTopOK DEF s
<1>8. q = Top(p).kids[1] /\ LastKid(pr) = Top(p).kids[2] /\ q # LastKid(pr) /\ q \in Live(pr)
  <2> DEFINE top == Top(p)
  <2>1. IsSeq(top.kids) /\ Len(top.kids) = 2 /\ top.kids[1] # top.kids[2]
    BY <1>1 DEF FrameOK
  <2>2. PICK S : top.kids \in Seq(S)
    BY <2>1 DEF IsSeq
  <2>3. top.kids # <<>>
    BY <2>1
  <2>4. LastKid(pr) = Last(top.kids)
    BY <1>1 DEF LastKid
  <2>5. LiveOf(top) = {top.kids[i] : i \in 1 .. Len(top.kids)} /\ Live(pr) = LiveOf(top)
    BY <1>1 DEF LiveOf, Live
  <2>6. 1 \in 1 .. Len(top.kids)
    BY <2>1
  <2> HIDE DEF top, pr
  <2>7. Head(top.kids) = top.kids[1] /\ Last(top.kids) = top.kids[2]
    BY <2>1, <2>2, <2>3 DEF Last
  <2> QED
    BY <1>3, <2>1, <2>4, <2>5, <2>6, <2>7 DEF top
<1>9. /\ proc'[p] = new /\ proc'[q] = Free /\ q # p
      /\ \A r \in Pids \ {p, q} : proc'[r] = proc[r]
  <2>1. q \in Pids /\ q # p
    BY <1>1, <1>4, <1>8, KidsAlive
  <2>2. proc' = [proc EXCEPT ![q] = Free, ![p] = new]
    BY <1>4 DEF Reap
  <2> QED
    BY <2>1, <2>2 DEF IInv
<1>10. PICK P, Q : P = proc /\ Q = proc'
  OBVIOUS
<1>11. Owed(Q, p)
  <2> DEFINE k == LastKid(pr)
  <2>1. Waits(pr) /\ Owes(proc[k], Status(Top(p).c, pr.env))
    <3>1. Waits(pr)
      BY <1>1 DEF Waits
    <3> QED
      BY <1>1, <3>1 DEF MInv, Thread, Owed
  <2>2. k \in Pids /\ k # p
    <3>1. k \in Live(pr)
      BY <1>1, <2>1, LastLive
    <3>2. k \in Pids
      BY <3>1, KidsAlive
    <3>3. k # p
      <4>1. \E rank \in [Pids -> Nat] : \A a \in Pids : \A b \in Kids[a] : rank[a] < rank[b]
        BY DEF IInv, Forest
      <4>2. PICK rank \in [Pids -> Nat] : \A a \in Pids : \A b \in Kids[a] : rank[a] < rank[b]
        BY <4>1
      <4>3. Kids[p] = Live(pr)
        BY KidsAlive
      <4>4. rank[p] < rank[k] /\ rank[p] \in Nat
        BY <3>1, <4>2, <4>3
      <4> HIDE DEF k
      <4> QED
        BY <4>4
    <3> QED
      BY <3>2, <3>3
  <2>3. proc'[k] = proc[k]
    BY <1>8, <1>9, <2>2
  <2>4. LastKid(new) = k
    BY <1>1, <1>5, <1>7 DEF LastKid
  <2>5. Last(new.stack).c = Top(p).c
    BY <1>5, <1>7
  <2> HIDE DEF k
  <2> QED
    BY <1>7, <1>9, <1>10, <2>1, <2>3, <2>4, <2>5 DEF Owed
<1>12. Elsewhere(P, Q, p)
  <2>1. Free.kind = "free"
    BY DEF Free
  <2> QED
    BY <1>8, <1>9, <1>10, <2>1 DEF Elsewhere
<1>13. ASSUME NEW t, Comes(s, pr.env, pr.ret, t) PROVE Goes(p, new, t)
  <2>1. Here(g, pr.env, pr.ret) = Here(Last(s), pr.env, pr.ret)
    BY <1>1, <1>5 DEF Here, Calling
  <2>2. Sound(g)
    BY <1>1, <1>2, <1>5 DEF Sound, Calling
  <2>3. Comes(Append(Front(s), g), pr.env, pr.ret, t)
    <3> HIDE DEF pr, s
    <3> QED
      BY <1>1, <1>2, <1>13, <2>1, <2>2, ComesPut
  <2> QED
    BY <1>7, <2>3 DEF Goes
<1>14. /\ \A t : Comes(P[p].stack, P[p].env, P[p].ret, t) => Goes(p, Q[p], t)
       /\ P[p].kind = "shell"
  BY <1>1, <1>9, <1>10, <1>13
<1> QED
  BY <1>1, <1>10, <1>11, <1>12, <1>14, ShellMeans

LEMMA Wait2Means ==
  ASSUME IInv, MInv, NEW p \in Pids, Wait2(p)
  PROVE  MInv'
<1> DEFINE pr == proc[p]
           s == pr.stack
           c == Top(p).c
           env == pr.env
<1>1. /\ At(p, "wait2") /\ Top(p).at = "wait2" /\ UNCHANGED <<line, lines, before>>
      /\ ProcOK(p, pr) /\ IsProc(pr) /\ pr.kind = "shell" /\ StackOK(s)
      /\ Top(p) = Last(s) /\ FrameOK(Top(p))
  BY AtPlace DEF Wait2
<1>2. env \in Envs /\ c \in Commands /\ c.op \in {"par", "pipe", "prog"}
  BY <1>1, AtMeans DEF Sound
<1>3. PICK q, r : /\ q = Last(Top(p).kids)
                  /\ r = IF c.op = "prog" THEN proc[q].ret ELSE IF proc[q].ret = 0 THEN 0 ELSE 1
  OBVIOUS
<1>4. PICK new : new = Returned(p, pr, r)
  OBVIOUS
<1>5. Reap(p, q, new) /\ proc[q].kind = "zombie"
  BY <1>3, <1>4 DEF Wait2
<1>6. q = LastKid(pr) /\ Waits(pr)
  BY <1>1, <1>3 DEF LastKid, Waits
<1>7. q \in Live(pr)
  BY <1>1, <1>6, LastLive
<1>8. proc[q].ret = Status(c, env)
  <2>1. Owes(proc[q], Status(c, env))
    BY <1>1, <1>6 DEF MInv, Thread, Owed
  <2> QED
    BY <1>5, <2>1 DEF Owes
<1>9. Meaning[c][env] = Came(r, env)
  <2>1. CASE c.op = "prog"
    <3>1. Meaning[c][env] = Simple(c, env)
      BY <1>2, <2>1, MeaningOf DEF Pairs
    <3> QED
      BY <1>3, <1>8, <2>1, <3>1 DEF Simple, Status
  <2>2. CASE c.op \in {"par", "pipe"}
    <3>1. c.op \in Pairs /\ c.cmd2 \in Commands
      BY <1>2, <2>2, Parsed DEF Pairs
    <3>2. Meaning[c][env] = Paired(c.op, Meaning[c.cmd1], Meaning[c.cmd2], env)
      BY <1>2, <3>1, MeaningOf
    <3> DEFINE n == Meaning[c.cmd2][env].ret
    <3>3. n \in Int
      BY <1>2, <3>1, MeaningType DEF Typed
    <3>4. proc[q].ret = Exited(n)
      BY <1>8, <2>2 DEF Status
    <3>5. Meaning[c][env] = Came(IF n % 256 = 0 THEN 0 ELSE 1, env)
      BY <2>2, <3>2 DEF Paired
    <3> HIDE DEF n
    <3>6. (Exited(n) = 0) <=> (n % 256 = 0)
      BY <3>3 DEF Exited
    <3> QED
      BY <1>3, <2>2, <3>4, <3>5, <3>6
  <2> QED
    BY <1>2, <2>1, <2>2
<1>10. Here(Last(s), env, pr.ret) = Came(r, env)
  BY <1>1, <1>9 DEF Here, Calling
<1>11. /\ \A t : Comes(s, env, pr.ret, t) => Goes(p, new, t)
       /\ ~Waits(new)
  BY <1>1, <1>2, <1>4, <1>10, ReturnedGoes
<1>12. /\ proc'[p] = new /\ proc'[q] = Free /\ q # p
       /\ \A x \in Pids \ {p, q} : proc'[x] = proc[x]
  <2>1. q \in Pids /\ q # p
    BY <1>1, <1>5, <1>7, KidsAlive
  <2>2. proc' = [proc EXCEPT ![q] = Free, ![p] = new]
    BY <1>5 DEF Reap
  <2> QED
    BY <2>1, <2>2 DEF IInv
<1>13. PICK P, Q : P = proc /\ Q = proc'
  OBVIOUS
<1>14. Owed(Q, p)
  BY <1>11, <1>12, <1>13 DEF Owed
<1>15. Elsewhere(P, Q, p)
  <2>1. Free.kind = "free"
    BY DEF Free
  <2> QED
    BY <1>7, <1>12, <1>13, <2>1 DEF Elsewhere
<1>16. /\ \A t : Comes(P[p].stack, P[p].env, P[p].ret, t) => Goes(p, Q[p], t)
       /\ P[p].kind = "shell"
  BY <1>1, <1>11, <1>12, <1>13
<1> QED
  BY <1>1, <1>13, <1>14, <1>15, <1>16, ShellMeans

\* A program reads, writes or exits: what it will exit with stays the same.
LEMMA ProgMeans ==
  ASSUME IInv, MInv, NEW p \in Pids, p # 1, NEW new, new.kind # "shell",
         \A r : Owes(proc[p], r) => Owes(new, r),
         proc' = [proc EXCEPT ![p] = new],
         UNCHANGED <<line, lines, before>>
  PROVE  MInv'
<1>1. PICK P, Q : P = proc /\ Q = proc'
  OBVIOUS
<1>2. Q[p] = new /\ \A q \in Pids \ {p} : Q[q] = P[q]
  BY <1>1 DEF IInv
<1>3. Thread(Q, p) /\ Elsewhere(P, Q, p) /\ \A r : Owes(P[p], r) => Owes(Q[p], r)
  BY <1>1, <1>2 DEF Thread, Elsewhere
<1>4. \A q \in Pids : Thread(P, q)
  BY <1>1 DEF MInv
<1>5. \A q \in Pids : Thread(Q, q)
  BY <1>1, <1>3, <1>4, OthersThread
<1>6. Q[1] = P[1]
  <2>1. 1 \in Pids
    BY DEF IInv, Forest
  <2> QED
    BY <1>2, <2>1
<1> DEFINE t == Meaning[line][before]
<1>7. lines' = lines /\ Meaning[line'][before'] = t
  OBVIOUS
<1>8. lines \in Nat /\ First1(P[1], lines, t)
  BY <1>1 DEF MInv
<1> HIDE DEF t
<1> QED
  BY <1>1, <1>5, <1>6, <1>7, <1>8 DEF MInv

WithReads(pr, a) == [pr EXCEPT !.reads = a]
WithWrites(pr, b) == [pr EXCEPT !.writes = b]

LEMMA WorkSame ==
  ASSUME NEW pr, IsProc(pr), NEW a, NEW new, new \in {WithReads(pr, a), WithWrites(pr, a)}
  PROVE  new.kind = pr.kind /\ new.ret = pr.ret
<1>1. CASE new = WithReads(pr, a)
  <2>1. new = [kind |-> pr.kind, stack |-> pr.stack, ret |-> pr.ret, in |-> pr.in,
               out |-> pr.out, held |-> pr.held, env |-> pr.env, reads |-> a,
               writes |-> pr.writes]
    BY <1>1 DEF IsProc, WithReads
  <2> QED
    BY <2>1
<1>2. CASE new = WithWrites(pr, a)
  <2>1. new = [kind |-> pr.kind, stack |-> pr.stack, ret |-> pr.ret, in |-> pr.in,
               out |-> pr.out, held |-> pr.held, env |-> pr.env, reads |-> pr.reads,
               writes |-> a]
    BY <1>2 DEF IsProc, WithWrites
  <2> QED
    BY <2>1
<1> QED
  BY <1>1, <1>2

LEMMA WorkMeans ==
  ASSUME IInv, MInv, NEW p \in Pids, Read(p) \/ Write(p)
  PROVE  MInv'
<1> DEFINE pr == proc[p]
<1>1. /\ IsProc(pr) /\ pr.kind = "prog" /\ p # 1 /\ UNCHANGED <<line, lines, before>>
  BY DEF IInv, ProcOK, Read, Write
<1>2. \E a : \/ proc' = [proc EXCEPT ![p] = WithReads(pr, a)]
            \/ proc' = [proc EXCEPT ![p] = WithWrites(pr, a)]
  <2>1. CASE Read(p)
    BY <2>1 DEF Read, WithReads
  <2>2. CASE Write(p)
    BY <2>2 DEF Write, WithWrites
  <2> QED
    BY <2>1, <2>2
<1>3. PICK a, new : /\ new \in {WithReads(pr, a), WithWrites(pr, a)}
                    /\ proc' = [proc EXCEPT ![p] = new]
  BY <1>2
<1>4. new.kind = pr.kind /\ new.ret = pr.ret
  <2> HIDE DEF pr
  <2> QED
    BY <1>1, <1>3, WorkSame
<1>5. \A r : Owes(pr, r) => Owes(new, r)
  BY <1>1, <1>4 DEF Owes
<1>6. new.kind # "shell"
  BY <1>1, <1>4
<1> QED
  BY <1>1, <1>3, <1>5, <1>6, ProgMeans

LEMMA ExitMeans ==
  ASSUME IInv, MInv, NEW p \in Pids, Exit(p)
  PROVE  MInv'
<1> DEFINE pr == proc[p]
<1>1. pr.kind = "prog" /\ p # 1 /\ UNCHANGED <<line, lines, before>>
  BY DEF IInv, ProcOK, Exit
<1>2. PICK new : new = Ended(Exited(pr.ret))
  OBVIOUS
<1>3. proc' = [proc EXCEPT ![p] = new]
  BY <1>2 DEF Exit
<1>4. new.kind = "zombie" /\ new.ret = Exited(pr.ret)
  BY <1>2, EndedFields
<1>5. \A r : Owes(pr, r) => Owes(new, r)
  BY <1>1, <1>4 DEF Owes
<1>6. new.kind # "shell"
  BY <1>4
<1> QED
  BY <1>1, <1>3, <1>5, <1>6, ProgMeans

LEMMA TypeMeans ==
  ASSUME IInv, MInv, NumbersAssumption, NEW c \in Lines, Type(c)
  PROVE  MInv'
<1> DEFINE pr == proc[1]
<1>1. 1 \in Pids /\ ProcOK(1, pr) /\ IsProc(pr) /\ pr.kind = "prompt"
  BY DEF NumbersAssumption, IInv, Type, ProcOK
<1>2. c \in Commands
  BY CommandsAssumption
<1>3. pr.env \in Envs /\ lines \in Nat
  BY DEF MInv, First1
<1>4. PICK s : s = <<Frame(c)>>
  OBVIOUS
<1>5. PICK new : new = WithRun(pr, "shell", s, 0)
  OBVIOUS
<1>6. proc'[1] = new /\ \A q \in Pids \ {1} : proc'[q] = proc[q]
  <2>1. proc' = [proc EXCEPT ![1] = new]
    BY <1>1, <1>4, <1>5 DEF Type, IInv, WithRun
  <2> QED
    BY <1>1, <2>1 DEF IInv
<1>7. new.kind = "shell" /\ new.stack = s /\ new.env = pr.env
  <2> HIDE DEF pr
  <2> QED
    BY <1>1, <1>5, RunFields
<1>8. Comes(new.stack, new.env, new.ret, Meaning[c][pr.env]) /\ ~Waits(new) /\ Means(new)
  BY <1>2, <1>3, <1>4, <1>7, ComesNew, ChildMeans DEF Fresh, Means
<1>9. PICK P, Q : P = proc /\ Q = proc'
  OBVIOUS
<1>10. Thread(Q, 1) /\ Elsewhere(P, Q, 1)
  BY <1>6, <1>8, <1>9 DEF Thread, Owed, Elsewhere
<1>11. \A q \in Pids : Thread(P, q)
  BY <1>9 DEF MInv
<1>12. \A q \in Pids : Thread(Q, q)
  BY <1>1, <1>9, <1>10, <1>11, OthersThread
<1>13. lines' = lines + 1 /\ line' = c /\ before' = pr.env
  BY DEF Type
<1>14. First1(new, lines', Meaning[c][pr.env])
  BY <1>3, <1>7, <1>8 DEF First1
<1>15. lines' \in Nat
  BY <1>3, <1>13
<1>16. Meaning[line'][before'] = Meaning[c][pr.env] /\ Q[1] = new
  BY <1>6, <1>9, <1>13
<1> QED
  BY <1>9, <1>12, <1>14, <1>15, <1>16 DEF MInv

LEMMA MeansInductive == Spec => []MInv
<1>1. Init => MInv
  <2> SUFFICES ASSUME Init PROVE MInv
    OBVIOUS
  <2> DEFINE e == [n \in Names |-> ""]
  <2>1. e \in Envs
    <3>1. "" \in Strings
      BY CommandsAssumption
    <3> QED
      BY <3>1 DEF Envs
  <2>2. PICK shell : shell = FreeBut("prompt")
    OBVIOUS
  <2>3. shell.kind = "prompt" /\ shell.env = e
    BY <2>2, FreeFields
  <2>4. Free.kind = "free"
    BY DEF Free
  <2>5. proc = [p \in Pids |-> IF p = 1 THEN shell ELSE Free] /\ lines = 0
    BY <2>2 DEF Init, FreeBut
  <2> HIDE DEF e
  <2>6. \A p \in Pids : Thread(proc, p)
    BY <2>3, <2>4, <2>5 DEF Thread
  <2>7. proc[1] = shell
    BY <2>5, NumbersAssumption
  <2>8. First1(proc[1], lines, Meaning[line][before])
    BY <2>1, <2>3, <2>5, <2>7 DEF First1
  <2> QED
    BY <2>5, <2>6, <2>8 DEF MInv
<1>2. IInv /\ MInv /\ [Next]_vars => MInv'
  <2> SUFFICES ASSUME IInv, MInv, [Next]_vars PROVE MInv'
    OBVIOUS
  <2>1. ASSUME NEW c \in Lines, Type(c) PROVE MInv'
    BY <2>1, NumbersAssumption, TypeMeans
  <2>2. ASSUME NEW p \in Pids, Step(p) PROVE MInv'
    BY <2>2, NumbersAssumption, BuiltinMeans, ExecMeans, FirstMeans, SecondMeans, ThirdMeans,
       Fork1Means, Fork2Means, Wait1Means, Wait2Means, WorkMeans, ExitMeans DEF Step
  <2>3. CASE UNCHANGED vars
    BY <2>3 DEF vars, MInv
  <2> QED
    BY <2>1, <2>2, <2>3 DEF Next
<1> QED
  BY <1>1, <1>2, Inductive, PTL DEF Spec

(***************************************************************************)
(* Whatever the order in which children run, read, write and end, a line   *)
(* comes back with what its tree means, leaves the variables and the       *)
(* directory so, and the shell is left only by an exit outside of pipes    *)
(* and parallel runs: for all finite trees that parse_line can make.       *)
(***************************************************************************)
THEOREM ResultTheorem == Spec => []Result
<1>1. MInv => Result
  BY DEF MInv, First1, Result, AtRest
<1> QED
  BY <1>1, MeansInductive, PTL
=============================================================================
