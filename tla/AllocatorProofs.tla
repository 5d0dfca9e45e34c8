-------------------------- MODULE AllocatorProofs --------------------------
(***************************************************************************)
(* Theorems about Allocator.tla, for any sizes of a block, a header, a     *)
(* page and the threshold that SizesAssumption admits, any requests and    *)
(* any number of calls.                                                    *)
(***************************************************************************)
EXTENDS Allocator, FiniteSetTheorems, TLAPS

Headers ==
    [size : Nat, status : {"FREE", "ALLOC", "MAPPED"}, prev : Int, next : Int]

\* Memory with headers at addresses.
Typed(mem) ==
    /\ IsFiniteSet(DOMAIN mem) /\ DOMAIN mem \subseteq Nat
    /\ mem \in [DOMAIN mem -> Headers]

\* s is the list that begins at start, read both ways.
Chained(mem, start, s) ==
    /\ s \in Seq(DOMAIN mem)
    /\ start = IF Len(s) = 0 THEN NULL ELSE s[1]
    /\ \A k \in 1 .. Len(s) :
          /\ mem[s[k]].prev = IF k = 1 THEN NULL ELSE s[k - 1]
          /\ mem[s[k]].next = IF k = Len(s) THEN NULL ELSE s[k + 1]

Distinct(s) == \A j, k \in 1 .. Len(s) : s[j] = s[k] => j = k

\* A set of positive integers up to n has a least element, if it has any.
LEMMA LeastElement ==
  ASSUME NEW n \in Nat, NEW S \in SUBSET (1 .. n), S # {}
  PROVE  \E i \in S : \A j \in S : i <= j
<1> DEFINE T == {1 .. i : i \in S}
<1>1. T # {} /\ T \subseteq FiniteSubsetsOf(1 .. n)
  <2>1. \A i \in S : 1 .. i \subseteq 1 .. n /\ IsFiniteSet(1 .. i)
    BY FS_Interval
  <2> QED
    BY <2>1 DEF FiniteSubsetsOf
<1>2. IsWellFoundedOn(StrictSubsetOrdering(1 .. n), FiniteSubsetsOf(1 .. n))
  BY FS_StrictSubsetOrderingWellFounded
<1>3. \E x \in T : \A y \in T : <<y, x>> \notin StrictSubsetOrdering(1 .. n)
  <2> HIDE DEF T
  <2> QED
    BY <1>1, <1>2, WFMin
<1>4. PICK i \in S :
        \A j \in S : <<1 .. j, 1 .. i>> \notin StrictSubsetOrdering(1 .. n)
  BY <1>3
<1>5. ASSUME NEW j \in S, j < i PROVE FALSE
  <2>1. 1 .. j \subseteq 1 .. i /\ 1 .. i # 1 .. j
    <3>1. i \in 1 .. i /\ i \notin 1 .. j
      BY <1>5
    <3>2. \A k \in 1 .. j : k \in 1 .. i
      BY <1>5
    <3> QED
      BY <3>1, <3>2
  <2>2. 1 .. j \subseteq 1 .. n /\ 1 .. i \subseteq 1 .. n
    OBVIOUS
  <2> QED
    BY <1>4, <2>1, <2>2 DEF StrictSubsetOrdering
<1> QED
  BY <1>5

-----------------------------------------------------------------------------
(* The list.                                                               *)

\* f has the first blocks of the list, by their number.
Further(mem, start, s) ==
    LET a == IF s = <<>> THEN start ELSE mem[s[Len(s)]].next
    IN  IF a = NULL THEN s ELSE Append(s, a)
Firsts(mem, start, all, f) ==
    f = [k \in 0 .. all |-> IF k = 0 THEN <<>> ELSE Further(mem, start, f[k - 1])]

\* Two solutions agree.
LEMMA FirstsAgree ==
  ASSUME NEW mem, NEW start, NEW n \in Nat, NEW f, NEW g,
         Firsts(mem, start, n, f), Firsts(mem, start, n, g)
  PROVE  f[n] = g[n]
<1> DEFINE Bad == {k \in 1 .. n : f[k] # g[k]}
<1>1. f[0] = g[0]
  BY DEF Firsts
<1>2. SUFFICES ASSUME Bad # {} PROVE FALSE
  BY <1>1
<1>3. Bad \in SUBSET (1 .. n)
  OBVIOUS
<1> HIDE DEF Bad
<1>4. PICK k \in Bad : \A j \in Bad : k <= j
  BY <1>2, <1>3, LeastElement
<1>5. k \in 1 .. n /\ f[k] # g[k] /\ k - 1 \notin Bad
  BY <1>3, <1>4 DEF Bad
<1>6. f[k - 1] = g[k - 1]
  BY <1>1, <1>5 DEF Bad
<1>7. k \in 0 .. n /\ k # 0
  BY <1>5
<1> QED
  BY <1>5, <1>6, <1>7 DEF Firsts

\* The first k blocks of s.
Part(s, k) == [j \in 1 .. k |-> s[j]]

LEMMA PartNext ==
  ASSUME NEW S, NEW s \in Seq(S), NEW k \in 1 .. Len(s)
  PROVE  /\ Part(s, k) = Append(Part(s, k - 1), s[k])
         /\ Part(s, k) \in Seq(S) /\ Len(Part(s, k)) = k
<1>1. Part(s, k) \in Seq(S) /\ Len(Part(s, k)) = k
  BY DEF Part
<1>2. Part(s, k - 1) \in Seq(S) /\ Len(Part(s, k - 1)) = k - 1
  BY DEF Part
<1>3. \A j \in 1 .. k : Append(Part(s, k - 1), s[k])[j] = s[j]
  BY <1>2 DEF Part
<1>4. /\ Append(Part(s, k - 1), s[k]) \in Seq(S)
      /\ Len(Append(Part(s, k - 1), s[k])) = k
  BY <1>2
<1>5. \A j \in 1 .. k : Part(s, k)[j] = s[j]
  BY DEF Part
<1> QED
  BY <1>1, <1>3, <1>4, <1>5

\* A list without repetitions is what Blocks finds.
LEMMA BlocksOf ==
  ASSUME NEW mem, NEW start, NEW s, Typed(mem), Chained(mem, start, s), Distinct(s)
  PROVE  Blocks(mem, start) = s
<1> DEFINE n == Cardinality(DOMAIN mem)
           S == DOMAIN mem
           m(k) == IF k <= Len(s) THEN k ELSE Len(s)
           g == [k \in 0 .. n |-> Part(s, m(k))]
<1>1. n \in Nat
  BY FS_CardinalityType DEF Typed
<1>2. s \in Seq(S) /\ Len(s) \in Nat
  BY DEF Chained
<1>3. Len(s) <= n
  <2>1. s \in Injection(1 .. Len(s), S)
    <3>1. s \in [1 .. Len(s) -> S] /\ DOMAIN s = 1 .. Len(s)
      BY <1>2
    <3>2. IsInjective(s)
      BY <3>1, Zenon DEF Distinct, IsInjective
    <3> QED
      BY <3>1, <3>2 DEF Injection
  <2>2. Cardinality(1 .. Len(s)) = Len(s)
    <3>1. Cardinality(1 .. Len(s)) = IF 1 > Len(s) THEN 0 ELSE Len(s) - 1 + 1
      BY <1>2, FS_Interval
    <3> QED
      BY <1>2, <3>1
  <2> QED
    <3>1. IsFiniteSet(S)
      BY DEF Typed
    <3>2. Cardinality(1 .. Len(s)) <= Cardinality(S)
      <4> HIDE DEF S
      <4> QED
        BY <2>1, <3>1, FS_Injection
    <3> QED
      BY <2>2, <3>2
<1>4. Firsts(mem, start, n, g)
  <2>1. ASSUME NEW k \in 0 .. n
        PROVE  g[k] = IF k = 0 THEN <<>> ELSE Further(mem, start, g[k - 1])
    <3>1. CASE k = 0
      BY <3>1, <1>2 DEF Part
    <3>2. CASE k \in 1 .. Len(s)
      <4>1. g[k] = Part(s, k) /\ g[k - 1] = Part(s, k - 1) /\ k # 0
        BY <1>1, <1>2, <3>2
      <4>2. Part(s, k) = Append(Part(s, k - 1), s[k])
        BY <1>2, <3>2, PartNext
      <4>3. s[k] \in Nat /\ s[k] # NULL
        BY <1>2, <3>2 DEF Typed, NULL
      <4>4. CASE k = 1
        <5>1. Part(s, k - 1) = <<>> /\ start = s[k]
          BY <1>2, <3>2, <4>4 DEF Part, Chained
        <5> QED
          BY <4>1, <4>2, <4>3, <5>1 DEF Further
      <4>5. CASE k # 1
        <5>1. /\ Len(Part(s, k - 1)) = k - 1 /\ Part(s, k - 1) \in Seq(S)
              /\ Part(s, k - 1)[k - 1] = s[k - 1]
          BY <1>2, <3>2, <4>5, PartNext DEF Part
        <5>2. mem[s[k - 1]].next = s[k]
          BY <1>2, <3>2, <4>5 DEF Chained
        <5>3. Part(s, k - 1) # <<>>
          BY <5>1, <3>2, <4>5
        <5> QED
          BY <4>1, <4>2, <4>3, <5>1, <5>2, <5>3 DEF Further
      <4> QED
        BY <4>4, <4>5
    <3>3. CASE k > Len(s)
      <4>1. g[k] = Part(s, Len(s)) /\ g[k - 1] = Part(s, Len(s)) /\ k # 0
        BY <1>1, <1>2, <3>3
      <4>2. CASE Len(s) = 0
        <5>1. Part(s, Len(s)) = <<>> /\ start = NULL
          BY <4>2 DEF Part, Chained
        <5> QED
          BY <4>1, <5>1 DEF Further
      <4>3. CASE Len(s) # 0
        <5>1. Len(s) \in 1 .. Len(s)
          BY <1>2, <4>3
        <5>2. /\ Len(Part(s, Len(s))) = Len(s) /\ Part(s, Len(s)) \in Seq(S)
              /\ Part(s, Len(s))[Len(s)] = s[Len(s)]
          BY <1>2, <5>1, PartNext DEF Part
        <5>3. mem[s[Len(s)]].next = NULL
          BY <5>1 DEF Chained
        <5>4. Part(s, Len(s)) # <<>>
          BY <5>2, <4>3
        <5> QED
          BY <4>1, <5>2, <5>3, <5>4 DEF Further
      <4> QED
        BY <4>2, <4>3
    <3> QED
      BY <1>2, <3>1, <3>2, <3>3
  <2>2. g = [k \in 0 .. n |-> g[k]]
    OBVIOUS
  <2> HIDE DEF g, n
  <2> QED
    BY <2>1, <2>2 DEF Firsts
<1>5. g[n] = s
  <2>1. g[n] = Part(s, Len(s))
    BY <1>1, <1>2, <1>3
  <2>2. Part(s, Len(s)) \in Seq(S) /\ Len(Part(s, Len(s))) = Len(s)
    BY <1>2 DEF Part
  <2>3. \A j \in 1 .. Len(s) : Part(s, Len(s))[j] = s[j]
    BY DEF Part
  <2> QED
    BY <1>2, <2>1, <2>2, <2>3
<1> DEFINE f == CHOOSE q : Firsts(mem, start, n, q)
<1>6. Blocks(mem, start) = f[n]
  BY DEF Blocks, Firsts, Further
<1>7. Firsts(mem, start, n, f)
  BY <1>4
<1> HIDE DEF f, g, n
<1> QED
  BY <1>1, <1>4, <1>5, <1>6, <1>7, FirstsAgree

-----------------------------------------------------------------------------
(* Where the blocks are.                                                   *)

End(mem, a) == a + METADATA_SIZE + mem[a].size
Limit(brk, top, a) == IF a < Wrap THEN brk ELSE top
Alike(a, b) == (a < Wrap /\ b < Wrap) \/ (a >= Wrap /\ b >= Wrap)

\* What is left of the first MMAP_THRESHOLD is in use and held by nobody; its
\* size is not that of memory.
Used(mem, own, a) == mem[a].status = "FREE" \/ a \in DOMAIN own \/ a >= Wrap

\* Headers in the heap come in order, and so do mappings; those that are used
\* end before the next one.
Placed(mem, own, brk, top, s) ==
    /\ \A k \in 1 .. Len(s) :
          /\ s[k] + METADATA_SIZE <= Limit(brk, top, s[k])
          /\ Used(mem, own, s[k]) => End(mem, s[k]) <= Limit(brk, top, s[k])
          /\ mem[s[k]].status = "MAPPED" <=> s[k] >= Wrap
    /\ \A j, k \in 1 .. Len(s) : (j < k /\ Alike(s[j], s[k])) =>
          /\ s[j] + METADATA_SIZE <= s[k]
          /\ Used(mem, own, s[j]) => End(mem, s[j]) <= s[k]

\* What the program holds is in the list, in use, and has the size asked for.
Owned(mem, own, s) ==
    \A a \in DOMAIN own : /\ \E k \in 1 .. Len(s) : s[k] = a
                          /\ mem[a].status # "FREE" /\ own[a] <= mem[a].size

\* The heap ends below the mappings.
Good(mem, start, own, brk, top, s) ==
    /\ Typed(mem) /\ Chained(mem, start, s)
    /\ Placed(mem, own, brk, top, s) /\ Owned(mem, own, s)

LEMMA Numbers ==
    /\ METADATA_SIZE \in Nat \ {0} /\ MMAP_THRESHOLD \in Nat /\ Wrap \in Nat
    /\ PageSize \in Nat /\ PageSize <= MMAP_THRESHOLD /\ MMAP_THRESHOLD < Wrap
    /\ 40 \div ALIGNMENT \in Int /\ METADATA_SIZE <= 40 \div ALIGNMENT
<1>1. 40 \div ALIGNMENT \in Int /\ ALIGNMENT \in Nat \ {0}
  BY SizesAssumption
<1> QED
  BY <1>1, SizesAssumption

LEMMA Padded ==
  ASSUME NEW bytes \in Requests
  PROVE  PADDING(bytes) \in Nat
<1>1. bytes \in Nat /\ ALIGNMENT \in Nat \ {0}
  BY SizesAssumption
<1>2. bytes + ALIGNMENT - 1 \in Nat
  BY <1>1
<1> QED
  BY <1>1, <1>2 DEF PADDING

\* Addresses and headers of the list.
LEMMA InList ==
  ASSUME NEW mem, NEW start, NEW s, Typed(mem), Chained(mem, start, s)
  PROVE  /\ Len(s) \in Nat
         /\ \A k \in 1 .. Len(s) :
               /\ s[k] \in DOMAIN mem /\ s[k] \in Nat /\ s[k] # NULL
               /\ mem[s[k]] \in Headers /\ mem[s[k]].size \in Nat
<1>1. s \in Seq(DOMAIN mem) /\ Len(s) \in Nat
  BY DEF Chained
<1>2. ASSUME NEW k \in 1 .. Len(s)
      PROVE  /\ s[k] \in DOMAIN mem /\ s[k] \in Nat /\ s[k] # NULL
             /\ mem[s[k]] \in Headers /\ mem[s[k]].size \in Nat
  <2>1. s[k] \in DOMAIN mem
    BY <1>1
  <2>2. mem[s[k]] \in Headers
    BY <2>1 DEF Typed
  <2> QED
    BY <2>1, <2>2 DEF Typed, Headers, NULL
<1> QED
  BY <1>1, <1>2

\* No block is in the list twice.
LEMMA PlacedDistinct ==
  ASSUME NEW mem, NEW start, NEW own, NEW brk, NEW top, NEW s,
         Good(mem, start, own, brk, top, s)
  PROVE  Distinct(s)
<1>1. /\ Len(s) \in Nat
      /\ \A k \in 1 .. Len(s) : s[k] \in Nat
  BY InList DEF Good
<1>2. ASSUME NEW j \in 1 .. Len(s), NEW k \in 1 .. Len(s), j < k PROVE s[j] # s[k]
  <2>1. s[j] \in Nat /\ s[k] \in Nat
    BY <1>1
  <2>2. s[j] = s[k] => Alike(s[j], s[k])
    BY <2>1, Numbers DEF Alike
  <2>3. Alike(s[j], s[k]) => s[j] + METADATA_SIZE <= s[k]
    BY <1>2 DEF Good, Placed
  <2> QED
    BY <2>1, <2>2, <2>3, Numbers
<1> QED
  BY <1>1, <1>2 DEF Distinct

LEMMA GoodBlocks ==
  ASSUME NEW mem, NEW start, NEW own, NEW brk, NEW top, NEW s,
         Good(mem, start, own, brk, top, s)
  PROVE  Blocks(mem, start) = s
  BY PlacedDistinct, BlocksOf DEF Good

-----------------------------------------------------------------------------
(* Joining two blocks.                                                     *)

Removed(s, i) == [j \in 1 .. Len(s) - 1 |-> IF j < i THEN s[j] ELSE s[j + 1]]

\* What Join changes of free blocks a and temp, a the one before.
Joins(mem, mem2, a, temp) ==
    /\ Typed(mem2) /\ DOMAIN mem2 = DOMAIN mem
    /\ \A x \in DOMAIN mem :
          /\ mem2[x].status = mem[x].status
          /\ mem2[x].size = IF x = a THEN mem[a].size + mem[temp].size ELSE mem[x].size
          /\ mem2[x].next = IF x = a THEN mem[temp].next ELSE mem[x].next
          /\ mem2[x].prev = IF x = mem[temp].next THEN a ELSE mem[x].prev

LEMMA JoinFields ==
  ASSUME NEW mem, Typed(mem), NEW a \in DOMAIN mem, NEW temp \in DOMAIN mem, a # temp,
         mem[temp].prev = a, mem[temp].next \in DOMAIN mem \cup {NULL},
         mem[temp].status = "FREE", mem[a].status = "FREE"
  PROVE  Joins(mem, Join(mem, temp), a, temp)
<1> DEFINE b == mem[temp]
           one == [mem EXCEPT ![a].size = @ + b.size, ![a].next = b.next]
           two == Join(mem, temp)
<1>1. mem \in [DOMAIN mem -> Headers] /\ mem[a] \in Headers /\ b \in Headers
  BY DEF Typed
<1>2. two = SetPrev(one, b.next, a)
  BY DEF Join
<1>3. /\ DOMAIN one = DOMAIN mem
      /\ one[a] = [size |-> mem[a].size + b.size, status |-> mem[a].status,
                   prev |-> mem[a].prev, next |-> b.next]
      /\ \A x \in DOMAIN mem \ {a} : one[x] = mem[x]
  BY <1>1 DEF Headers
<1>4. one \in [DOMAIN mem -> Headers]
  BY <1>1, <1>3 DEF Headers
<1> HIDE DEF one
<1>5. /\ DOMAIN two = DOMAIN mem
      /\ \A x \in DOMAIN mem :
           two[x] = IF x = b.next THEN [one[x] EXCEPT !.prev = a] ELSE one[x]
  <2>1. NULL \notin DOMAIN mem
    BY DEF Typed, NULL
  <2>2. CASE b.next = NULL
    BY <1>2, <1>3, <2>1, <2>2 DEF SetPrev
  <2>3. CASE b.next # NULL
    BY <1>2, <1>3, <1>4, <2>3 DEF SetPrev
  <2> QED
    BY <2>2, <2>3
<1>6. ASSUME NEW x \in DOMAIN mem
      PROVE  /\ two[x] \in Headers
             /\ two[x].status = one[x].status /\ two[x].size = one[x].size
             /\ two[x].next = one[x].next
             /\ two[x].prev = IF x = b.next THEN a ELSE one[x].prev
  <2>1. one[x] \in Headers /\ a \in Nat
    BY <1>4 DEF Typed
  <2> QED
    BY <1>5, <2>1 DEF Headers
<1>7. Typed(two)
  <2>1. two \in [DOMAIN mem -> Headers]
    <3>1. CASE b.next = NULL
      BY <1>2, <1>4, <3>1 DEF SetPrev
    <3>2. CASE b.next # NULL
      <4>1. two = [x \in DOMAIN mem |-> two[x]]
        BY <1>2, <1>3, <3>2 DEF SetPrev
      <4> QED
        BY <1>6, <4>1
    <3> QED
      BY <3>1, <3>2
  <2> QED
    BY <1>5, <2>1 DEF Typed
<1> HIDE DEF two
<1>8. ASSUME NEW x \in DOMAIN mem
      PROVE  /\ two[x].status = mem[x].status
             /\ two[x].size = IF x = a THEN mem[a].size + b.size ELSE mem[x].size
             /\ two[x].next = IF x = a THEN b.next ELSE mem[x].next
             /\ two[x].prev = IF x = b.next THEN a ELSE mem[x].prev
  <2>1. CASE x = a
    BY <1>3, <1>6, <2>1
  <2>2. CASE x # a
    <3>1. one[x] = mem[x]
      BY <1>3, <2>2
    <3> QED
      BY <1>6, <2>2, <3>1
  <2> QED
    BY <2>1, <2>2
<1> QED
  BY <1>5, <1>7, <1>8 DEF Joins, two

\* The list without the block that was joined.
LEMMA RemovedType ==
  ASSUME NEW S, NEW s \in Seq(S), NEW i \in 2 .. Len(s)
  PROVE  /\ Removed(s, i) \in Seq(S) /\ Len(Removed(s, i)) = Len(s) - 1
         /\ \A j \in 1 .. Len(s) - 1 :
               Removed(s, i)[j] = IF j < i THEN s[j] ELSE s[j + 1]
<1>1. Len(s) - 1 \in Nat
  OBVIOUS
<1>2. \A j \in 1 .. Len(s) - 1 : (IF j < i THEN s[j] ELSE s[j + 1]) \in S
  OBVIOUS
<1> QED
  BY <1>1, <1>2 DEF Removed

LEMMA JoinChained ==
  ASSUME NEW mem, NEW mem2, NEW start, NEW s, NEW i \in 2 .. Len(s),
         Typed(mem), Chained(mem, start, s), Distinct(s),
         Joins(mem, mem2, s[i - 1], s[i])
  PROVE  Chained(mem2, start, Removed(s, i))
<1> DEFINE t == Removed(s, i)
           n == Len(s)
<1>1. s \in Seq(DOMAIN mem) /\ n \in Nat
  BY DEF Chained
<1>2. /\ t \in Seq(DOMAIN mem) /\ Len(t) = n - 1
      /\ \A j \in 1 .. n - 1 : t[j] = IF j < i THEN s[j] ELSE s[j + 1]
  BY <1>1, RemovedType
<1> HIDE DEF t
<1>3. mem[s[i]].next = IF i = n THEN NULL ELSE s[i + 1]
  BY DEF Chained
<1>4. ASSUME NEW k \in 1 .. n
      PROVE  /\ s[k] \in DOMAIN mem /\ s[k] # NULL
             /\ mem[s[k]].prev = IF k = 1 THEN NULL ELSE s[k - 1]
             /\ mem[s[k]].next = IF k = n THEN NULL ELSE s[k + 1]
             /\ mem2[s[k]].next = IF k = i - 1 THEN mem[s[i]].next ELSE mem[s[k]].next
             /\ mem2[s[k]].prev = IF k = i + 1 THEN s[i - 1] ELSE mem[s[k]].prev
  <2>1. s[k] \in DOMAIN mem /\ s[k] # NULL
    BY InList
  <2>2. s[k] = s[i - 1] <=> k = i - 1
    <3>1. i - 1 \in 1 .. n
      BY <1>1
    <3> QED
      BY <1>1, <3>1 DEF Distinct
  <2>3. s[k] = mem[s[i]].next <=> k = i + 1
    <3>1. CASE i = n
      BY <1>1, <1>3, <2>1, <3>1
    <3>2. CASE i # n
      <4>1. i + 1 \in 1 .. n /\ mem[s[i]].next = s[i + 1]
        BY <1>1, <1>3, <3>2
      <4> QED
        BY <4>1 DEF Distinct
    <3> QED
      BY <3>1, <3>2
  <2>4. /\ mem[s[k]].prev = IF k = 1 THEN NULL ELSE s[k - 1]
        /\ mem[s[k]].next = IF k = n THEN NULL ELSE s[k + 1]
    BY DEF Chained
  <2>5. /\ mem2[s[k]].next = IF s[k] = s[i - 1] THEN mem[s[i]].next ELSE mem[s[k]].next
        /\ mem2[s[k]].prev = IF s[k] = mem[s[i]].next THEN s[i - 1] ELSE mem[s[k]].prev
    BY <2>1 DEF Joins
  <2> QED
    BY <2>1, <2>2, <2>3, <2>4, <2>5
<1>5. ASSUME NEW k \in 1 .. n - 1
      PROVE  /\ mem2[t[k]].prev = IF k = 1 THEN NULL ELSE t[k - 1]
             /\ mem2[t[k]].next = IF k = n - 1 THEN NULL ELSE t[k + 1]
  <2>1. CASE k < i - 1
    <3>1. t[k] = s[k] /\ t[k + 1] = s[k + 1] /\ (k # 1 => t[k - 1] = s[k - 1])
      BY <1>1, <1>2, <2>1
    <3>2. k \in 1 .. n /\ k # n /\ k # i + 1 /\ k # i - 1 /\ k # n - 1
      BY <1>1, <2>1
    <3> QED
      BY <1>4, <3>1, <3>2
  <2>2. CASE k = i - 1
    <3>1. t[k] = s[k] /\ (k # 1 => t[k - 1] = s[k - 1]) /\ (k # n - 1 => t[k + 1] = s[i + 1])
      BY <1>1, <1>2, <2>2
    <3>2. k \in 1 .. n /\ k # i + 1 /\ (k = n - 1 <=> i = n)
      BY <1>1, <2>2
    <3> QED
      BY <1>3, <1>4, <2>2, <3>1, <3>2
  <2>3. CASE k = i
    <3>1. t[k] = s[k + 1] /\ t[k - 1] = s[i - 1] /\ (k # n - 1 => t[k + 1] = s[k + 2])
      BY <1>1, <1>2, <2>3
    <3>2. k + 1 \in 1 .. n /\ k + 1 = i + 1 /\ k + 1 # i - 1 /\ k # 1
      BY <1>1, <2>3
    <3>3. /\ mem2[s[k + 1]].prev = s[i - 1]
          /\ mem2[s[k + 1]].next = IF k + 1 = n THEN NULL ELSE s[k + 1 + 1]
      BY <1>4, <3>2
    <3> QED
      BY <1>1, <3>1, <3>2, <3>3
  <2>4. CASE k > i
    <3>1. t[k] = s[k + 1] /\ t[k - 1] = s[k] /\ (k # n - 1 => t[k + 1] = s[k + 2])
      <4>1. /\ k \in 1 .. n - 1 /\ ~(k < i) /\ k - 1 \in 1 .. n - 1 /\ ~(k - 1 < i)
            /\ k - 1 + 1 = k /\ (k # n - 1 => k + 1 \in 1 .. n - 1 /\ ~(k + 1 < i))
        BY <1>1, <2>4
      <4>2. t[k] = s[k + 1] /\ t[k - 1] = s[k - 1 + 1]
        BY <1>2, <4>1
      <4>3. k # n - 1 => t[k + 1] = s[k + 1 + 1]
        BY <1>2, <4>1
      <4> QED
        BY <4>1, <4>2, <4>3
    <3>2. k + 1 \in 1 .. n /\ k + 1 # i + 1 /\ k + 1 # i - 1 /\ k # 1 /\ k + 1 # 1
      BY <1>1, <2>4
    <3>3. /\ mem2[s[k + 1]].prev = s[k + 1 - 1]
          /\ mem2[s[k + 1]].next = IF k + 1 = n THEN NULL ELSE s[k + 1 + 1]
      BY <1>4, <3>2
    <3> QED
      BY <1>1, <3>1, <3>2, <3>3
  <2> QED
    BY <1>1, <2>1, <2>2, <2>3, <2>4
<1>6. start = IF Len(t) = 0 THEN NULL ELSE t[1]
  BY <1>1, <1>2 DEF Chained
<1>7. DOMAIN mem2 = DOMAIN mem
  BY DEF Joins
<1> QED
  BY <1>2, <1>5, <1>6, <1>7 DEF Chained, t

\* The block that grew ends where the joined one did, or before.
LEMMA JoinPlaced ==
  ASSUME NEW mem, NEW mem2, NEW start, NEW own, NEW brk \in Int, NEW top \in Int, NEW s,
         Good(mem, start, own, brk, top, s), brk <= Wrap, NEW i \in 2 .. Len(s),
         mem[s[i - 1]].status = "FREE", mem[s[i]].status = "FREE",
         Joins(mem, mem2, s[i - 1], s[i])
  PROVE  Placed(mem2, own, brk, top, Removed(s, i))
<1> DEFINE t == Removed(s, i)
           n == Len(s)
           o(j) == IF j < i THEN j ELSE j + 1
<1>1. /\ n \in Nat /\ s \in Seq(DOMAIN mem)
      /\ \A k \in 1 .. n : s[k] \in DOMAIN mem /\ s[k] \in Nat /\ mem[s[k]].size \in Nat
  BY InList DEF Good, Chained
<1>2. Len(t) = n - 1 /\ \A j \in 1 .. n - 1 : t[j] = s[o(j)] /\ o(j) \in 1 .. n /\ o(j) # i
  <2>1. /\ Len(t) = n - 1
        /\ \A j \in 1 .. n - 1 : t[j] = IF j < i THEN s[j] ELSE s[j + 1]
    BY <1>1, RemovedType
  <2> HIDE DEF t
  <2> QED
    BY <1>1, <2>1
<1>3. \A j, k \in 1 .. n - 1 : j < k => o(j) < o(k)
  BY <1>1
<1> HIDE DEF t, o
<1>4. Distinct(s)
  BY PlacedDistinct
<1>5. i - 1 \in 1 .. n /\ i \in 1 .. n /\ i - 1 < i
  BY <1>1
<1>6. s[i - 1] < Wrap /\ s[i] < Wrap
  <2>1. \A k \in 1 .. n : mem[s[k]].status = "MAPPED" <=> s[k] >= Wrap
    BY DEF Good, Placed
  <2> QED
    BY <1>1, <1>5, <2>1, Numbers
<1>7. s[i - 1] + METADATA_SIZE + mem[s[i - 1]].size <= s[i]
  BY <1>5, <1>6 DEF Good, Placed, Used, Alike, End
\* What is known of a block in the new list.
<1>8. ASSUME NEW k \in 1 .. n, k # i
      PROVE  /\ mem2[s[k]].status = mem[s[k]].status
             /\ Used(mem2, own, s[k]) <=> Used(mem, own, s[k])
             /\ End(mem2, s[k]) <= IF k = i - 1 THEN End(mem, s[i]) ELSE End(mem, s[k])
             /\ End(mem2, s[k]) \in Int
  <2>1. s[k] \in DOMAIN mem /\ (s[k] = s[i - 1] <=> k = i - 1)
    BY <1>1, <1>4, <1>5 DEF Distinct
  <2>2. /\ mem2[s[k]].status = mem[s[k]].status
        /\ mem2[s[k]].size = IF s[k] = s[i - 1] THEN mem[s[i - 1]].size + mem[s[i]].size
                             ELSE mem[s[k]].size
    BY <2>1 DEF Joins
  <2>3. s[k] \in Nat /\ mem[s[k]].size \in Nat /\ s[i] \in Nat /\ mem[s[i]].size \in Nat
        /\ s[i - 1] \in Nat /\ mem[s[i - 1]].size \in Nat
    BY <1>1, <1>5
  <2>4. Used(mem2, own, s[k]) <=> Used(mem, own, s[k])
    BY <2>2 DEF Used
  <2>5. CASE k = i - 1
    BY SMTT(30), <1>7, <2>1, <2>2, <2>3, <2>4, <2>5, Numbers DEF End
  <2>6. CASE k # i - 1
    BY SMTT(30), <2>1, <2>2, <2>3, <2>4, <2>6, Numbers DEF End
  <2> QED
    BY <2>5, <2>6
<1>9. ASSUME NEW k \in 1 .. n - 1
      PROVE  /\ t[k] + METADATA_SIZE <= Limit(brk, top, t[k])
             /\ Used(mem2, own, t[k]) => End(mem2, t[k]) <= Limit(brk, top, t[k])
             /\ mem2[t[k]].status = "MAPPED" <=> t[k] >= Wrap
  <2>1. PICK p \in 1 .. n : p = o(k) /\ p # i /\ t[k] = s[p]
    BY <1>2
  <2>2. /\ s[p] + METADATA_SIZE <= Limit(brk, top, s[p])
        /\ Used(mem, own, s[p]) => End(mem, s[p]) <= Limit(brk, top, s[p])
        /\ mem[s[p]].status = "MAPPED" <=> s[p] >= Wrap
    BY DEF Good, Placed
  <2>3. End(mem, s[i]) <= Limit(brk, top, s[i]) /\ End(mem, s[i]) \in Int
    BY <1>1, <1>5, Numbers DEF Good, Placed, Used, End
  <2>4. Limit(brk, top, s[i - 1]) = brk /\ Limit(brk, top, s[i]) = brk
    BY <1>6 DEF Limit
  <2>5. Limit(brk, top, s[p]) \in Int /\ End(mem, s[p]) \in Int
    BY <1>1, Numbers DEF Limit, End
  <2>6. Used(mem2, own, s[p]) => End(mem2, s[p]) <= Limit(brk, top, s[p])
    <3>1. CASE p = i - 1
      BY <1>8, <2>1, <2>3, <2>4, <3>1
    <3>2. CASE p # i - 1
      BY <1>8, <2>1, <2>2, <2>5, <3>2
    <3> QED
      BY <3>1, <3>2
  <2> QED
    BY <1>8, <2>1, <2>2, <2>6
<1>10. ASSUME NEW j \in 1 .. n - 1, NEW k \in 1 .. n - 1, j < k, Alike(t[j], t[k])
       PROVE  /\ t[j] + METADATA_SIZE <= t[k]
              /\ Used(mem2, own, t[j]) => End(mem2, t[j]) <= t[k]
  <2>1. PICK p \in 1 .. n : p = o(j) /\ p # i /\ t[j] = s[p]
    BY <1>2
  <2>2. PICK q \in 1 .. n : q = o(k) /\ q # i /\ t[k] = s[q]
    BY <1>2
  <2>3. p < q /\ Alike(s[p], s[q])
    BY <1>3, <1>10, <2>1, <2>2
  <2>4. /\ s[p] + METADATA_SIZE <= s[q]
        /\ Used(mem, own, s[p]) => End(mem, s[p]) <= s[q]
    BY <2>3 DEF Good, Placed
  <2>5. s[q] \in Nat /\ End(mem, s[p]) \in Int
    BY <1>1, Numbers DEF End
  <2>6. Used(mem2, own, s[p]) => End(mem2, s[p]) <= s[q]
    <3>1. CASE p = i - 1
      <4>1. i < q
        BY <2>2, <2>3, <3>1
      <4>2. Alike(s[i], s[q])
        BY <1>1, <1>6, <2>3, <3>1, Numbers DEF Alike
      <4>3. End(mem, s[i]) <= s[q] /\ End(mem, s[i]) \in Int
        BY SMTT(30), <1>1, <1>5, <4>1, <4>2, Numbers DEF Good, Placed, Used, End
      <4> QED
        BY SMTT(30), <1>8, <2>1, <2>5, <3>1, <4>3
    <3>2. CASE p # i - 1
      BY <1>8, <2>1, <2>4, <2>5, <3>2
    <3> QED
      BY <3>1, <3>2
  <2> QED
    BY <2>1, <2>2, <2>4, <2>6
<1> QED
  BY <1>2, <1>9, <1>10 DEF Placed, t

\* Join, at any place of the list, leaves a good list.
LEMMA JoinGood ==
  ASSUME NEW mem, NEW start, NEW own, NEW brk \in Int, NEW top \in Int, NEW s,
         Good(mem, start, own, brk, top, s), brk <= Wrap, NEW i \in 2 .. Len(s)
  PROVE  \/ Join(mem, s[i]) = mem
         \/ Good(Join(mem, s[i]), start, own, brk, top, Removed(s, i))
<1> DEFINE n == Len(s)
           two == Join(mem, s[i])
<1>1. /\ n \in Nat /\ s \in Seq(DOMAIN mem)
      /\ \A k \in 1 .. n : s[k] \in DOMAIN mem
  BY InList DEF Good, Chained
<1>2. mem[s[i]].prev = s[i - 1] /\ mem[s[i]].next = IF i = n THEN NULL ELSE s[i + 1]
  BY DEF Good, Chained
<1>3. CASE ~(mem[s[i]].status = "FREE" /\ mem[s[i - 1]].status = "FREE")
  BY <1>2, <1>3 DEF Join
<1>4. CASE mem[s[i]].status = "FREE" /\ mem[s[i - 1]].status = "FREE"
  <2>1. Distinct(s)
    BY PlacedDistinct
  <2>2. Typed(mem) /\ Chained(mem, start, s)
    BY DEF Good
  <2>3. Joins(mem, two, s[i - 1], s[i])
    <3>1. s[i - 1] \in DOMAIN mem /\ s[i] \in DOMAIN mem /\ s[i - 1] # s[i]
      BY <1>1, <2>1 DEF Distinct
    <3>2. mem[s[i]].next \in DOMAIN mem \cup {NULL}
      BY <1>1, <1>2
    <3> QED
      BY <1>2, <1>4, <2>2, <3>1, <3>2, JoinFields
  <2> HIDE DEF two
  <2>4. Chained(two, start, Removed(s, i))
    BY <2>1, <2>2, <2>3, JoinChained
  <2>5. Placed(two, own, brk, top, Removed(s, i))
    BY <1>4, <2>3, JoinPlaced
  <2>6. Owned(two, own, Removed(s, i))
    <3> SUFFICES ASSUME NEW a \in DOMAIN own
                 PROVE  /\ \E k \in 1 .. Len(Removed(s, i)) : Removed(s, i)[k] = a
                        /\ two[a].status # "FREE" /\ own[a] <= two[a].size
      BY DEF Owned
    <3>1. PICK k \in 1 .. n : s[k] = a
      BY DEF Good, Owned
    <3>2. mem[a].status # "FREE" /\ own[a] <= mem[a].size
      BY DEF Good, Owned
    <3>3. a \in DOMAIN mem /\ k # i /\ a # s[i - 1]
      BY <1>1, <1>4, <3>1, <3>2
    <3>4. two[a].status = mem[a].status /\ two[a].size = mem[a].size
      BY <2>3, <3>3 DEF Joins
    <3>5. \E j \in 1 .. Len(Removed(s, i)) : Removed(s, i)[j] = a
      <4> DEFINE j == IF k < i THEN k ELSE k - 1
      <4>1. j \in 1 .. n - 1 /\ (IF j < i THEN s[j] ELSE s[j + 1]) = a
        BY <1>1, <3>1, <3>3
      <4> HIDE DEF j
      <4> QED
        BY <1>1, <4>1, RemovedType
    <3> QED
      BY <3>2, <3>4, <3>5
  <2> QED
    BY <2>3, <2>4, <2>5, <2>6 DEF Good, Joins, two
<1> QED
  BY <1>3, <1>4

-----------------------------------------------------------------------------
(* coalesce.                                                               *)

\* f has what memory is after each block of the list was looked at.
Passes(mem, list, m, f) ==
    f = [k \in 1 .. m |-> IF k = 1 THEN mem ELSE Join(f[k - 1], list[k])]

LEMMA PassesExist ==
  ASSUME NEW mem, NEW list, NEW m \in Nat \ {0}
  PROVE  \E f : Passes(mem, list, m, f)
<1> DEFINE Has(n) == \E f : Passes(mem, list, n, f)
           Bad == {n \in 1 .. m : ~Has(n)}
<1>1. Has(1)
  <2> DEFINE f == [k \in 1 .. 1 |-> mem]
  <2>1. Passes(mem, list, 1, f)
    <3>1. \A k \in 1 .. 1 : f[k] = IF k = 1 THEN mem ELSE Join(f[k - 1], list[k])
      OBVIOUS
    <3>2. f = [k \in 1 .. 1 |-> f[k]]
      OBVIOUS
    <3> HIDE DEF f
    <3> QED
      BY <3>1, <3>2 DEF Passes
  <2> QED
    BY <2>1
<1>2. ASSUME NEW n \in 2 .. m, Has(n - 1) PROVE Has(n)
  <2>1. PICK f : Passes(mem, list, n - 1, f)
    BY <1>2
  <2> DEFINE g == [k \in 1 .. n |-> IF k = n THEN Join(f[n - 1], list[n]) ELSE f[k]]
  <2>2. ASSUME NEW k \in 1 .. n
        PROVE  g[k] = IF k = 1 THEN mem ELSE Join(g[k - 1], list[k])
    <3>1. k # 1 => k - 1 \in 1 .. n - 1 /\ g[k - 1] = f[k - 1]
      OBVIOUS
    <3>2. CASE k = n
      <4>1. g[k] = Join(f[n - 1], list[n]) /\ k # 1
        BY <3>2
      <4> QED
        BY <3>1, <3>2, <4>1
    <3>3. CASE k # n
      <4>1. k \in 1 .. n - 1 /\ g[k] = f[k]
        BY <3>3
      <4> HIDE DEF g
      <4>2. f[k] = IF k = 1 THEN mem ELSE Join(f[k - 1], list[k])
        BY <2>1, <4>1, Zenon DEF Passes
      <4> QED
        BY <3>1, <4>1, <4>2
    <3> QED
      BY <3>2, <3>3
  <2>3. g = [k \in 1 .. n |-> g[k]]
    OBVIOUS
  <2>4. Passes(mem, list, n, g)
    <3> HIDE DEF g
    <3> QED
      BY <2>2, <2>3 DEF Passes
  <2> QED
    BY <2>4
<1>3. Bad = {}
  <2> SUFFICES ASSUME Bad # {} PROVE FALSE
    OBVIOUS
  <2>1. m \in Nat /\ Bad \in SUBSET (1 .. m)
    OBVIOUS
  <2> HIDE DEF Bad
  <2>2. PICK n \in Bad : \A k \in Bad : n <= k
    BY <2>1, LeastElement
  <2>3. n \in 1 .. m /\ n - 1 \notin Bad
    BY <2>1, <2>2
  <2> HIDE DEF Has
  <2>4. ~Has(n)
    BY <2>2 DEF Bad
  <2>5. n # 1
    BY <1>1, <2>4
  <2>6. n \in 2 .. m /\ n - 1 \in 1 .. m
    BY <2>1, <2>3, <2>5
  <2> QED
    BY <1>2, <2>3, <2>4, <2>6 DEF Bad
<1> QED
  BY <1>3

LEMMA CoalescedIs ==
  ASSUME NEW mem, NEW list, Len(list) \in Nat \ {0}, list # <<>>
  PROVE  \E f : /\ Coalesced(mem, list) = f[Len(list)]
                /\ f[1] = mem
                /\ \A k \in 2 .. Len(list) : f[k] = Join(f[k - 1], list[k])
<1> DEFINE n == Len(list)
           f == CHOOSE q : Passes(mem, list, n, q)
<1>1. Coalesced(mem, list) = f[n]
  BY DEF Coalesced, Passes
<1>2. Passes(mem, list, n, f)
  BY PassesExist
<1> HIDE DEF f
<1>3. \A k \in 1 .. n : f[k] = IF k = 1 THEN mem ELSE Join(f[k - 1], list[k])
  BY <1>2, Zenon DEF Passes
<1>4. 1 \in 1 .. n /\ \A k \in 2 .. n : k \in 1 .. n /\ k # 1
  OBVIOUS
<1> QED
  BY <1>1, <1>3, <1>4

\* t is the list when k of the n blocks of s were looked at: what follows is as it was.
Ahead(s, k, t) ==
    \E d \in 0 .. k - 1 :
        /\ Len(t) = Len(s) - d
        /\ \A j \in k + 1 .. Len(s) : t[j - d] = s[j]
        /\ k = Len(s) => \/ t[Len(t)] = s[k]
                         \/ \A j \in 1 .. Len(t) : t[j] # s[k]

LEMMA JoinAhead ==
  ASSUME NEW mem, NEW start, NEW own, NEW brk \in Int, NEW top \in Int, NEW s, NEW t,
         Good(mem, start, own, brk, top, t), brk <= Wrap, Len(s) \in Nat,
         NEW k \in 2 .. Len(s), Ahead(s, k - 1, t)
  PROVE  \E u : Good(Join(mem, s[k]), start, own, brk, top, u) /\ Ahead(s, k, u)
<1> DEFINE n == Len(s)
<1>1. PICK d \in 0 .. k - 1 - 1 :
          /\ Len(t) = n - d
          /\ \A j \in k - 1 + 1 .. n : t[j - d] = s[j]
  BY DEF Ahead
<1>2. k \in k - 1 + 1 .. n /\ k - d \in 2 .. Len(t)
  BY <1>1
<1>3. t[k - d] = s[k]
  BY <1>1, <1>2
<1>4. \/ Join(mem, s[k]) = mem
      \/ Good(Join(mem, s[k]), start, own, brk, top, Removed(t, k - d))
  <2>1. \/ Join(mem, t[k - d]) = mem
        \/ Good(Join(mem, t[k - d]), start, own, brk, top, Removed(t, k - d))
    BY <1>2, JoinGood
  <2> QED
    BY <1>3, <2>1
<1>5. CASE Join(mem, s[k]) = mem
  <2>1. Ahead(s, k, t)
    <3>1. d \in 0 .. k - 1 /\ \A j \in k + 1 .. n : j \in k - 1 + 1 .. n
      OBVIOUS
    <3>2. k = n => t[Len(t)] = s[k]
      BY <1>1, <1>3
    <3> QED
      BY <1>1, <3>1, <3>2 DEF Ahead
  <2> QED
    BY <1>5, <2>1
<1>6. CASE Good(Join(mem, s[k]), start, own, brk, top, Removed(t, k - d))
  <2> DEFINE u == Removed(t, k - d)
  <2>1. /\ t \in Seq(DOMAIN mem) /\ Len(t) \in Nat
        /\ \A j \in 1 .. Len(t) : t[j] \in DOMAIN mem
    BY DEF Good, Chained
  <2>2. Len(u) = Len(t) - 1
        /\ \A j \in 1 .. Len(t) - 1 : u[j] = IF j < k - d THEN t[j] ELSE t[j + 1]
    BY <1>2, <2>1, RemovedType
  <2>3. Distinct(t)
    BY PlacedDistinct
  <2> HIDE DEF u
  <2>4. Ahead(s, k, u)
    <3>1. d + 1 \in 0 .. k - 1 /\ Len(u) = n - (d + 1)
      BY <1>1, <2>2
    <3>2. ASSUME NEW j \in k + 1 .. n PROVE u[j - (d + 1)] = s[j]
      <4>1. /\ j - (d + 1) \in 1 .. Len(t) - 1 /\ ~(j - (d + 1) < k - d)
            /\ j - (d + 1) + 1 = j - d /\ j \in k - 1 + 1 .. n
        BY <1>1, <3>1
      <4>2. u[j - (d + 1)] = t[j - (d + 1) + 1]
        BY <2>2, <4>1
      <4> QED
        BY <1>1, <4>1, <4>2
    <3>3. ASSUME k = n, NEW j \in 1 .. Len(u) PROVE u[j] # s[k]
      <4>1. j \in 1 .. Len(t) - 1 /\ j < k - d /\ j \in 1 .. Len(t)
        BY <1>1, <2>1, <2>2, <3>3
      <4>2. u[j] = t[j]
        BY <2>2, <4>1
      <4> QED
        BY <1>2, <1>3, <2>3, <4>1, <4>2 DEF Distinct
    <3> QED
      BY <3>1, <3>2, <3>3 DEF Ahead
  <2> QED
    BY <1>6, <2>4 DEF u
<1> QED
  BY <1>4, <1>5, <1>6

\* coalesce leaves a good list, of which last is the end if it is in it.
LEMMA CoalescedGood ==
  ASSUME NEW mem, NEW start, NEW own, NEW brk \in Int, NEW top \in Int, NEW s,
         Good(mem, start, own, brk, top, s), brk <= Wrap
  PROVE  \E t : /\ Good(Coalesced(mem, s), start, own, brk, top, t)
                /\ Len(t) = 0 <=> Len(s) = 0
                /\ Len(s) # 0 => \/ t[Len(t)] = s[Len(s)]
                                 \/ \A j \in 1 .. Len(t) : t[j] # s[Len(s)]
<1> DEFINE n == Len(s)
<1>1. s \in Seq(DOMAIN mem) /\ n \in Nat
  BY DEF Good, Chained
<1>2. CASE n = 0
  <2>1. s = <<>>
    BY <1>1, <1>2
  <2>2. Coalesced(mem, s) = mem
    BY <2>1 DEF Coalesced
  <2> QED
    BY <1>2, <2>2
<1>3. CASE n # 0
  <2>1. n \in Nat \ {0} /\ s # <<>>
    BY <1>1, <1>3
  <2>2. PICK f : /\ Coalesced(mem, s) = f[n] /\ f[1] = mem
                 /\ \A k \in 2 .. n : f[k] = Join(f[k - 1], s[k])
    BY SMTT(30), <2>1, CoalescedIs
  <2> DEFINE P(k) == \E t : Good(f[k], start, own, brk, top, t) /\ Ahead(s, k, t)
             Bad == {k \in 1 .. n : ~P(k)}
  <2>3. P(1)
    <3>1. Ahead(s, 1, s)
      <4>1. 0 \in 0 .. 1 - 1 /\ n = n - 0 /\ \A j \in 1 + 1 .. n : j - 0 = j
        BY <1>1
      <4> QED
        BY <4>1 DEF Ahead
    <3> QED
      BY <2>2, <3>1
  <2>4. ASSUME NEW k \in 2 .. n, P(k - 1) PROVE P(k)
    <3>1. PICK t : Good(f[k - 1], start, own, brk, top, t) /\ Ahead(s, k - 1, t)
      BY <2>4
    <3>2. \E u : Good(Join(f[k - 1], s[k]), start, own, brk, top, u) /\ Ahead(s, k, u)
      BY <1>1, <3>1, JoinAhead
    <3> QED
      BY <2>2, <3>2
  <2>5. Bad = {}
    <3> SUFFICES ASSUME Bad # {} PROVE FALSE
      OBVIOUS
    <3>1. Bad \in SUBSET (1 .. n)
      OBVIOUS
    <3> HIDE DEF Bad
    <3>2. PICK k \in Bad : \A j \in Bad : k <= j
      BY <1>1, <3>1, LeastElement
    <3>3. k \in 1 .. n /\ k - 1 \notin Bad
      BY <3>1, <3>2
    <3> HIDE DEF P
    <3>4. ~P(k)
      BY <3>2 DEF Bad
    <3>5. k # 1
      BY <2>3, <3>4
    <3>6. k \in 2 .. n /\ k - 1 \in 1 .. n
      BY <1>1, <3>3, <3>5
    <3> QED
      BY <2>4, <3>3, <3>4, <3>6 DEF Bad
  <2>6. n \in 1 .. n /\ P(n)
    BY <2>1, <2>5
  <2>7. PICK t : Good(f[n], start, own, brk, top, t) /\ Ahead(s, n, t)
    BY <2>6
  <2>8. PICK d \in 0 .. n - 1 :
            /\ Len(t) = n - d
            /\ t[Len(t)] = s[n] \/ \A j \in 1 .. Len(t) : t[j] # s[n]
    BY <2>7 DEF Ahead
  <2>9. Len(t) # 0
    BY <2>1, <2>8
  <2> QED
    BY <1>3, <2>2, <2>7, <2>8, <2>9
<1> QED
  BY <1>2, <1>3

-----------------------------------------------------------------------------
(* Splitting a block.                                                      *)

IsHeap(heap) ==
    heap = [mem |-> heap.mem, start |-> heap.start, last |-> heap.last,
            brk |-> heap.brk, top |-> heap.top]

\* A heap with another memory, and with another last, or other bounds.
LEMMA HeapFields ==
  ASSUME NEW heap, IsHeap(heap), NEW m, NEW l, NEW x
  PROVE  /\ [heap EXCEPT !.mem = m] =
               [mem |-> m, start |-> heap.start, last |-> heap.last,
                brk |-> heap.brk, top |-> heap.top]
         /\ [heap EXCEPT !.mem = m, !.last = l] =
               [mem |-> m, start |-> heap.start, last |-> l,
                brk |-> heap.brk, top |-> heap.top]
         /\ [heap EXCEPT !.brk = x] =
               [mem |-> heap.mem, start |-> heap.start, last |-> heap.last,
                brk |-> x, top |-> heap.top]
         /\ [heap EXCEPT !.top = x] =
               [mem |-> heap.mem, start |-> heap.start, last |-> heap.last,
                brk |-> heap.brk, top |-> x]
<1> DEFINE R(m1, s1, l1, b1, t1) ==
              [mem |-> m1, start |-> s1, last |-> l1, brk |-> b1, top |-> t1]
<1>1. [heap EXCEPT !.mem = m] = R(m, heap.start, heap.last, heap.brk, heap.top)
  BY DEF IsHeap
<1>2. [heap EXCEPT !.brk = x] = R(heap.mem, heap.start, heap.last, x, heap.top)
  BY DEF IsHeap
<1>3. [heap EXCEPT !.top = x] = R(heap.mem, heap.start, heap.last, heap.brk, x)
  BY DEF IsHeap
<1>4. [heap EXCEPT !.mem = m, !.last = l] = R(m, heap.start, l, heap.brk, heap.top)
  <2>1. [heap EXCEPT !.mem = m, !.last = l] = [[heap EXCEPT !.mem = m] EXCEPT !.last = l]
    BY Zenon
  <2>2. [R(m, heap.start, heap.last, heap.brk, heap.top) EXCEPT !.last = l] =
          R(m, heap.start, l, heap.brk, heap.top)
    OBVIOUS
  <2> QED
    BY <1>1, <2>1, <2>2
<1> QED
  BY <1>1, <1>2, <1>3, <1>4

\* Longer, with another memory.
Longer(heap, x, m) == [heap EXCEPT !.brk = x, !.mem = m]

LEMMA HeapLonger ==
  ASSUME NEW heap, IsHeap(heap), NEW x, NEW m
  PROVE  Longer(heap, x, m) =
            [mem |-> m, start |-> heap.start, last |-> heap.last,
             brk |-> x, top |-> heap.top]
<1> DEFINE R(m1) == [mem |-> m1, start |-> heap.start, last |-> heap.last,
                     brk |-> x, top |-> heap.top]
<1>1. Longer(heap, x, m) = [[heap EXCEPT !.brk = x] EXCEPT !.mem = m]
  BY Zenon DEF Longer
<1>2. [heap EXCEPT !.brk = x] = R(heap.mem)
  BY HeapFields
<1>3. [R(heap.mem) EXCEPT !.mem = m] = R(m)
  OBVIOUS
<1> QED
  BY <1>1, <1>2, <1>3

\* With other ends of the list.
Ends(heap, m, x, l) == [heap EXCEPT !.mem = m, !.start = x, !.last = l]

LEMMA HeapEnds ==
  ASSUME NEW heap, IsHeap(heap), NEW m, NEW x, NEW l
  PROVE  Ends(heap, m, x, l) =
            [mem |-> m, start |-> x, last |-> l, brk |-> heap.brk, top |-> heap.top]
<1> DEFINE R(m1, s1, l1) ==
              [mem |-> m1, start |-> s1, last |-> l1, brk |-> heap.brk, top |-> heap.top]
<1>1. Ends(heap, m, x, l) =
        [[[heap EXCEPT !.mem = m] EXCEPT !.start = x] EXCEPT !.last = l]
  BY Zenon DEF Ends
<1>2. [heap EXCEPT !.mem = m] = R(m, heap.start, heap.last)
  BY HeapFields
<1>3. [R(m, heap.start, heap.last) EXCEPT !.start = x] = R(m, x, heap.last)
  OBVIOUS
<1>4. [R(m, x, heap.last) EXCEPT !.last = l] = R(m, x, l)
  OBVIOUS
<1> QED
  BY <1>1, <1>2, <1>3, <1>4

Inserted(s, i, p) ==
    [j \in 1 .. Len(s) + 1 |-> IF j <= i THEN s[j] ELSE IF j = i + 1 THEN p ELSE s[j - 1]]

\* What split_block changes of free block a, with p the new one.
Splits(mem, mem2, size, a, p) ==
    /\ Typed(mem2) /\ DOMAIN mem2 = DOMAIN mem \cup {p}
    /\ \A x \in DOMAIN mem2 :
          /\ mem2[x].status = IF x = p THEN "FREE" ELSE mem[x].status
          /\ mem2[x].size = IF x = p THEN mem[a].size - size - METADATA_SIZE
                            ELSE IF x = a THEN size ELSE mem[x].size
          /\ mem2[x].next = IF x = p THEN mem[a].next
                            ELSE IF x = a THEN p ELSE mem[x].next
          /\ mem2[x].prev = IF x = p THEN a
                            ELSE IF x = mem[a].next THEN p ELSE mem[x].prev

LEMMA SplitFields ==
  ASSUME NEW heap, IsHeap(heap), Typed(heap.mem), NEW a \in DOMAIN heap.mem,
         NEW size \in Nat, heap.mem[a].size - size - METADATA_SIZE \in Nat,
         heap.mem[a].next \in DOMAIN heap.mem \cup {NULL},
         heap.mem[a].next # Second(a, size)
  PROVE  LET split == split_block(heap, size, a)
         IN  /\ Splits(heap.mem, split.mem, size, a, Second(a, size)) /\ IsHeap(split)
             /\ split.start = heap.start /\ split.brk = heap.brk /\ split.top = heap.top
             /\ split.last = IF heap.last = a THEN Second(a, size) ELSE heap.last
<1> DEFINE mem == heap.mem
           b == mem[a]
           p == Second(a, size)
           new == [size |-> b.size - size - METADATA_SIZE, status |-> "FREE",
                   prev |-> a, next |-> b.next]
           one == Back(mem, b.next, p)
           two == [one EXCEPT ![a].next = p, ![a].size = size]
           three == With(two, p, new)
           split == split_block(heap, size, a)
<1>1. /\ mem \in [DOMAIN mem -> Headers] /\ b \in Headers /\ a \in Nat
      /\ p \in Nat /\ p # a /\ NULL \notin DOMAIN mem
  BY Numbers DEF Typed, Second, NULL
<1>2. split = [mem |-> three, start |-> heap.start,
               last |-> IF heap.last = a THEN p ELSE heap.last,
               brk |-> heap.brk, top |-> heap.top]
  <2>1. split = [heap EXCEPT !.mem = three, !.last = IF heap.last = a THEN p ELSE heap.last]
    BY DEF split_block
  <2> HIDE DEF split, three, p
  <2> QED
    BY <2>1, HeapFields
<1>3. /\ one \in [DOMAIN mem -> Headers]
      /\ \A x \in DOMAIN mem :
           /\ one[x].status = mem[x].status /\ one[x].size = mem[x].size
           /\ one[x].next = mem[x].next
           /\ one[x].prev = IF x = b.next THEN p ELSE mem[x].prev
  <2>1. CASE b.next = NULL
    BY <1>1, <2>1 DEF Back, SetPrev
  <2>2. CASE b.next # NULL
    <3>1. one = [mem EXCEPT ![b.next].prev = p] /\ b.next \in DOMAIN mem
      BY <2>2 DEF Back, SetPrev
    <3>2. \A x \in DOMAIN mem :
             one[x] = IF x = b.next THEN [mem[x] EXCEPT !.prev = p] ELSE mem[x]
      BY <1>1, <3>1
    <3>3. ASSUME NEW x \in DOMAIN mem
          PROVE  /\ one[x] \in Headers
                 /\ one[x].status = mem[x].status /\ one[x].size = mem[x].size
                 /\ one[x].next = mem[x].next
                 /\ one[x].prev = IF x = b.next THEN p ELSE mem[x].prev
      <4>1. mem[x] \in Headers
        BY <1>1
      <4> HIDE DEF one, b, mem, p
      <4>2. CASE x # b.next
        BY <3>2, <4>1, <4>2
      <4>3. CASE x = b.next
        <5>1. one[x] = [size |-> mem[x].size, status |-> mem[x].status,
                        prev |-> p, next |-> mem[x].next]
          BY <3>2, <4>1, <4>3 DEF Headers
        <5> QED
          BY <1>1, <4>1, <4>3, <5>1 DEF Headers
      <4> QED
        BY <4>2, <4>3
    <3>4. one = [x \in DOMAIN mem |-> one[x]]
      BY <3>1
    <3> HIDE DEF one
    <3> QED
      BY <3>3, <3>4
  <2> QED
    BY <2>1, <2>2
<1> HIDE DEF one
<1>4. /\ two \in [DOMAIN mem -> Headers]
      /\ \A x \in DOMAIN mem :
           /\ two[x].status = one[x].status /\ two[x].prev = one[x].prev
           /\ two[x].next = IF x = a THEN p ELSE one[x].next
           /\ two[x].size = IF x = a THEN size ELSE one[x].size
  <2>1. \A x \in DOMAIN mem :
           two[x] = IF x = a THEN [size |-> size, status |-> one[a].status,
                                   prev |-> one[a].prev, next |-> p]
                    ELSE one[x]
    BY <1>3 DEF Headers
  <2>2. ASSUME NEW x \in DOMAIN mem
        PROVE  /\ two[x] \in Headers
               /\ two[x].status = one[x].status /\ two[x].prev = one[x].prev
               /\ two[x].next = IF x = a THEN p ELSE one[x].next
               /\ two[x].size = IF x = a THEN size ELSE one[x].size
    <3>1. one[x] \in Headers /\ one[a] \in Headers
      BY <1>3
    <3> HIDE DEF two
    <3> QED
      BY <1>1, <2>1, <3>1 DEF Headers
  <2>3. two = [x \in DOMAIN mem |-> two[x]]
    BY <1>3
  <2> HIDE DEF two
  <2> QED
    BY <2>2, <2>3
<1> HIDE DEF two
<1>5. new \in Headers
  BY <1>1 DEF Headers
<1>6. /\ DOMAIN three = DOMAIN mem \cup {p}
      /\ three \in [DOMAIN mem \cup {p} -> Headers]
      /\ \A x \in DOMAIN mem \cup {p} : three[x] = IF x = p THEN new ELSE two[x]
  BY <1>4, <1>5 DEF With
<1> HIDE DEF three
<1>7. Typed(three)
  <2>1. IsFiniteSet(DOMAIN mem \cup {p})
    BY FS_AddElement DEF Typed
  <2> QED
    BY <1>1, <1>6, <2>1 DEF Typed
<1>8. ASSUME NEW x \in DOMAIN mem \cup {p}
      PROVE  /\ three[x].status = IF x = p THEN "FREE" ELSE mem[x].status
             /\ three[x].size = IF x = p THEN mem[a].size - size - METADATA_SIZE
                                ELSE IF x = a THEN size ELSE mem[x].size
             /\ three[x].next = IF x = p THEN mem[a].next
                                ELSE IF x = a THEN p ELSE mem[x].next
             /\ three[x].prev = IF x = p THEN a
                                ELSE IF x = mem[a].next THEN p ELSE mem[x].prev
  <2>1. CASE x = p
    BY <1>6, <2>1
  <2>2. CASE x # p
    <3>1. three[x] = two[x] /\ x \in DOMAIN mem
      BY <1>6, <2>2
    <3> HIDE DEF new, p, b, mem
    <3>2. b = mem[a]
      BY DEF b, mem
    <3> QED
      BY <1>3, <1>4, <2>2, <3>1, <3>2
  <2> QED
    BY <2>1, <2>2
<1>9. Splits(mem, three, size, a, p)
  BY <1>6, <1>7, <1>8 DEF Splits
<1>10. IsHeap(split)
  BY <1>2 DEF IsHeap
<1> QED
  BY <1>2, <1>9, <1>10

LEMMA InsertedType ==
  ASSUME NEW T, NEW s \in Seq(T), NEW i \in 1 .. Len(s), NEW p \in T
  PROVE  /\ Inserted(s, i, p) \in Seq(T) /\ Len(Inserted(s, i, p)) = Len(s) + 1
         /\ \A j \in 1 .. Len(s) + 1 :
               Inserted(s, i, p)[j] =
                  IF j <= i THEN s[j] ELSE IF j = i + 1 THEN p ELSE s[j - 1]
<1>1. Len(s) + 1 \in Nat
  OBVIOUS
<1>2. ASSUME NEW j \in 1 .. Len(s) + 1
      PROVE  (IF j <= i THEN s[j] ELSE IF j = i + 1 THEN p ELSE s[j - 1]) \in T
  <2>1. CASE j <= i
    <3>1. j \in 1 .. Len(s)
      BY <2>1
    <3> QED
      BY <2>1, <3>1
  <2>2. CASE j > i + 1
    <3>1. j - 1 \in 1 .. Len(s)
      BY <2>2
    <3> QED
      BY <2>2, <3>1
  <2>3. CASE j = i + 1
    BY <2>3
  <2> QED
    BY <2>1, <2>2, <2>3
<1> QED
  BY <1>1, <1>2 DEF Inserted

\* The new block is in the heap between the two that it is put between.
LEMMA SplitPlace ==
  ASSUME NEW mem, NEW start, NEW own, NEW brk \in Int, NEW top \in Int, NEW s,
         Good(mem, start, own, brk, top, s), brk <= Wrap, NEW i \in 1 .. Len(s),
         mem[s[i]].status = "FREE", NEW size \in Nat,
         mem[s[i]].size - size - METADATA_SIZE \in Nat
  PROVE  LET p == Second(s[i], size)
         IN  /\ p \in Nat /\ s[i] + METADATA_SIZE + size = p
             /\ p + METADATA_SIZE + (mem[s[i]].size - size - METADATA_SIZE) =
                   End(mem, s[i])
             /\ p + METADATA_SIZE <= End(mem, s[i]) /\ End(mem, s[i]) <= brk
             /\ End(mem, s[i]) \in Int
             /\ p < Wrap /\ s[i] < Wrap
             /\ \A k \in 1 .. Len(s) :
                   /\ s[k] # p
                   /\ (k > i /\ s[k] < Wrap) => End(mem, s[i]) <= s[k]
                   /\ (k < i /\ s[k] < Wrap) =>
                         /\ s[k] + METADATA_SIZE <= s[i]
                         /\ Used(mem, own, s[k]) => End(mem, s[k]) <= s[i]
<1> DEFINE p == Second(s[i], size)
<1>1. /\ Len(s) \in Nat /\ i \in 1 .. Len(s)
      /\ \A k \in 1 .. Len(s) : s[k] \in Nat /\ mem[s[k]].size \in Nat
  BY InList DEF Good
<1>2. s[i] < Wrap
  <2>1. mem[s[i]].status = "MAPPED" <=> s[i] >= Wrap
    BY DEF Good, Placed
  <2> QED
    BY <1>1, <2>1, Numbers
<1>3. End(mem, s[i]) <= brk
  BY <1>2 DEF Good, Placed, Used, Limit
<1>4. /\ p \in Nat /\ s[i] + METADATA_SIZE + size = p
      /\ p + METADATA_SIZE + (mem[s[i]].size - size - METADATA_SIZE) = End(mem, s[i])
      /\ p + METADATA_SIZE <= End(mem, s[i]) /\ End(mem, s[i]) \in Int
  <2>1. PICK a, z : a = s[i] /\ z = mem[s[i]].size
    OBVIOUS
  <2>2. a \in Nat /\ z \in Nat /\ z - size - METADATA_SIZE \in Nat
    BY <1>1, <2>1
  <2>3. p = a + size + METADATA_SIZE /\ End(mem, s[i]) = a + METADATA_SIZE + z
    BY <2>1 DEF Second, End
  <2> HIDE DEF p
  <2>4. p \in Nat /\ a + METADATA_SIZE + size = p /\ End(mem, s[i]) \in Int
    BY <2>2, <2>3, Numbers
  <2>5. p + METADATA_SIZE + (z - size - METADATA_SIZE) = End(mem, s[i])
    BY <2>2, <2>3, Numbers
  <2>6. p + METADATA_SIZE <= End(mem, s[i])
    BY <2>2, <2>4, <2>5, Numbers
  <2> QED
    BY <2>1, <2>4, <2>5, <2>6
<1>5. p < Wrap
  BY <1>3, <1>4, Numbers
<1>6. ASSUME NEW k \in 1 .. Len(s)
      PROVE  /\ s[k] # p
             /\ (k > i /\ s[k] < Wrap) => End(mem, s[i]) <= s[k]
             /\ (k < i /\ s[k] < Wrap) =>
                   /\ s[k] + METADATA_SIZE <= s[i]
                   /\ Used(mem, own, s[k]) => End(mem, s[k]) <= s[i]
  <2>1. s[k] < Wrap => Alike(s[i], s[k]) /\ Alike(s[k], s[i])
    BY <1>2 DEF Alike
  <2>2. (k > i /\ s[k] < Wrap) => End(mem, s[i]) <= s[k]
    BY <2>1 DEF Good, Placed, Used
  <2>3. (k < i /\ s[k] < Wrap) =>
           /\ s[k] + METADATA_SIZE <= s[i]
           /\ Used(mem, own, s[k]) => End(mem, s[k]) <= s[i]
    BY <2>1 DEF Good, Placed
  <2>4. s[k] # p
    <3>1. s[k] \in Nat /\ s[i] \in Nat
      BY <1>1
    <3>2. CASE s[k] >= Wrap
      BY <1>4, <1>5, <3>1, <3>2, Numbers
    <3>3. CASE s[k] < Wrap /\ k > i
      BY <1>4, <2>2, <3>1, <3>3, Numbers
    <3>4. CASE s[k] < Wrap /\ k < i
      BY <1>4, <2>3, <3>1, <3>4, Numbers
    <3>5. CASE k = i
      BY <1>4, <3>1, <3>5, Numbers
    <3> QED
      BY <1>1, <3>1, <3>2, <3>3, <3>4, <3>5, Numbers
  <2> QED
    BY <2>2, <2>3, <2>4
<1> HIDE DEF p
<1>7. /\ p \in Nat /\ s[i] + METADATA_SIZE + size = p
      /\ p + METADATA_SIZE + (mem[s[i]].size - size - METADATA_SIZE) = End(mem, s[i])
      /\ p + METADATA_SIZE <= End(mem, s[i]) /\ End(mem, s[i]) <= brk
      /\ End(mem, s[i]) \in Int /\ p < Wrap /\ s[i] < Wrap
  BY <1>2, <1>3, <1>4, <1>5
<1> QED
  BY <1>6, <1>7, Zenon DEF p

LEMMA SplitChained ==
  ASSUME NEW mem, NEW mem2, NEW start, NEW s, NEW i \in 1 .. Len(s),
         Typed(mem), Chained(mem, start, s), Distinct(s), NEW size, NEW p,
         Splits(mem, mem2, size, s[i], p), \A k \in 1 .. Len(s) : s[k] # p
  PROVE  Chained(mem2, start, Inserted(s, i, p))
<1> DEFINE t == Inserted(s, i, p)
           n == Len(s)
<1>1. s \in Seq(DOMAIN mem) /\ n \in Nat
  BY DEF Chained
<1>2. /\ t \in Seq(DOMAIN mem2) /\ Len(t) = n + 1
      /\ \A j \in 1 .. n + 1 :
            t[j] = IF j <= i THEN s[j] ELSE IF j = i + 1 THEN p ELSE s[j - 1]
  <2>1. DOMAIN mem \subseteq DOMAIN mem2 /\ p \in DOMAIN mem2
    BY DEF Splits
  <2> QED
    <3>1. s \in Seq(DOMAIN mem2)
      BY <1>1, <2>1
    <3> QED
      BY <2>1, <3>1, InsertedType
<1> HIDE DEF t
<1>3. mem[s[i]].next = IF i = n THEN NULL ELSE s[i + 1]
  BY DEF Chained
<1>4. ASSUME NEW k \in 1 .. n
      PROVE  /\ mem[s[k]].prev = IF k = 1 THEN NULL ELSE s[k - 1]
             /\ mem[s[k]].next = IF k = n THEN NULL ELSE s[k + 1]
             /\ mem2[s[k]].next = IF k = i THEN p ELSE mem[s[k]].next
             /\ mem2[s[k]].prev = IF k = i + 1 THEN p ELSE mem[s[k]].prev
  <2>1. s[k] \in DOMAIN mem /\ s[k] # NULL /\ s[k] # p
    BY InList
  <2>2. s[k] = s[i] <=> k = i
    BY <1>1 DEF Distinct
  <2>3. s[k] = mem[s[i]].next <=> k = i + 1
    <3>1. CASE i = n
      BY <1>1, <1>3, <2>1, <3>1
    <3>2. CASE i # n
      <4>1. i + 1 \in 1 .. n /\ mem[s[i]].next = s[i + 1]
        BY <1>1, <1>3, <3>2
      <4> QED
        BY <4>1 DEF Distinct
    <3> QED
      BY <3>1, <3>2
  <2>4. /\ mem[s[k]].prev = IF k = 1 THEN NULL ELSE s[k - 1]
        /\ mem[s[k]].next = IF k = n THEN NULL ELSE s[k + 1]
    BY DEF Chained
  <2>5. /\ mem2[s[k]].next = IF s[k] = s[i] THEN p ELSE mem[s[k]].next
        /\ mem2[s[k]].prev = IF s[k] = mem[s[i]].next THEN p ELSE mem[s[k]].prev
    BY <2>1 DEF Splits
  <2> QED
    BY <2>2, <2>3, <2>4, <2>5
<1>5. mem2[p].prev = s[i] /\ mem2[p].next = mem[s[i]].next
  BY DEF Splits
<1>6. ASSUME NEW k \in 1 .. n + 1
      PROVE  /\ mem2[t[k]].prev = IF k = 1 THEN NULL ELSE t[k - 1]
             /\ mem2[t[k]].next = IF k = n + 1 THEN NULL ELSE t[k + 1]
  <2>1. CASE k < i
    <3>1. t[k] = s[k] /\ t[k + 1] = s[k + 1] /\ (k # 1 => t[k - 1] = s[k - 1])
      BY <1>1, <1>2, <2>1
    <3>2. k \in 1 .. n /\ k # n /\ k # i + 1 /\ k # i /\ k # n + 1
      BY <1>1, <2>1
    <3> QED
      BY <1>4, <3>1, <3>2
  <2>2. CASE k = i
    <3>1. t[k] = s[k] /\ (k # 1 => t[k - 1] = s[k - 1]) /\ t[k + 1] = p
      BY <1>1, <1>2, <2>2
    <3>2. k \in 1 .. n /\ k # i + 1 /\ k # n + 1
      BY <1>1, <2>2
    <3> QED
      BY <1>4, <2>2, <3>1, <3>2
  <2>3. CASE k = i + 1
    <3>1. t[k] = p /\ t[k - 1] = s[i] /\ k # 1
      BY <1>1, <1>2, <2>3
    <3>2. k # n + 1 => t[k + 1] = s[i + 1]
      <4> SUFFICES ASSUME k # n + 1 PROVE t[k + 1] = s[i + 1]
        OBVIOUS
      <4>1. k + 1 \in 1 .. n + 1 /\ ~(k + 1 <= i) /\ k + 1 # i + 1 /\ k + 1 - 1 = i + 1
        BY <1>1, <2>3
      <4> QED
        BY <1>2, <4>1
    <3>3. i = n <=> k = n + 1
      BY <1>1, <2>3
    <3> QED
      BY <1>3, <1>5, <3>1, <3>2, <3>3
  <2>4. CASE k > i + 1
    <3>1. t[k] = s[k - 1]
      BY <1>1, <1>2, <2>4
    <3>2. t[k - 1] = IF k = i + 1 + 1 THEN p ELSE s[k - 1 - 1]
      <4>1. k - 1 \in 1 .. n + 1 /\ ~(k - 1 <= i) /\ (k - 1 = i + 1 <=> k = i + 1 + 1)
        BY <1>1, <2>4
      <4> QED
        BY <1>2, <4>1
    <3>3. k # n + 1 => t[k + 1] = s[k - 1 + 1]
      <4> SUFFICES ASSUME k # n + 1 PROVE t[k + 1] = s[k - 1 + 1]
        OBVIOUS
      <4>1. k + 1 \in 1 .. n + 1 /\ ~(k + 1 <= i) /\ k + 1 # i + 1 /\ k + 1 - 1 = k - 1 + 1
        BY <1>1, <2>4
      <4> QED
        BY <1>2, <4>1
    <3>4. /\ k - 1 \in 1 .. n /\ k - 1 # i /\ k - 1 # 1 /\ k # 1
          /\ (k - 1 = n <=> k = n + 1) /\ (k - 1 = i + 1 <=> k = i + 1 + 1)
      BY <1>1, <2>4
    <3>5. /\ mem2[s[k - 1]].prev = IF k - 1 = i + 1 THEN p ELSE s[k - 1 - 1]
          /\ mem2[s[k - 1]].next = IF k - 1 = n THEN NULL ELSE s[k - 1 + 1]
      BY <1>4, <3>4
    <3> QED
      BY <3>1, <3>2, <3>3, <3>4, <3>5
  <2> QED
    BY <1>1, <2>1, <2>2, <2>3, <2>4
<1>7. start = IF Len(t) = 0 THEN NULL ELSE t[1]
  BY <1>1, <1>2 DEF Chained
<1> QED
  BY <1>2, <1>6, <1>7 DEF Chained, t

\* What is known in the new memory of the blocks that were in the list, and of
\* the new one.
LEMMA SplitBlocks ==
  ASSUME NEW mem, NEW mem2, NEW start, NEW own, NEW brk \in Int, NEW top \in Int, NEW s,
         Good(mem, start, own, brk, top, s), brk <= Wrap, NEW i \in 1 .. Len(s),
         mem[s[i]].status = "FREE", NEW size \in Nat,
         mem[s[i]].size - size - METADATA_SIZE \in Nat,
         NEW p, p = Second(s[i], size), Splits(mem, mem2, size, s[i], p)
  PROVE  /\ End(mem2, p) = End(mem, s[i]) /\ mem2[p].status = "FREE"
         /\ End(mem2, s[i]) = p
         /\ \A k \in 1 .. Len(s) :
               /\ mem2[s[k]].status = mem[s[k]].status
               /\ Used(mem2, own, s[k]) <=> Used(mem, own, s[k])
               /\ k # i => mem2[s[k]].size = mem[s[k]].size
               /\ k # i => End(mem2, s[k]) = End(mem, s[k])
               /\ End(mem, s[k]) \in Int
<1>1. /\ Len(s) \in Nat
      /\ \A k \in 1 .. Len(s) :
            s[k] \in DOMAIN mem /\ s[k] \in Nat /\ mem[s[k]].size \in Nat
  BY InList DEF Good
<1>2. /\ p \in Nat /\ s[i] + METADATA_SIZE + size = p
      /\ p + METADATA_SIZE + (mem[s[i]].size - size - METADATA_SIZE) = End(mem, s[i])
      /\ \A k \in 1 .. Len(s) : s[k] # p
  BY SplitPlace
<1>3. Distinct(s)
  BY PlacedDistinct
<1>4. p \in DOMAIN mem2 /\ \A k \in 1 .. Len(s) : s[k] \in DOMAIN mem2
  BY <1>1 DEF Splits
<1>5. /\ mem2[p].status = "FREE"
      /\ mem2[p].size = mem[s[i]].size - size - METADATA_SIZE
  BY <1>4 DEF Splits
<1>6. End(mem2, p) = End(mem, s[i])
  BY <1>2, <1>5 DEF End
<1>7. ASSUME NEW k \in 1 .. Len(s)
      PROVE  /\ mem2[s[k]].status = mem[s[k]].status
             /\ Used(mem2, own, s[k]) <=> Used(mem, own, s[k])
             /\ mem2[s[k]].size = IF k = i THEN size ELSE mem[s[k]].size
             /\ End(mem, s[k]) \in Int
  <2>1. s[k] = s[i] <=> k = i
    BY <1>1, <1>3 DEF Distinct
  <2>2. /\ mem2[s[k]].status = mem[s[k]].status
        /\ mem2[s[k]].size = IF s[k] = s[i] THEN size ELSE mem[s[k]].size
    BY <1>2, <1>4 DEF Splits
  <2>3. Used(mem2, own, s[k]) <=> Used(mem, own, s[k])
    BY <2>2 DEF Used
  <2>4. End(mem, s[k]) \in Int
    BY <1>1, Numbers DEF End
  <2> QED
    BY <2>1, <2>2, <2>3, <2>4
<1>8. mem2[s[i]].size = size
  BY <1>7
<1>9. End(mem2, s[i]) = p
  BY <1>2, <1>8 DEF End
<1>10. \A k \in 1 .. Len(s) : k # i => /\ mem2[s[k]].size = mem[s[k]].size
                                       /\ End(mem2, s[k]) = End(mem, s[k])
  BY <1>7 DEF End
<1> QED
  BY <1>5, <1>6, <1>7, <1>9, <1>10

LEMMA SplitPlaced ==
  ASSUME NEW mem, NEW mem2, NEW start, NEW own, NEW brk \in Int, NEW top \in Int, NEW s,
         Good(mem, start, own, brk, top, s), brk <= Wrap, NEW i \in 1 .. Len(s),
         mem[s[i]].status = "FREE", NEW size \in Nat,
         mem[s[i]].size - size - METADATA_SIZE \in Nat,
         NEW p, p = Second(s[i], size), Splits(mem, mem2, size, s[i], p)
  PROVE  Placed(mem2, own, brk, top, Inserted(s, i, p))
<1> DEFINE t == Inserted(s, i, p)
           n == Len(s)
<1>1. /\ n \in Nat /\ s \in Seq(DOMAIN mem)
      /\ \A k \in 1 .. n : s[k] \in DOMAIN mem /\ s[k] \in Nat
  BY InList DEF Good, Chained
<1>2. /\ Len(t) = n + 1
      /\ \A j \in 1 .. n + 1 :
            t[j] = IF j <= i THEN s[j] ELSE IF j = i + 1 THEN p ELSE s[j - 1]
  <2>1. s \in Seq(DOMAIN mem2) /\ p \in DOMAIN mem2
    BY <1>1 DEF Splits
  <2> QED
    BY <2>1, InsertedType
<1> HIDE DEF t
<1>3. /\ p \in Nat /\ s[i] + METADATA_SIZE + size = p
      /\ p + METADATA_SIZE <= End(mem, s[i]) /\ End(mem, s[i]) <= brk
      /\ End(mem, s[i]) \in Int /\ p < Wrap /\ s[i] < Wrap
      /\ \A k \in 1 .. n :
            /\ (k > i /\ s[k] < Wrap) => End(mem, s[i]) <= s[k]
            /\ (k < i /\ s[k] < Wrap) =>
                  /\ s[k] + METADATA_SIZE <= s[i]
                  /\ Used(mem, own, s[k]) => End(mem, s[k]) <= s[i]
  BY SplitPlace
<1>4. /\ End(mem2, p) = End(mem, s[i]) /\ mem2[p].status = "FREE"
      /\ End(mem2, s[i]) = p
      /\ \A k \in 1 .. n :
            /\ mem2[s[k]].status = mem[s[k]].status
            /\ Used(mem2, own, s[k]) <=> Used(mem, own, s[k])
            /\ k # i => End(mem2, s[k]) = End(mem, s[k])
            /\ End(mem, s[k]) \in Int
  BY SMTT(30), SplitBlocks
\* A block of the new list is the new one, or one that was there.
<1>5. ASSUME NEW k \in 1 .. n + 1, k # i + 1
      PROVE  \E q \in 1 .. n : t[k] = s[q] /\ q = IF k <= i THEN k ELSE k - 1
  <2>1. CASE k <= i
    <3>1. k \in 1 .. n /\ t[k] = s[k]
      BY <1>1, <1>2, <2>1
    <3> QED
      BY <2>1, <3>1
  <2>2. CASE k > i + 1
    <3>1. k - 1 \in 1 .. n /\ t[k] = s[k - 1]
      BY <1>1, <1>2, <2>2
    <3> QED
      BY <2>2, <3>1
  <2> QED
    BY <1>1, <1>5, <2>1, <2>2
<1>6. i + 1 \in 1 .. n + 1 /\ t[i + 1] = p
  BY <1>1, <1>2
<1>7. ASSUME NEW k \in 1 .. n + 1
      PROVE  /\ t[k] + METADATA_SIZE <= Limit(brk, top, t[k])
             /\ Used(mem2, own, t[k]) => End(mem2, t[k]) <= Limit(brk, top, t[k])
             /\ mem2[t[k]].status = "MAPPED" <=> t[k] >= Wrap
  <2>1. CASE k = i + 1
    BY <1>3, <1>4, <1>6, <2>1, Numbers DEF Limit
  <2>2. CASE k # i + 1
    <3>1. PICK q \in 1 .. n : t[k] = s[q]
      BY <1>5, <2>2
    <3>2. /\ s[q] + METADATA_SIZE <= Limit(brk, top, s[q])
          /\ Used(mem, own, s[q]) => End(mem, s[q]) <= Limit(brk, top, s[q])
          /\ mem[s[q]].status = "MAPPED" <=> s[q] >= Wrap
      BY DEF Good, Placed
    <3>3. CASE q = i
      <4>1. p <= brk /\ Limit(brk, top, s[q]) = brk
        BY <1>3, <3>3, Numbers DEF Limit
      <4> QED
        BY <1>4, <3>1, <3>2, <3>3, <4>1
    <3>4. CASE q # i
      BY <1>4, <3>1, <3>2, <3>4
    <3> QED
      BY <3>3, <3>4
  <2> QED
    BY <2>1, <2>2
<1>8. ASSUME NEW j \in 1 .. n + 1, NEW k \in 1 .. n + 1, j < k, Alike(t[j], t[k])
      PROVE  /\ t[j] + METADATA_SIZE <= t[k]
             /\ Used(mem2, own, t[j]) => End(mem2, t[j]) <= t[k]
  <2>1. CASE j = i + 1
    <3>1. PICK q \in 1 .. n : t[k] = s[q] /\ q > i
      BY <1>5, <1>8, <2>1
    <3>2. s[q] < Wrap
      BY SMTT(30), <1>1, <1>3, <1>6, <1>8, <2>1, <3>1, Numbers DEF Alike
    <3>3. End(mem, s[i]) <= s[q]
      BY <1>3, <3>1, <3>2
    <3>4. t[j] = p /\ End(mem2, p) = End(mem, s[i])
      BY <1>4, <1>6, <2>1
    <3>5. p + METADATA_SIZE <= s[q]
      <4>1. PICK e \in Int : e = End(mem, s[i])
        BY <1>3
      <4>2. PICK x \in Nat : x = s[q]
        BY <1>1
      <4>3. p \in Nat /\ p + METADATA_SIZE <= e /\ e <= x
        BY <1>3, <3>3, <4>1, <4>2
      <4>4. p + METADATA_SIZE <= x
        BY <4>3, Numbers
      <4> QED
        BY <4>2, <4>4
    <3> QED
      BY <3>1, <3>3, <3>4, <3>5
  <2>2. CASE k = i + 1
    <3>1. PICK q \in 1 .. n : t[j] = s[q] /\ q <= i
      BY <1>5, <1>8, <2>2
    <3>2. s[q] < Wrap
      BY <1>1, <1>3, <1>6, <1>8, <2>2, <3>1, Numbers DEF Alike
    <3>3. CASE q = i
      BY SMTT(30), <1>1, <1>3, <1>4, <1>6, <2>2, <3>1, <3>3, Numbers
    <3>4. CASE q # i
      <4>1. /\ s[q] + METADATA_SIZE <= s[i]
            /\ Used(mem, own, s[q]) => End(mem, s[q]) <= s[i]
        BY <1>1, <1>3, <3>1, <3>2, <3>4
      <4>2. s[i] <= p /\ s[q] \in Nat /\ s[i] \in Nat
        BY SMTT(30), <1>1, <1>3, Numbers
      <4>3. Used(mem2, own, s[q]) => End(mem2, s[q]) <= p
        BY <1>3, <1>4, <3>4, <4>1, <4>2
      <4> QED
        <5>1. t[k] = p
          BY <1>6, <2>2
        <5>2. s[q] + METADATA_SIZE <= p
          <6>1. PICK x \in Nat, y \in Nat : x = s[q] /\ y = s[i]
            BY <4>2
          <6>2. x + METADATA_SIZE <= y
            BY <4>1, <6>1
          <6>3. y <= p
            BY <4>2, <6>1
          <6>4. p \in Nat
            BY <1>3
          <6>5. x + METADATA_SIZE <= p
            BY <6>2, <6>3, <6>4, Numbers
          <6> QED
            BY <6>1, <6>5
        <5> QED
          BY <3>1, <4>3, <5>1, <5>2
    <3> QED
      BY <3>3, <3>4
  <2>3. CASE j # i + 1 /\ k # i + 1
    <3>1. PICK q \in 1 .. n : t[j] = s[q] /\ q = IF j <= i THEN j ELSE j - 1
      BY <1>5, <2>3
    <3>2. PICK r \in 1 .. n : t[k] = s[r] /\ r = IF k <= i THEN k ELSE k - 1
      BY <1>5, <2>3
    <3>3. q < r /\ Alike(s[q], s[r])
      BY <1>1, <1>8, <2>3, <3>1, <3>2
    <3>4. /\ s[q] + METADATA_SIZE <= s[r]
          /\ Used(mem, own, s[q]) => End(mem, s[q]) <= s[r]
      BY <3>3 DEF Good, Placed
    <3>5. CASE q = i
      <4>1. s[r] < Wrap
        BY SMTT(30), <1>1, <1>3, <3>3, <3>5, Numbers DEF Alike
      <4>2. End(mem, s[i]) <= s[r]
        BY <1>1, <1>3, <3>3, <3>5, <4>1
      <4>3. p <= s[r]
        <5>1. PICK e \in Int : e = End(mem, s[i])
          BY <1>3
        <5>2. p \in Nat /\ s[r] \in Nat /\ p + METADATA_SIZE <= e /\ e <= s[r]
          BY <1>1, <1>3, <4>2, <5>1
        <5> QED
          BY SMTT(30), <5>2, Numbers
      <4> QED
        BY <1>4, <3>1, <3>2, <3>4, <3>5, <4>3
    <3>6. CASE q # i
      BY <1>4, <3>1, <3>2, <3>4, <3>6
    <3> QED
      BY <3>5, <3>6
  <2> QED
    BY <2>1, <2>2, <2>3
<1> QED
  BY <1>2, <1>7, <1>8 DEF Placed, t

\* split_block leaves a good list, with last its end if it was.
Cut(heap, own, s, i, size, split) ==
    /\ IsHeap(split) /\ split.start = heap.start
    /\ split.brk = heap.brk /\ split.top = heap.top
    /\ \E t : /\ Good(split.mem, heap.start, own, heap.brk, heap.top, t)
              /\ split.last = t[Len(t)] /\ i \in 1 .. Len(t) /\ t[i] = s[i]
    /\ split.mem[s[i]].size = size /\ split.mem[s[i]].status = "FREE"

LEMMA SplitGood ==
  ASSUME NEW heap, IsHeap(heap), NEW own, heap.brk \in Int, heap.top \in Int, NEW s,
         Good(heap.mem, heap.start, own, heap.brk, heap.top, s), heap.brk <= Wrap,
         NEW i \in 1 .. Len(s), heap.mem[s[i]].status = "FREE", NEW size \in Nat,
         heap.mem[s[i]].size - size - METADATA_SIZE \in Nat,
         heap.last = s[Len(s)], NEW split, split = split_block(heap, size, s[i])
  PROVE  Cut(heap, own, s, i, size, split)
<1> DEFINE mem == heap.mem
           p == Second(s[i], size)
           n == Len(s)
           t == Inserted(s, i, p)
<1>1. /\ n \in Nat /\ s \in Seq(DOMAIN mem) /\ Typed(mem) /\ Chained(mem, heap.start, s)
      /\ \A k \in 1 .. n : s[k] \in DOMAIN mem /\ s[k] \in Nat
  BY InList DEF Good, Chained
<1>2. Distinct(s)
  BY PlacedDistinct
<1>3. /\ p \in Nat /\ \A k \in 1 .. n : s[k] # p
  BY SplitPlace
<1>4. mem[s[i]].next = IF i = n THEN NULL ELSE s[i + 1]
  BY <1>1 DEF Chained
<1>5. mem[s[i]].next \in DOMAIN mem \cup {NULL} /\ mem[s[i]].next # p
  <2>1. NULL # p
    BY <1>3 DEF NULL
  <2>2. i # n => i + 1 \in 1 .. n
    BY <1>1
  <2> HIDE DEF p, mem, n
  <2> QED
    BY <1>1, <1>3, <1>4, <2>1, <2>2
<1>6. /\ Splits(mem, split.mem, size, s[i], p) /\ IsHeap(split)
      /\ split.start = heap.start /\ split.brk = heap.brk /\ split.top = heap.top
      /\ split.last = IF heap.last = s[i] THEN p ELSE heap.last
  BY <1>1, <1>5, SplitFields
<1> HIDE DEF p
<1>7. Chained(split.mem, heap.start, t)
  BY <1>1, <1>2, <1>3, <1>6, SplitChained
<1>8. Placed(split.mem, own, heap.brk, heap.top, t)
  BY <1>6, SplitPlaced DEF p
<1>9. /\ Len(t) = n + 1
      /\ \A j \in 1 .. n + 1 :
            t[j] = IF j <= i THEN s[j] ELSE IF j = i + 1 THEN p ELSE s[j - 1]
  <2>1. s \in Seq(DOMAIN split.mem) /\ p \in DOMAIN split.mem
    BY <1>1, <1>6 DEF Splits
  <2> QED
    BY <2>1, InsertedType
<1> HIDE DEF t
<1>10. /\ \A k \in 1 .. n : /\ split.mem[s[k]].status = mem[s[k]].status
                            /\ k # i => split.mem[s[k]].size = mem[s[k]].size
  BY SMTT(30), <1>6, SplitBlocks DEF p
<1>11. split.mem[s[i]].size = size /\ split.mem[s[i]].status = "FREE"
  <2>1. s[i] \in DOMAIN split.mem /\ s[i] # p
    BY <1>1, <1>3, <1>6 DEF Splits
  <2> QED
    BY <1>6, <2>1 DEF Splits
<1>12. Owned(split.mem, own, t)
  <2> SUFFICES ASSUME NEW a \in DOMAIN own
               PROVE  /\ \E k \in 1 .. Len(t) : t[k] = a
                      /\ split.mem[a].status # "FREE" /\ own[a] <= split.mem[a].size
    BY DEF Owned
  <2>1. PICK k \in 1 .. n : s[k] = a
    BY DEF Good, Owned
  <2>2. mem[a].status # "FREE" /\ own[a] <= mem[a].size
    BY DEF Good, Owned
  <2>3. k # i
    BY <2>1, <2>2
  <2>4. \E j \in 1 .. Len(t) : t[j] = a
    <3>1. CASE k < i
      <4>1. k \in 1 .. n + 1 /\ k <= i
        BY <1>1, <3>1
      <4> QED
        BY <1>9, <2>1, <4>1
    <3>2. CASE k > i
      <4>1. k + 1 \in 1 .. n + 1 /\ ~(k + 1 <= i) /\ k + 1 # i + 1 /\ k + 1 - 1 = k
        BY <1>1, <3>2
      <4>2. t[k + 1] = s[k + 1 - 1]
        BY <1>9, <4>1
      <4> QED
        BY <1>9, <2>1, <4>1, <4>2
    <3> QED
      BY <1>1, <2>3, <3>1, <3>2
  <2> QED
    BY <1>10, <2>1, <2>2, <2>3, <2>4
<1>13. Good(split.mem, heap.start, own, heap.brk, heap.top, t)
  BY <1>6, <1>7, <1>8, <1>12 DEF Good, Splits
<1>14. split.last = t[Len(t)]
  <2>1. n \in 1 .. n /\ n + 1 \in 1 .. n + 1
    BY <1>1
  <2>2. heap.last = s[i] <=> i = n
    BY <1>2, <2>1 DEF Distinct
  <2>3. t[n + 1] = IF i = n THEN p ELSE s[n]
    <3>2. PICK j \in 1 .. n + 1 : j = n + 1
      BY <2>1
    <3>3. t[j] = IF j <= i THEN s[j] ELSE IF j = i + 1 THEN p ELSE s[j - 1]
      BY <1>9
    <3>4. ~(j <= i) /\ (j = i + 1 <=> i = n) /\ j - 1 = n
      BY <1>1, <3>2
    <3> QED
      BY <3>2, <3>3, <3>4
  <2> QED
    BY <1>6, <1>9, <2>2, <2>3
<1>15. i \in 1 .. Len(t) /\ t[i] = s[i]
  BY <1>1, <1>9
<1> QED
  BY <1>6, <1>11, <1>13, <1>14, <1>15 DEF Cut

-----------------------------------------------------------------------------
(* Taking and giving back a block.                                         *)

\* Only the status and the size of block a change.
Changes(mem, mem2, a, status, size) ==
    /\ Typed(mem2) /\ DOMAIN mem2 = DOMAIN mem
    /\ \A x \in DOMAIN mem :
          /\ mem2[x].next = mem[x].next /\ mem2[x].prev = mem[x].prev
          /\ mem2[x].status = IF x = a THEN status ELSE mem[x].status
          /\ mem2[x].size = IF x = a THEN size ELSE mem[x].size

LEMMA ChangeFields ==
  ASSUME NEW mem, Typed(mem), NEW a \in DOMAIN mem, NEW size \in Nat,
         NEW status \in {"FREE", "ALLOC", "MAPPED"}
  PROVE  /\ Changes(mem, [mem EXCEPT ![a].status = status], a, status, mem[a].size)
         /\ Changes(mem, [mem EXCEPT ![a].status = status, ![a].size = size], a, status, size)
<1>1. mem \in [DOMAIN mem -> Headers]
  BY DEF Typed
<1>2. ASSUME NEW z \in Nat, NEW two,
             two = [x \in DOMAIN mem |->
                       IF x = a THEN [size |-> z, status |-> status, prev |-> mem[a].prev,
                                      next |-> mem[a].next] ELSE mem[x]]
      PROVE  Changes(mem, two, a, status, z)
  <2>1. ASSUME NEW x \in DOMAIN mem
        PROVE  /\ two[x] \in Headers
               /\ two[x].next = mem[x].next /\ two[x].prev = mem[x].prev
               /\ two[x].status = IF x = a THEN status ELSE mem[x].status
               /\ two[x].size = IF x = a THEN z ELSE mem[x].size
    <3>1. mem[x] \in Headers /\ mem[a] \in Headers
      BY <1>1
    <3>2. CASE x = a
      <4>1. two[x] = [size |-> z, status |-> status, prev |-> mem[a].prev,
                      next |-> mem[a].next]
        BY <1>2, <3>2
      <4> QED
        BY <3>1, <3>2, <4>1 DEF Headers
    <3>3. CASE x # a
      <4>1. two[x] = mem[x]
        BY <1>2, <3>3
      <4> QED
        BY <3>1, <3>3, <4>1
    <3> QED
      BY <3>2, <3>3
  <2>2. DOMAIN two = DOMAIN mem /\ two = [x \in DOMAIN mem |-> two[x]]
    BY <1>2
  <2>3. two \in [DOMAIN mem -> Headers]
    BY <2>1, <2>2
  <2>4. Typed(two)
    BY <2>2, <2>3 DEF Typed
  <2> QED
    BY <2>1, <2>2, <2>4 DEF Changes
<1>3. mem[a] \in Headers /\ mem[a].size \in Nat
  BY <1>1 DEF Headers
<1>4. mem[a] = [size |-> mem[a].size, status |-> mem[a].status, prev |-> mem[a].prev,
                next |-> mem[a].next]
  BY <1>3 DEF Headers
<1>5. [mem EXCEPT ![a].status = status] =
        [x \in DOMAIN mem |->
            IF x = a THEN [size |-> mem[a].size, status |-> status, prev |-> mem[a].prev,
                           next |-> mem[a].next] ELSE mem[x]]
  BY <1>1, <1>4
<1>6. [mem EXCEPT ![a].status = status, ![a].size = size] =
        [x \in DOMAIN mem |->
            IF x = a THEN [size |-> size, status |-> status, prev |-> mem[a].prev,
                           next |-> mem[a].next] ELSE mem[x]]
  <2> DEFINE one == [mem EXCEPT ![a].status = status]
  <2>1. [mem EXCEPT ![a].status = status, ![a].size = size] =
          [one EXCEPT ![a].size = size]
    BY Zenon
  <2>2. /\ DOMAIN one = DOMAIN mem /\ \A x \in DOMAIN mem : x # a => one[x] = mem[x]
        /\ one[a] = [size |-> mem[a].size, status |-> status, prev |-> mem[a].prev,
                     next |-> mem[a].next]
        /\ one = [x \in DOMAIN mem |-> one[x]]
    BY <1>5
  <2> HIDE DEF one
  <2>3. [one[a] EXCEPT !.size = size] =
           [size |-> size, status |-> status, prev |-> mem[a].prev, next |-> mem[a].next]
    BY <2>2
  <2>4. [one EXCEPT ![a].size = size] =
          [x \in DOMAIN mem |-> IF x = a THEN [one[a] EXCEPT !.size = size] ELSE one[x]]
    BY <2>2
  <2> QED
    BY <2>1, <2>2, <2>3, <2>4
<1> QED
  BY <1>2, <1>3, <1>5, <1>6

LEMMA ChangeChained ==
  ASSUME NEW mem, NEW mem2, NEW start, NEW s, Typed(mem), Chained(mem, start, s),
         DOMAIN mem \subseteq DOMAIN mem2,
         \A k \in 1 .. Len(s) : /\ mem2[s[k]].next = mem[s[k]].next
                                /\ mem2[s[k]].prev = mem[s[k]].prev
  PROVE  Chained(mem2, start, s)
<1>1. s \in Seq(DOMAIN mem2)
  BY DEF Chained
<1> QED
  BY <1>1 DEF Chained

\* A free block is taken: where it is, or as the last one with the heap made
\* longer for it.
LEMMA TakeGood ==
  ASSUME NEW mem, NEW mem2, NEW start, NEW own, NEW brk \in Int, NEW top \in Int, NEW s,
         Good(mem, start, own, brk, top, s), NEW i \in 1 .. Len(s),
         mem[s[i]].status = "FREE", NEW brk2 \in Int, brk <= brk2,
         NEW z \in Nat, NEW asked, asked <= z,
         Changes(mem, mem2, s[i], "ALLOC", z), s[i] + METADATA_SIZE + z <= brk2,
         z <= mem[s[i]].size \/ i = Len(s)
  PROVE  Good(mem2, start, With(own, s[i], asked), brk2, top, s)
<1> DEFINE n == Len(s)
           two == With(own, s[i], asked)
<1>1. /\ n \in Nat /\ Typed(mem) /\ Chained(mem, start, s)
      /\ \A k \in 1 .. n : /\ s[k] \in DOMAIN mem /\ s[k] \in Nat /\ mem[s[k]].size \in Nat
  BY InList DEF Good, Chained
<1>2. Distinct(s)
  BY PlacedDistinct
<1>3. Chained(mem2, start, s)
  BY <1>1, ChangeChained DEF Changes
<1>4. /\ DOMAIN two = DOMAIN own \cup {s[i]}
      /\ \A x \in DOMAIN two : two[x] = IF x = s[i] THEN asked ELSE own[x]
  BY DEF With
<1> HIDE DEF two
<1>5. s[i] < Wrap
  <2>1. mem[s[i]].status = "MAPPED" <=> s[i] >= Wrap
    BY DEF Good, Placed
  <2> QED
    BY <1>1, <2>1, Numbers
<1>6. ASSUME NEW k \in 1 .. n
      PROVE  /\ mem2[s[k]].status = IF k = i THEN "ALLOC" ELSE mem[s[k]].status
             /\ mem2[s[k]].size = IF k = i THEN z ELSE mem[s[k]].size
             /\ Used(mem2, two, s[k]) <=> Used(mem, own, s[k])
             /\ End(mem2, s[k]) = IF k = i THEN s[i] + METADATA_SIZE + z ELSE End(mem, s[k])
             /\ End(mem, s[k]) \in Int
  <2>1. s[k] = s[i] <=> k = i
    BY <1>1, <1>2 DEF Distinct
  <2>2. /\ mem2[s[k]].status = IF s[k] = s[i] THEN "ALLOC" ELSE mem[s[k]].status
        /\ mem2[s[k]].size = IF s[k] = s[i] THEN z ELSE mem[s[k]].size
    BY <1>1 DEF Changes
  <2>3. Used(mem2, two, s[k]) <=> Used(mem, own, s[k])
    BY <1>4, <2>1, <2>2 DEF Used
  <2>4. End(mem2, s[k]) = IF k = i THEN s[i] + METADATA_SIZE + z ELSE End(mem, s[k])
    BY <2>1, <2>2 DEF End
  <2>5. End(mem, s[k]) \in Int
    <3>1. PICK a \in Nat, x \in Nat : a = s[k] /\ x = mem[s[k]].size
      BY <1>1
    <3>2. a + METADATA_SIZE + x \in Int
      BY Numbers
    <3> QED
      BY <3>1, <3>2 DEF End
  <2>6. /\ mem2[s[k]].status = IF k = i THEN "ALLOC" ELSE mem[s[k]].status
        /\ mem2[s[k]].size = IF k = i THEN z ELSE mem[s[k]].size
    BY <2>1, <2>2
  <2> QED
    BY <2>3, <2>4, <2>5, <2>6
<1>7. ASSUME NEW k \in 1 .. n
      PROVE  /\ s[k] + METADATA_SIZE <= Limit(brk2, top, s[k])
             /\ Used(mem2, two, s[k]) => End(mem2, s[k]) <= Limit(brk2, top, s[k])
             /\ mem2[s[k]].status = "MAPPED" <=> s[k] >= Wrap
  <2>1. /\ s[k] + METADATA_SIZE <= Limit(brk, top, s[k])
        /\ Used(mem, own, s[k]) => End(mem, s[k]) <= Limit(brk, top, s[k])
        /\ mem[s[k]].status = "MAPPED" <=> s[k] >= Wrap
    BY DEF Good, Placed
  <2>2. /\ Limit(brk, top, s[k]) <= Limit(brk2, top, s[k])
        /\ Limit(brk, top, s[k]) \in Int /\ Limit(brk2, top, s[k]) \in Int
    BY DEF Limit
  <2>3. CASE k = i
    <3>1. Limit(brk2, top, s[k]) = brk2
      BY <1>5, <2>3 DEF Limit
    <3>2. ~(s[k] >= Wrap) /\ mem2[s[k]].status = "ALLOC"
      <4>1. ~(s[i] >= Wrap)
        BY <1>1, <1>5, Numbers
      <4> QED
        BY <1>6, <2>3, <4>1
    <3>3. s[k] + METADATA_SIZE <= Limit(brk2, top, s[k])
      BY <1>1, <2>1, <2>2, Numbers
    <3> QED
      BY <1>6, <2>3, <3>1, <3>2, <3>3
  <2>4. CASE k # i
    <3>1. s[k] + METADATA_SIZE <= Limit(brk2, top, s[k])
      BY SMTT(30), <1>1, <2>1, <2>2, Numbers
    <3>2. Used(mem2, two, s[k]) => End(mem2, s[k]) <= Limit(brk2, top, s[k])
      BY <1>6, <2>1, <2>2, <2>4
    <3> QED
      BY <1>6, <2>1, <2>4, <3>1, <3>2
  <2> QED
    BY <2>3, <2>4
<1>8. ASSUME NEW j \in 1 .. n, NEW k \in 1 .. n, j < k, Alike(s[j], s[k])
      PROVE  /\ s[j] + METADATA_SIZE <= s[k]
             /\ Used(mem2, two, s[j]) => End(mem2, s[j]) <= s[k]
  <2>1. /\ s[j] + METADATA_SIZE <= s[k]
        /\ Used(mem, own, s[j]) => End(mem, s[j]) <= s[k]
    BY <1>8 DEF Good, Placed
  <2>2. CASE j = i
    <3>1. z <= mem[s[i]].size
      BY <1>1, <1>8, <2>2
    <3>2. End(mem, s[i]) <= s[k]
      BY <2>1, <2>2 DEF Used
    <3>3. s[i] + METADATA_SIZE + z <= s[k]
      BY <1>1, <3>1, <3>2, Numbers DEF End
    <3> QED
      BY <1>6, <2>1, <2>2, <3>3
  <2>3. CASE j # i
    BY <1>6, <2>1, <2>3
  <2> QED
    BY <2>2, <2>3
<1>9. Placed(mem2, two, brk2, top, s)
  BY <1>7, <1>8 DEF Placed
<1>10. Owned(mem2, two, s)
  <2> SUFFICES ASSUME NEW a \in DOMAIN two
               PROVE  /\ \E k \in 1 .. n : s[k] = a
                      /\ mem2[a].status # "FREE" /\ two[a] <= mem2[a].size
    BY DEF Owned
  <2>1. CASE a = s[i]
    BY <1>4, <1>6, <2>1
  <2>2. CASE a # s[i]
    <3>1. a \in DOMAIN own /\ two[a] = own[a]
      BY <1>4, <2>2
    <3>2. PICK k \in 1 .. n : s[k] = a
      BY <3>1 DEF Good, Owned
    <3>3. mem[a].status # "FREE" /\ own[a] <= mem[a].size
      BY <3>1 DEF Good, Owned
    <3>4. k # i
      BY <2>2, <3>2
    <3> QED
      BY <1>6, <3>1, <3>2, <3>3, <3>4
  <2> QED
    BY <2>1, <2>2
<1> QED
  BY <1>3, <1>9, <1>10 DEF Good, Changes, two

\* A block is given back: free, or, as a mapping, no longer held.
LEMMA FreeGood ==
  ASSUME NEW mem, NEW mem2, NEW start, NEW own, NEW brk \in Int, NEW top \in Int, NEW s,
         Good(mem, start, own, brk, top, s), NEW a \in DOMAIN own,
         \/ mem[a].status # "MAPPED" /\ Changes(mem, mem2, a, "FREE", mem[a].size)
         \/ mem[a].status = "MAPPED" /\ mem2 = mem
  PROVE  Good(mem2, start, Restrict(own, DOMAIN own \ {a}), brk, top, s)
<1> DEFINE n == Len(s)
           two == Restrict(own, DOMAIN own \ {a})
<1>1. /\ n \in Nat /\ Typed(mem) /\ Chained(mem, start, s)
      /\ \A k \in 1 .. n : s[k] \in DOMAIN mem
  BY InList DEF Good, Chained
<1>2. DOMAIN two = DOMAIN own \ {a} /\ \A x \in DOMAIN two : two[x] = own[x]
  BY DEF Restrict
<1> HIDE DEF two
<1>3. PICK i \in 1 .. n : s[i] = a
  BY DEF Good, Owned
<1>4. Typed(mem2) /\ Chained(mem2, start, s)
  BY <1>1, ChangeChained DEF Changes
<1>5. mem[a].status = "MAPPED" <=> a >= Wrap
  BY <1>3 DEF Good, Placed
<1>6. ASSUME NEW x \in DOMAIN mem
      PROVE  /\ mem2[x].size = mem[x].size
             /\ x # a => mem2[x].status = mem[x].status
             /\ (mem2[x].status = "MAPPED" <=> mem[x].status = "MAPPED")
             /\ Used(mem2, two, x) <=> Used(mem, own, x)
             /\ End(mem2, x) = End(mem, x)
  <2>1. CASE mem[a].status = "MAPPED" /\ mem2 = mem
    <3>1. Used(mem2, two, x) <=> Used(mem, own, x)
      BY <1>2, <1>5, <2>1 DEF Used
    <3> QED
      BY <2>1, <3>1
  <2>2. CASE mem[a].status # "MAPPED" /\ Changes(mem, mem2, a, "FREE", mem[a].size)
    <3>1. /\ mem2[x].size = mem[x].size
          /\ mem2[x].status = IF x = a THEN "FREE" ELSE mem[x].status
      BY <2>2 DEF Changes
    <3>2. Used(mem2, two, x) <=> Used(mem, own, x)
      BY <1>2, <3>1 DEF Used
    <3> QED
      BY <2>2, <3>1, <3>2 DEF End
  <2> QED
    BY <2>1, <2>2
<1>7. Placed(mem2, two, brk, top, s)
  BY <1>1, <1>6 DEF Good, Placed
<1>8. Owned(mem2, two, s)
  <2> SUFFICES ASSUME NEW x \in DOMAIN two
               PROVE  /\ \E k \in 1 .. n : s[k] = x
                      /\ mem2[x].status # "FREE" /\ two[x] <= mem2[x].size
    BY DEF Owned
  <2>1. x \in DOMAIN own /\ x # a /\ two[x] = own[x]
    BY <1>2
  <2>2. PICK k \in 1 .. n : s[k] = x
    BY <2>1 DEF Good, Owned
  <2>3. mem[x].status # "FREE" /\ own[x] <= mem[x].size
    BY <2>1 DEF Good, Owned
  <2> QED
    BY <1>1, <1>6, <2>1, <2>2, <2>3
<1> QED
  BY <1>4, <1>7, <1>8 DEF Good, two

-----------------------------------------------------------------------------
(* A new block at the end of the list.                                     *)

\* What add_block changes.
Adds(mem, mem2, last, size, status, at) ==
    /\ Typed(mem2) /\ DOMAIN mem2 = DOMAIN mem \cup {at}
    /\ \A x \in DOMAIN mem2 :
          /\ mem2[x].status = IF x = at THEN status ELSE mem[x].status
          /\ mem2[x].size = IF x = at THEN size ELSE mem[x].size
          /\ mem2[x].next = IF x = at THEN NULL ELSE IF x = last THEN at ELSE mem[x].next
          /\ mem2[x].prev = IF x = at THEN last ELSE mem[x].prev

LEMMA AddFields ==
  ASSUME NEW heap, IsHeap(heap), Typed(heap.mem),
         heap.last \in DOMAIN heap.mem \cup {NULL},
         NEW size \in Nat, NEW status \in {"FREE", "ALLOC", "MAPPED"}, NEW at \in Nat
  PROVE  LET added == add_block(heap, size, status, at)
         IN  /\ Adds(heap.mem, added.mem, heap.last, size, status, at) /\ IsHeap(added)
             /\ added.start = IF heap.last = NULL THEN at ELSE heap.start
             /\ added.last = at /\ added.brk = heap.brk /\ added.top = heap.top
<1> DEFINE mem == heap.mem
           last == heap.last
           new == [size |-> size, status |-> status, prev |-> last, next |-> NULL]
           one == SetNext(mem, last, at)
           two == With(one, at, new)
           added == add_block(heap, size, status, at)
<1>1. mem \in [DOMAIN mem -> Headers] /\ last \in Int /\ NULL \notin DOMAIN mem /\ NULL \in Int
  BY DEF Typed, NULL
<1>2. added = [mem |-> two, start |-> IF heap.last = NULL THEN at ELSE heap.start,
               last |-> at, brk |-> heap.brk, top |-> heap.top]
  <2> DEFINE first == IF heap.last = NULL THEN at ELSE heap.start
  <2>1. added = Ends(heap, two, first, at)
    BY Zenon DEF add_block, Ends
  <2> HIDE DEF added, two, first
  <2>2. added = [mem |-> two, start |-> first, last |-> at, brk |-> heap.brk,
                 top |-> heap.top]
    BY <2>1, HeapEnds
  <2> QED
    BY <2>2 DEF first
<1>3. /\ one \in [DOMAIN mem -> Headers]
      /\ \A x \in DOMAIN mem :
           /\ one[x].status = mem[x].status /\ one[x].size = mem[x].size
           /\ one[x].prev = mem[x].prev
           /\ one[x].next = IF x = last THEN at ELSE mem[x].next
  <2>1. CASE last = NULL
    BY <1>1, <2>1 DEF SetNext
  <2>2. CASE last # NULL
    <3>1. one = [mem EXCEPT ![last].next = at] /\ last \in DOMAIN mem
      BY <2>2 DEF SetNext
    <3>2. \A x \in DOMAIN mem :
             one[x] = IF x = last THEN [mem[x] EXCEPT !.next = at] ELSE mem[x]
      BY <1>1, <3>1
    <3>3. ASSUME NEW x \in DOMAIN mem
          PROVE  /\ one[x] \in Headers
                 /\ one[x].status = mem[x].status /\ one[x].size = mem[x].size
                 /\ one[x].prev = mem[x].prev
                 /\ one[x].next = IF x = last THEN at ELSE mem[x].next
      <4>1. mem[x] \in Headers
        BY <1>1
      <4> HIDE DEF one, mem, last
      <4>2. CASE x # last
        BY <3>2, <4>1, <4>2
      <4>3. CASE x = last
        <5>1. one[x] = [size |-> mem[x].size, status |-> mem[x].status,
                        prev |-> mem[x].prev, next |-> at]
          BY <3>2, <4>1, <4>3 DEF Headers
        <5> QED
          BY <4>1, <4>3, <5>1 DEF Headers
      <4> QED
        BY <4>2, <4>3
    <3>4. one = [x \in DOMAIN mem |-> one[x]]
      BY <3>1
    <3> HIDE DEF one
    <3> QED
      BY <3>3, <3>4
  <2> QED
    BY <2>1, <2>2
<1> HIDE DEF one
<1>4. new \in Headers
  BY <1>1 DEF Headers
<1>5. /\ DOMAIN two = DOMAIN mem \cup {at}
      /\ two \in [DOMAIN mem \cup {at} -> Headers]
      /\ \A x \in DOMAIN mem \cup {at} : two[x] = IF x = at THEN new ELSE one[x]
  BY <1>3, <1>4 DEF With
<1> HIDE DEF two
<1>6. Typed(two)
  <2>1. IsFiniteSet(DOMAIN mem \cup {at})
    BY FS_AddElement DEF Typed
  <2> QED
    BY <1>1, <1>5, <2>1 DEF Typed
<1>7. ASSUME NEW x \in DOMAIN mem \cup {at}
      PROVE  /\ two[x].status = IF x = at THEN status ELSE mem[x].status
             /\ two[x].size = IF x = at THEN size ELSE mem[x].size
             /\ two[x].next = IF x = at THEN NULL ELSE IF x = last THEN at ELSE mem[x].next
             /\ two[x].prev = IF x = at THEN last ELSE mem[x].prev
  <2>1. CASE x = at
    BY <1>5, <2>1
  <2>2. CASE x # at
    <3>1. two[x] = one[x] /\ x \in DOMAIN mem
      BY <1>5, <2>2
    <3> HIDE DEF new, mem, last
    <3> QED
      BY <1>3, <2>2, <3>1
  <2> QED
    BY <2>1, <2>2
<1>8. Adds(mem, two, last, size, status, at)
  BY <1>5, <1>6, <1>7 DEF Adds
<1>9. IsHeap(added)
  BY <1>2 DEF IsHeap
<1> QED
  BY <1>2, <1>8, <1>9

\* The list with the block at its end.
LEMMA AddChained ==
  ASSUME NEW mem, NEW mem2, NEW start, NEW s, NEW size, NEW status, NEW at \in Nat,
         NEW last, last = IF Len(s) = 0 THEN NULL ELSE s[Len(s)],
         Typed(mem), Chained(mem, start, s), Distinct(s),
         \A k \in 1 .. Len(s) : s[k] # at,
         Adds(mem, mem2, last, size, status, at)
  PROVE  Chained(mem2, IF last = NULL THEN at ELSE start, Append(s, at))
<1> DEFINE n == Len(s)
           t == Append(s, at)
           first == IF last = NULL THEN at ELSE start
<1>1. /\ n \in Nat /\ s \in Seq(DOMAIN mem)
      /\ \A k \in 1 .. n : s[k] \in DOMAIN mem /\ s[k] # NULL
  BY InList DEF Chained
<1>2. t \in Seq(DOMAIN mem2) /\ Len(t) = n + 1
      /\ \A k \in 1 .. n + 1 : t[k] = IF k = n + 1 THEN at ELSE s[k]
  <2>1. s \in Seq(DOMAIN mem2) /\ at \in DOMAIN mem2
    BY <1>1 DEF Adds
  <2> QED
    BY <1>1, <2>1
<1> HIDE DEF t
<1>3. n # 0 => n \in 1 .. n
  BY <1>1
<1>4. last = NULL <=> n = 0
  BY <1>1, <1>3
<1>5. first = t[1]
  <2>1. 1 \in 1 .. n + 1 /\ (1 = n + 1 <=> n = 0)
    BY <1>1
  <2> QED
    BY <1>2, <1>4, <2>1 DEF Chained
<1>6. ASSUME NEW k \in 1 .. n
      PROVE  /\ mem2[s[k]].prev = IF k = 1 THEN NULL ELSE s[k - 1]
             /\ mem2[s[k]].next = IF k = n THEN at ELSE s[k + 1]
  <2>1. s[k] \in DOMAIN mem2 /\ s[k] # at
    BY <1>1 DEF Adds
  <2>2. s[k] = last <=> k = n
    BY <1>1, <1>3 DEF Distinct
  <2>3. /\ mem[s[k]].prev = IF k = 1 THEN NULL ELSE s[k - 1]
        /\ mem[s[k]].next = IF k = n THEN NULL ELSE s[k + 1]
    BY DEF Chained
  <2> QED
    BY <2>1, <2>2, <2>3 DEF Adds
<1>7. mem2[at].prev = last /\ mem2[at].next = NULL
  BY DEF Adds
<1>8. ASSUME NEW k \in 1 .. n + 1
      PROVE  /\ mem2[t[k]].prev = IF k = 1 THEN NULL ELSE t[k - 1]
             /\ mem2[t[k]].next = IF k = n + 1 THEN NULL ELSE t[k + 1]
  <2>1. CASE k = n + 1
    <3>1. t[k] = at
      BY <1>2, <2>1
    <3>2. CASE n = 0
      BY <1>4, <1>7, <2>1, <3>1, <3>2
    <3>3. CASE n # 0
      <4>1. k - 1 \in 1 .. n + 1 /\ k - 1 # n + 1 /\ k - 1 = n /\ k # 1
        BY <1>1, <2>1, <3>3
      <4>2. t[k - 1] = s[n]
        BY <1>2, <4>1
      <4> QED
        BY <1>7, <2>1, <3>1, <3>3, <4>1, <4>2
    <3> QED
      BY <3>2, <3>3
  <2>2. CASE k # n + 1
    <3>1. k \in 1 .. n /\ t[k] = s[k]
      BY <1>1, <1>2, <2>2
    <3>2. k # 1 => t[k - 1] = s[k - 1]
      <4>1. k # 1 => k - 1 \in 1 .. n + 1 /\ k - 1 # n + 1
        BY <1>1
      <4> QED
        BY <1>2, <4>1
    <3>3. t[k + 1] = IF k = n THEN at ELSE s[k + 1]
      <4>1. k + 1 \in 1 .. n + 1 /\ (k + 1 = n + 1 <=> k = n)
        BY <1>1, <3>1
      <4> QED
        BY <1>2, <4>1
    <3> QED
      BY <1>6, <2>2, <3>1, <3>2, <3>3
  <2> QED
    BY <2>1, <2>2
<1>9. Chained(mem2, first, t)
  BY <1>1, <1>2, <1>5, <1>8 DEF Chained
<1> QED
  BY <1>9 DEF t, first

\* The blocks of its part of memory are below address at.
Above(mem, own, s, at) ==
    \A k \in 1 .. Len(s) : Alike(s[k], at) =>
       /\ s[k] + METADATA_SIZE <= at
       /\ Used(mem, own, s[k]) => End(mem, s[k]) <= at

\* The new block is one that the program asked for, or one that nobody holds.
Asked(own, own2, at, asked, size, status, limit) ==
    \/ /\ own2 = With(own, at, asked) /\ asked <= size
       /\ at + METADATA_SIZE + size <= limit
    \/ own2 = own /\ status = "ALLOC"

-----------------------------------------------------------------------------
(* A call.                                                                 *)

LastOf(s) == IF Len(s) = 0 THEN NULL ELSE s[Len(s)]

\* A heap that ends below the mappings, with list s.
Whole(heap, own, s) ==
    /\ IsHeap(heap) /\ heap.brk \in Nat /\ heap.top \in Int
    /\ heap.brk <= Wrap /\ Wrap <= heap.top
    /\ Good(heap.mem, heap.start, own, heap.brk, heap.top, s)
    /\ heap.last = LastOf(s)

\* r gives the program a block of that size, in the heap or in a new mapping.
Gives(heap, own, size, r) ==
    /\ \E u : Whole(r.heap, With(own, r.ret, size), u)
    /\ heap.top <= r.heap.top /\ (r.ret < Wrap \/ heap.top <= r.ret)

LEMMA ReusedGood ==
  ASSUME NEW heap, NEW own, NEW s, Whole(heap, own, s), NEW size \in Nat,
         NEW call \in {"malloc", "calloc"}, NEW i \in 1 .. Len(s),
         heap.mem[s[i]].status = "FREE", size <= heap.mem[s[i]].size
  PROVE  Gives(heap, own, size, Reused(heap, call, size, s[i]))
<1> DEFINE mem == heap.mem
           a == s[i]
           rest == mem[a].size - size - METADATA_SIZE
           split == IF rest >= MinRest(call) THEN split_block(heap, size, a) ELSE heap
           new == IF call = "calloc" THEN size ELSE split.mem[a].size
           two == Taken(split.mem, a, new)
           r == Reused(heap, call, size, a)
<1>1. /\ Len(s) \in Nat /\ a \in Nat /\ mem[a].size \in Nat /\ a \in DOMAIN mem
      /\ IsHeap(heap) /\ heap.brk \in Int /\ heap.top \in Int /\ heap.brk <= Wrap
      /\ Wrap <= heap.top /\ heap.brk \in Nat
      /\ Good(mem, heap.start, own, heap.brk, heap.top, s) /\ heap.last = s[Len(s)]
  BY InList DEF Whole, Good, LastOf
<1>2. rest \in Int /\ MinRest(call) \in Nat
  BY <1>1, Numbers DEF MinRest
<1>3. /\ IsHeap(split) /\ split.start = heap.start /\ split.brk = heap.brk
      /\ split.top = heap.top
      /\ \E t : /\ Good(split.mem, heap.start, own, heap.brk, heap.top, t)
                /\ split.last = t[Len(t)] /\ i \in 1 .. Len(t) /\ t[i] = a
      /\ split.mem[a].status = "FREE" /\ size <= split.mem[a].size
  <2>1. CASE rest >= MinRest(call)
    <3>1. rest \in Nat /\ split = split_block(heap, size, a)
      BY <1>2, <2>1
    <3>2. heap.mem[s[i]].size - size - METADATA_SIZE \in Nat
      BY <3>1
    <3>3. PICK cut : cut = split_block(heap, size, s[i])
      OBVIOUS
    <3>4. Cut(heap, own, s, i, size, cut)
      BY <1>1, <3>2, <3>3, SplitGood
    <3>5. split = cut
      BY <3>1, <3>3
    <3> HIDE DEF split, mem, rest
    <3> QED
      BY <1>1, <3>4, <3>5 DEF Cut
  <2>2. CASE ~(rest >= MinRest(call))
    <3>1. split = heap
      BY <2>2
    <3> QED
      BY <1>1, <3>1
  <2> QED
    BY <2>1, <2>2
<1>4. PICK t : /\ Good(split.mem, heap.start, own, heap.brk, heap.top, t)
               /\ split.last = t[Len(t)] /\ i \in 1 .. Len(t) /\ t[i] = a
  BY <1>3
<1>5. r = Block([split EXCEPT !.mem = two], a)
  BY DEF Reused
<1> HIDE DEF split, r
<1>6. split.mem[a].size \in Nat /\ a \in DOMAIN split.mem /\ Typed(split.mem)
  BY <1>4, InList DEF Good
<1>7. new \in Nat /\ size <= new /\ new <= split.mem[a].size
  BY <1>3, <1>6
<1> HIDE DEF new
<1>8. Changes(split.mem, two, a, "ALLOC", new)
  BY <1>6, <1>7, ChangeFields DEF Taken
<1>9. a + METADATA_SIZE + new <= heap.brk
  <2>1. /\ End(split.mem, a) <= Limit(heap.brk, heap.top, a)
        /\ ~(a >= Wrap)
    BY <1>3, <1>4 DEF Good, Placed, Used
  <2>2. a + METADATA_SIZE + split.mem[a].size <= heap.brk
    BY <1>1, <2>1, Numbers DEF End, Limit
  <2> QED
    BY <1>1, <1>6, <1>7, <2>2, Numbers
<1> HIDE DEF two
<1>10. Good(two, heap.start, With(own, a, size), heap.brk, heap.top, t)
  <2>1. t[i] = a /\ split.mem[t[i]].status = "FREE"
    BY <1>3, <1>4
  <2>2. heap.brk <= heap.brk
    BY <1>1
  <2>3. /\ Changes(split.mem, two, t[i], "ALLOC", new)
        /\ t[i] + METADATA_SIZE + new <= heap.brk
        /\ new <= split.mem[t[i]].size
    BY <1>7, <1>8, <1>9, <2>1
  <2>4. Good(two, heap.start, With(own, t[i], size), heap.brk, heap.top, t)
    BY <1>1, <1>4, <1>7, <2>1, <2>2, <2>3, TakeGood
  <2> QED
    BY <2>1, <2>4
<1>11. /\ r.ret = a
       /\ r.heap = [mem |-> two, start |-> heap.start, last |-> t[Len(t)],
                    brk |-> heap.brk, top |-> heap.top]
  <2>1. [split EXCEPT !.mem = two] =
           [mem |-> two, start |-> split.start, last |-> split.last,
            brk |-> split.brk, top |-> split.top]
    BY <1>3, HeapFields
  <2> QED
    BY <1>3, <1>4, <1>5, <2>1 DEF Block
<1>12. LastOf(t) = t[Len(t)]
  BY <1>4 DEF LastOf
<1>13. Whole(r.heap, With(own, r.ret, size), t)
  BY <1>1, <1>10, <1>11, <1>12 DEF Whole, IsHeap
<1>14. heap.top <= r.heap.top /\ r.ret < Wrap
  <2>1. ~(a >= Wrap)
    BY <1>3, <1>4 DEF Good, Placed
  <2> QED
    BY <1>1, <1>11, <2>1, Numbers
<1> QED
  BY <1>13, <1>14 DEF Gives, r

\* The last block, which is free, is made longer with the heap.
LEMMA ExpandGood ==
  ASSUME NEW heap, NEW own, NEW s, Whole(heap, own, s), NEW size \in Nat,
         heap.start # NULL, heap.mem[heap.last].status = "FREE",
         heap.mem[heap.last].size <= size,
         NEW r, r = expand_block(heap, size), r.heap.brk <= Wrap
  PROVE  Gives(heap, own, size, r)
<1> DEFINE n == Len(s)
           mem == heap.mem
           a == heap.last
           two == Taken(mem, a, size)
           brk2 == heap.brk + size - mem[a].size
<1>1. /\ n \in Nat /\ IsHeap(heap) /\ heap.brk \in Nat /\ heap.top \in Int
      /\ heap.brk <= Wrap /\ Wrap <= heap.top /\ Typed(mem)
      /\ Good(mem, heap.start, own, heap.brk, heap.top, s)
  BY InList DEF Whole, Good
<1>2. n # 0
  BY DEF Whole, Good, Chained
<1>3. n \in 1 .. n /\ a = s[n] /\ LastOf(s) = a
  BY <1>1, <1>2 DEF Whole, LastOf
<1>4. a \in Nat /\ mem[a].size \in Nat /\ a \in DOMAIN mem
  BY <1>1, <1>3, InList DEF Good
<1>5. brk2 \in Nat /\ heap.brk <= brk2
  BY <1>1, <1>4
<1>6. r = Block(Longer(heap, brk2, two), a)
  BY Zenon DEF expand_block, Longer
<1>7. Changes(mem, two, a, "ALLOC", size)
  BY <1>1, <1>4, ChangeFields DEF Taken
<1> HIDE DEF two, brk2
<1>8. /\ r.ret = a
      /\ r.heap = [mem |-> two, start |-> heap.start, last |-> a,
                   brk |-> brk2, top |-> heap.top]
  <2>1. Longer(heap, brk2, two) =
           [mem |-> two, start |-> heap.start, last |-> heap.last,
            brk |-> brk2, top |-> heap.top]
    BY <1>1, HeapLonger
  <2> QED
    BY <1>6, <2>1 DEF Block
<1>9. a < Wrap /\ a + METADATA_SIZE + mem[a].size <= heap.brk
  <2>1. End(mem, a) <= Limit(heap.brk, heap.top, a) /\ ~(a >= Wrap)
    BY <1>1, <1>3 DEF Good, Placed, Used
  <2> QED
    BY <1>4, <2>1, Numbers DEF End, Limit
<1>10. a + METADATA_SIZE + size <= brk2
  BY SMTT(30), <1>1, <1>4, <1>9, Numbers DEF brk2
<1>11. Good(two, heap.start, With(own, a, size), brk2, heap.top, s)
  <2>1. /\ mem[s[n]].status = "FREE" /\ Changes(mem, two, s[n], "ALLOC", size)
        /\ s[n] + METADATA_SIZE + size <= brk2 /\ size <= size
        /\ heap.brk \in Int /\ brk2 \in Int
    BY <1>1, <1>3, <1>5, <1>7, <1>10
  <2>2. Good(two, heap.start, With(own, s[n], size), brk2, heap.top, s)
    BY <1>1, <1>3, <1>5, <2>1, TakeGood
  <2> QED
    BY <1>3, <2>2
<1>12. Whole(r.heap, With(own, r.ret, size), s)
  BY <1>1, <1>3, <1>5, <1>8, <1>11 DEF Whole, IsHeap
<1> QED
  BY <1>1, <1>8, <1>9, <1>12 DEF Gives

\* g is heap with a block added, and perhaps other bounds.
LEMMA AddWhole ==
  ASSUME NEW heap, NEW own, NEW s, Whole(heap, own, s),
         NEW g, IsHeap(g), g.brk \in Nat, g.top \in Int,
         heap.brk <= g.brk, g.brk <= Wrap, heap.top <= g.top,
         NEW size \in Nat, NEW status \in {"ALLOC", "MAPPED"}, NEW at \in Nat,
         Adds(heap.mem, g.mem, heap.last, size, status, at),
         g.start = IF heap.last = NULL THEN at ELSE heap.start, g.last = at,
         Above(heap.mem, own, s, at),
         at + METADATA_SIZE <= Limit(g.brk, g.top, at),
         status = "MAPPED" <=> at >= Wrap,
         NEW asked, NEW own2,
         Asked(own, own2, at, asked, size, status, Limit(g.brk, g.top, at))
  PROVE  Whole(g, own2, Append(s, at))
<1>1. /\ heap.brk \in Int /\ heap.top \in Int /\ g.brk \in Int
      /\ heap.brk <= Wrap /\ Wrap <= heap.top
      /\ Good(heap.mem, heap.start, own, heap.brk, heap.top, s)
      /\ Len(s) \in Nat /\ s \in Seq(DOMAIN heap.mem)
      /\ heap.last = IF Len(s) = 0 THEN NULL ELSE s[Len(s)]
  BY InList DEF Whole, Good, LastOf, Chained
<1>2. PICK mem, mem2, start, first, brk, brk2, top, top2, last :
        /\ mem = heap.mem /\ mem2 = g.mem /\ start = heap.start /\ first = g.start
        /\ brk = heap.brk /\ brk2 = g.brk /\ top = heap.top /\ top2 = g.top
        /\ last = heap.last /\ last = IF Len(s) = 0 THEN NULL ELSE s[Len(s)]
        /\ brk \in Int /\ top \in Int /\ brk2 \in Int /\ top2 \in Int
        /\ brk <= brk2 /\ top <= top2 /\ Good(mem, start, own, brk, top, s)
        /\ Adds(mem, mem2, last, size, status, at) /\ Above(mem, own, s, at)
        /\ at + METADATA_SIZE <= Limit(brk2, top2, at)
        /\ Asked(own, own2, at, asked, size, status, Limit(brk2, top2, at))
        /\ first = IF last = NULL THEN at ELSE start
  BY <1>1
<1> USE <1>2
<1> DEFINE n == Len(s)
           t == Append(s, at)
<1>3. /\ n \in Nat /\ Typed(mem) /\ Chained(mem, start, s) /\ s \in Seq(DOMAIN mem)
      /\ \A k \in 1 .. n : /\ s[k] \in DOMAIN mem /\ s[k] \in Nat /\ mem[s[k]].size \in Nat
  BY InList DEF Good, Chained
<1>4. Distinct(s)
  BY PlacedDistinct
<1>5. \A k \in 1 .. n : s[k] # at
  <2> SUFFICES ASSUME NEW k \in 1 .. n, s[k] = at PROVE FALSE
    OBVIOUS
  <2>1. Alike(s[k], at)
    BY Numbers DEF Alike
  <2>2. s[k] + METADATA_SIZE <= at
    BY <2>1 DEF Above
  <2> QED
    BY <2>2, Numbers
<1>6. Chained(mem2, first, t) /\ Typed(mem2)
  <2>1. Typed(mem2)
    BY DEF Adds
  <2>2. Chained(mem2, first, t)
    BY ZenonT(30), <1>3, <1>4, <1>5, AddChained
  <2> QED
    BY <2>1, <2>2
<1>7. Len(t) = n + 1 /\ \A k \in 1 .. n + 1 : t[k] = IF k = n + 1 THEN at ELSE s[k]
  BY <1>3
<1> HIDE DEF t
<1>8. at \notin DOMAIN own
  BY <1>5 DEF Good, Owned
<1>9. /\ DOMAIN own \subseteq DOMAIN own2 /\ DOMAIN own2 \subseteq DOMAIN own \cup {at}
      /\ \A x \in DOMAIN own : own2[x] = own[x]
      /\ at \in DOMAIN own2 => /\ own2[at] <= size
                               /\ at + METADATA_SIZE + size <= Limit(brk2, top2, at)
  <2>1. CASE /\ own2 = With(own, at, asked) /\ asked <= size
             /\ at + METADATA_SIZE + size <= Limit(brk2, top2, at)
    BY <1>8, <2>1 DEF With
  <2>2. CASE own2 = own
    BY <1>8, <2>2
  <2> QED
    BY <2>1, <2>2 DEF Asked
<1>10. ASSUME NEW k \in 1 .. n
      PROVE  /\ mem2[s[k]].status = mem[s[k]].status /\ mem2[s[k]].size = mem[s[k]].size
             /\ Used(mem2, own2, s[k]) <=> Used(mem, own, s[k])
             /\ End(mem2, s[k]) = End(mem, s[k]) /\ End(mem, s[k]) \in Int
  <2>1. s[k] # at /\ s[k] \in DOMAIN mem2
    BY <1>3, <1>5 DEF Adds
  <2>2. mem2[s[k]].status = mem[s[k]].status /\ mem2[s[k]].size = mem[s[k]].size
    BY <2>1 DEF Adds
  <2>3. Used(mem2, own2, s[k]) <=> Used(mem, own, s[k])
    BY <1>9, <2>1, <2>2 DEF Used
  <2>4. End(mem, s[k]) \in Int
    <3>1. PICK a \in Nat, x \in Nat : a = s[k] /\ x = mem[s[k]].size
      BY <1>3
    <3>2. a + METADATA_SIZE + x \in Int
      BY Numbers
    <3> QED
      BY <3>1, <3>2 DEF End
  <2> QED
    BY <2>2, <2>3, <2>4 DEF End
<1>11. /\ mem2[at].status = status /\ mem2[at].size = size
      /\ End(mem2, at) = at + METADATA_SIZE + size
  BY DEF Adds, End
<1>12. Used(mem2, own2, at) => at + METADATA_SIZE + size <= Limit(brk2, top2, at)
  <2>1. CASE at \in DOMAIN own2
    BY <1>9, <2>1
  <2>2. CASE at \notin DOMAIN own2
    <3>1. own2 = own /\ status = "ALLOC"
      BY <2>2 DEF Asked, With
    <3>2. ~Used(mem2, own2, at)
      BY <1>11, <2>2, <3>1 DEF Used
    <3> QED
      BY <3>2
  <2> QED
    BY <2>1, <2>2
<1>13. ASSUME NEW k \in 1 .. n
       PROVE  /\ s[k] + METADATA_SIZE <= Limit(brk2, top2, s[k])
              /\ Used(mem2, own2, s[k]) => End(mem2, s[k]) <= Limit(brk2, top2, s[k])
              /\ mem2[s[k]].status = "MAPPED" <=> s[k] >= Wrap
  <2>1. /\ s[k] + METADATA_SIZE <= Limit(brk, top, s[k])
        /\ Used(mem, own, s[k]) => End(mem, s[k]) <= Limit(brk, top, s[k])
        /\ mem[s[k]].status = "MAPPED" <=> s[k] >= Wrap
    BY DEF Good, Placed
  <2>2. /\ Limit(brk, top, s[k]) <= Limit(brk2, top2, s[k])
        /\ Limit(brk, top, s[k]) \in Int /\ Limit(brk2, top2, s[k]) \in Int
    BY DEF Limit
  <2>3. s[k] + METADATA_SIZE <= Limit(brk2, top2, s[k])
    BY SMTT(30), <1>3, <2>1, <2>2, Numbers
  <2>4. Used(mem2, own2, s[k]) => End(mem2, s[k]) <= Limit(brk2, top2, s[k])
    BY <1>10, <2>1, <2>2
  <2> QED
    BY <1>10, <2>1, <2>3, <2>4
<1>14. ASSUME NEW j \in 1 .. n, NEW k \in 1 .. n, j < k, Alike(s[j], s[k])
       PROVE  /\ s[j] + METADATA_SIZE <= s[k]
              /\ Used(mem2, own2, s[j]) => End(mem2, s[j]) <= s[k]
  <2>1. /\ s[j] + METADATA_SIZE <= s[k]
        /\ Used(mem, own, s[j]) => End(mem, s[j]) <= s[k]
    BY <1>14 DEF Good, Placed
  <2> QED
    BY <1>10, <2>1
<1>15. Placed(mem2, own2, brk2, top2, t)
  <2>1. ASSUME NEW k \in 1 .. n + 1
        PROVE  /\ t[k] + METADATA_SIZE <= Limit(brk2, top2, t[k])
               /\ Used(mem2, own2, t[k]) => End(mem2, t[k]) <= Limit(brk2, top2, t[k])
               /\ mem2[t[k]].status = "MAPPED" <=> t[k] >= Wrap
    <3>1. CASE k = n + 1
      <4>1. t[k] = at
        BY <1>7, <3>1
      <4> QED
        BY <1>11, <1>12, <4>1
    <3>2. CASE k # n + 1
      <4>1. k \in 1 .. n /\ t[k] = s[k]
        BY <1>3, <1>7, <3>2
      <4> QED
        BY <1>13, <4>1
    <3> QED
      BY <3>1, <3>2
  <2>2. ASSUME NEW j \in 1 .. n + 1, NEW k \in 1 .. n + 1, j < k, Alike(t[j], t[k])
        PROVE  /\ t[j] + METADATA_SIZE <= t[k]
               /\ Used(mem2, own2, t[j]) => End(mem2, t[j]) <= t[k]
    <3>1. j \in 1 .. n /\ t[j] = s[j]
      <4>1. j < k
        BY <2>2
      <4>2. j \in 1 .. n /\ j # n + 1
        BY <1>3, <4>1
      <4> QED
        BY <1>7, <4>2
    <3>2. CASE k = n + 1
      <4>1. t[k] = at
        BY <1>7, <3>2
      <4>2. /\ s[j] + METADATA_SIZE <= at
            /\ Used(mem, own, s[j]) => End(mem, s[j]) <= at
        BY <2>2, <3>1, <4>1 DEF Above
      <4> QED
        BY <1>10, <3>1, <4>1, <4>2
    <3>3. CASE k # n + 1
      <4>1. k \in 1 .. n /\ t[k] = s[k]
        BY <1>3, <1>7, <3>3
      <4> QED
        BY <1>14, <2>2, <3>1, <4>1
    <3> QED
      BY <3>2, <3>3
  <2> QED
    BY <1>7, <2>1, <2>2 DEF Placed
<1>16. Owned(mem2, own2, t)
  <2> SUFFICES ASSUME NEW a \in DOMAIN own2
               PROVE  /\ \E k \in 1 .. Len(t) : t[k] = a
                      /\ mem2[a].status # "FREE" /\ own2[a] <= mem2[a].size
    BY DEF Owned
  <2>1. CASE a = at
    <3>1. n + 1 \in 1 .. Len(t) /\ t[n + 1] = at
      BY <1>3, <1>7
    <3> QED
      BY <1>9, <1>11, <2>1, <3>1
  <2>2. CASE a # at
    <3>1. a \in DOMAIN own /\ own2[a] = own[a]
      BY <1>9, <2>2
    <3>2. PICK k \in 1 .. n : s[k] = a
      BY <3>1 DEF Good, Owned
    <3>3. mem[a].status # "FREE" /\ own[a] <= mem[a].size
      BY <3>1 DEF Good, Owned
    <3>4. k \in 1 .. Len(t) /\ t[k] = a
      <4>1. k \in 1 .. n + 1 /\ k # n + 1
        BY <1>3
      <4> QED
        BY <1>7, <3>2, <4>1
    <3> QED
      BY <1>10, <3>1, <3>2, <3>3, <3>4
  <2> QED
    BY <2>1, <2>2
<1>17. Good(mem2, first, own2, brk2, top2, t)
  BY <1>6, <1>15, <1>16 DEF Good
<1>18. LastOf(t) = at
  <2>1. n + 1 # 0 /\ n + 1 \in 1 .. n + 1
    BY <1>1
  <2> QED
    BY <1>7, <2>1 DEF LastOf
<1>19. Wrap <= top2
  BY <1>1, Numbers
<1>20. /\ IsHeap(g) /\ g.brk \in Nat /\ g.top \in Int /\ g.brk <= Wrap /\ Wrap <= g.top
       /\ Good(g.mem, g.start, own2, g.brk, g.top, t) /\ g.last = LastOf(t)
  BY <1>17, <1>18, <1>19
<1> QED
  BY <1>20 DEF Whole, t

\* What is in the heap ends before brk, and mappings before top.
LEMMA Below ==
  ASSUME NEW heap, NEW own, NEW s, Whole(heap, own, s), NEW at,
         (at = heap.brk /\ at < Wrap) \/ at = heap.top
  PROVE  Above(heap.mem, own, s, at)
<1> SUFFICES ASSUME NEW k \in 1 .. Len(s), Alike(s[k], at)
             PROVE  /\ s[k] + METADATA_SIZE <= at
                    /\ Used(heap.mem, own, s[k]) => End(heap.mem, s[k]) <= at
  BY DEF Above
<1>1. /\ s[k] + METADATA_SIZE <= Limit(heap.brk, heap.top, s[k])
      /\ Used(heap.mem, own, s[k]) =>
            End(heap.mem, s[k]) <= Limit(heap.brk, heap.top, s[k])
      /\ heap.brk \in Nat /\ heap.top \in Int /\ Wrap <= heap.top
      /\ s[k] \in Nat
  BY InList DEF Whole, Good, Placed
<1>2. Limit(heap.brk, heap.top, s[k]) = at
  BY <1>1, Numbers DEF Limit, Alike
<1> QED
  BY <1>1, <1>2

LEMMA MappedGood ==
  ASSUME NEW heap, NEW own, NEW s, Whole(heap, own, s), NEW size \in Nat,
         NEW r, r = Mapped(heap, size)
  PROVE  Gives(heap, own, size, r)
<1> DEFINE at == heap.top
           added == add_block(heap, size, "MAPPED", at)
           top2 == at + size + METADATA_SIZE
<1>1. /\ IsHeap(heap) /\ heap.brk \in Nat /\ at \in Nat /\ heap.brk <= Wrap /\ Wrap <= at
      /\ heap.top \in Int /\ Typed(heap.mem) /\ heap.last \in DOMAIN heap.mem \cup {NULL}
  <2>1. /\ IsHeap(heap) /\ heap.brk \in Nat /\ at \in Int /\ heap.brk <= Wrap
        /\ Wrap <= at /\ Typed(heap.mem) /\ s \in Seq(DOMAIN heap.mem)
        /\ heap.last = LastOf(s)
    BY DEF Whole, Good, Chained
  <2>2. heap.last \in DOMAIN heap.mem \cup {NULL}
    BY <2>1 DEF LastOf
  <2> QED
    BY <2>1, <2>2, Numbers
<1>2. /\ Adds(heap.mem, added.mem, heap.last, size, "MAPPED", at) /\ IsHeap(added)
      /\ added.start = IF heap.last = NULL THEN at ELSE heap.start
      /\ added.last = at /\ added.brk = heap.brk /\ added.top = heap.top
  BY <1>1, AddFields
<1>3. top2 \in Nat /\ at <= top2 /\ at + METADATA_SIZE <= top2
      /\ at + METADATA_SIZE + size <= top2
  BY <1>1, Numbers
<1>4. r = Block([added EXCEPT !.top = top2], at)
  <2>1. r = Block([added EXCEPT !.top = added.top + size + METADATA_SIZE], at)
    BY Zenon DEF Mapped
  <2> HIDE DEF added
  <2> QED
    BY <1>2, <2>1
<1> HIDE DEF added, top2
<1>5. /\ r.ret = at
      /\ r.heap = [mem |-> added.mem, start |-> added.start, last |-> at,
                   brk |-> heap.brk, top |-> top2]
  <2>1. [added EXCEPT !.top = top2] =
           [mem |-> added.mem, start |-> added.start, last |-> added.last,
            brk |-> added.brk, top |-> top2]
    BY <1>2, HeapFields
  <2> QED
    BY <1>2, <1>4, <2>1 DEF Block
<1> DEFINE g == r.heap
<1>6. /\ IsHeap(g) /\ g.brk = heap.brk /\ g.top = top2 /\ g.mem = added.mem
      /\ g.start = added.start /\ g.last = at
  BY <1>5 DEF IsHeap
<1> HIDE DEF g
<1>7. Above(heap.mem, own, s, at)
  BY Below
<1>8. Limit(g.brk, g.top, at) = top2
  BY <1>1, <1>6, Numbers DEF Limit
<1>9. Whole(g, With(own, at, size), Append(s, at))
  <2>1. Asked(own, With(own, at, size), at, size, size, "MAPPED", Limit(g.brk, g.top, at))
    BY <1>3, <1>8 DEF Asked
  <2>2. /\ heap.brk <= g.brk /\ g.brk <= Wrap /\ heap.top <= g.top /\ g.brk \in Nat
        /\ g.top \in Int /\ at + METADATA_SIZE <= Limit(g.brk, g.top, at)
        /\ at >= Wrap /\ Adds(heap.mem, g.mem, heap.last, size, "MAPPED", at)
        /\ g.start = IF heap.last = NULL THEN at ELSE heap.start
    BY <1>1, <1>2, <1>3, <1>6, <1>8, Numbers
  <2> QED
    BY <1>1, <1>6, <1>7, <2>1, <2>2, AddWhole
<1> QED
  BY <1>1, <1>3, <1>5, <1>6, <1>9 DEF Gives, g

\* add_block on the heap made longer.
LEMMA LongerAdds ==
  ASSUME NEW heap, NEW own, NEW s, Whole(heap, own, s), NEW brk2 \in Nat,
         NEW size \in Nat, NEW at \in Nat,
         NEW g, g = add_block([heap EXCEPT !.brk = brk2], size, "ALLOC", at)
  PROVE  /\ IsHeap(g) /\ g.brk = brk2 /\ g.top = heap.top /\ g.last = at
         /\ Adds(heap.mem, g.mem, heap.last, size, "ALLOC", at)
         /\ g.start = IF heap.last = NULL THEN at ELSE heap.start
<1> DEFINE longer == [heap EXCEPT !.brk = brk2]
<1>1. longer = [mem |-> heap.mem, start |-> heap.start, last |-> heap.last,
                brk |-> brk2, top |-> heap.top]
  BY HeapFields DEF Whole
<1>2. heap.last \in DOMAIN heap.mem \cup {NULL} /\ Typed(heap.mem)
  <2>1. Typed(heap.mem) /\ s \in Seq(DOMAIN heap.mem) /\ heap.last = LastOf(s)
    BY DEF Whole, Good, Chained
  <2> QED
    BY <2>1 DEF LastOf
<1>3. g = add_block(longer, size, "ALLOC", at)
  OBVIOUS
<1> HIDE DEF longer
<1>4. /\ IsHeap(longer) /\ Typed(longer.mem)
      /\ longer.last \in DOMAIN longer.mem \cup {NULL}
      /\ longer.mem = heap.mem /\ longer.last = heap.last /\ longer.start = heap.start
      /\ longer.brk = brk2 /\ longer.top = heap.top
  BY <1>1, <1>2 DEF IsHeap
<1> QED
  BY <1>3, <1>4, AddFields

\* The heap is made longer for the new block.
LEMMA AppendedGood ==
  ASSUME NEW heap, NEW own, NEW s, Whole(heap, own, s), NEW size \in Nat,
         NEW r, r = Appended(heap, size), r.heap.brk <= Wrap
  PROVE  Gives(heap, own, size, r)
<1> DEFINE at == heap.brk
           brk2 == at + size + METADATA_SIZE
           g == add_block([heap EXCEPT !.brk = brk2], size, "ALLOC", at)
<1>1. at \in Nat /\ heap.top \in Int /\ Wrap <= heap.top
  BY DEF Whole
<1>2. r = Block(g, at)
  BY Zenon DEF Appended
<1>3. brk2 \in Nat /\ at <= brk2 /\ at + METADATA_SIZE <= brk2
      /\ at + METADATA_SIZE + size <= brk2
  BY <1>1, Numbers
<1> HIDE DEF brk2
<1>4. /\ IsHeap(g) /\ g.brk = brk2 /\ g.top = heap.top /\ g.last = at
      /\ Adds(heap.mem, g.mem, heap.last, size, "ALLOC", at)
      /\ g.start = IF heap.last = NULL THEN at ELSE heap.start
  BY <1>1, <1>3, LongerAdds
<1> HIDE DEF g
<1>5. r.ret = at /\ r.heap = g
  BY <1>2 DEF Block
<1>6. brk2 <= Wrap /\ at < Wrap
  <2>1. brk2 <= Wrap
    BY <1>4, <1>5
  <2> QED
    BY <1>1, <1>3, <2>1, Numbers
<1>7. Above(heap.mem, own, s, at)
  BY <1>6, Below
<1>8. Limit(g.brk, g.top, at) = brk2
  BY <1>4, <1>6 DEF Limit
<1>9. Asked(own, With(own, at, size), at, size, size, "ALLOC", Limit(g.brk, g.top, at))
  BY <1>3, <1>8 DEF Asked
<1>10. /\ heap.brk <= g.brk /\ g.brk <= Wrap /\ heap.top <= g.top /\ g.brk \in Nat
       /\ g.top \in Int /\ at + METADATA_SIZE <= Limit(g.brk, g.top, at)
       /\ ~(at >= Wrap)
  BY <1>1, <1>3, <1>4, <1>6, <1>8, Numbers
<1>11. Whole(g, With(own, at, size), Append(s, at))
  BY <1>1, <1>4, <1>7, <1>9, <1>10, AddWhole
<1> QED
  BY <1>1, <1>4, <1>5, <1>6, <1>11 DEF Gives

\* The first block of the heap, and what is left after it.
LEMMA PreallocatedGood ==
  ASSUME NEW heap, NEW own, NEW s, Whole(heap, own, s), Len(s) = 0, NEW size \in Nat,
         size + METADATA_SIZE <= MMAP_THRESHOLD,
         NEW r, r = Preallocated(heap, size), r.heap.brk <= Wrap
  PROVE  Gives(heap, own, size, r)
<1> DEFINE at == heap.brk
           brk2 == at + MMAP_THRESHOLD
           rest == (MMAP_THRESHOLD - size - METADATA_SIZE) % Wrap
           at2 == at + size + METADATA_SIZE
           one == add_block([heap EXCEPT !.brk = brk2], size, "ALLOC", at)
           g == IF rest >= 40 \div ALIGNMENT THEN add_block(one, rest, "ALLOC", at2) ELSE one
<1>1. at \in Nat /\ heap.top \in Int /\ Wrap <= heap.top /\ heap.last = NULL
  BY DEF Whole, LastOf
<1>2. r = Block(g, at)
  BY Zenon DEF Preallocated
<1>3. brk2 \in Nat /\ at <= brk2 /\ at2 \in Nat /\ at2 = at + METADATA_SIZE + size
      /\ at2 <= brk2 /\ at <= at2 /\ at + METADATA_SIZE <= at2
  BY SMTT(30), <1>1, Numbers
<1>4. rest \in Nat /\ (rest >= 40 \div ALIGNMENT => at2 + METADATA_SIZE <= brk2)
  <2>1. rest = MMAP_THRESHOLD - size - METADATA_SIZE
    <3>1. PICK d \in Int : d = MMAP_THRESHOLD - size - METADATA_SIZE
      BY Numbers
    <3>2. 0 <= d /\ d < Wrap /\ Wrap \in Nat \ {0}
      BY <3>1, Numbers
    <3>3. d % Wrap = d
      BY <3>2
    <3> QED
      BY <3>1, <3>3
  <2> QED
    BY SMTT(30), <1>1, <2>1, Numbers
<1> HIDE DEF brk2, rest, at2
<1>5. /\ IsHeap(one) /\ one.brk = brk2 /\ one.top = heap.top /\ one.last = at
      /\ Adds(heap.mem, one.mem, heap.last, size, "ALLOC", at)
      /\ one.start = IF heap.last = NULL THEN at ELSE heap.start
  BY <1>1, <1>3, LongerAdds
<1> HIDE DEF one
<1>6. g.brk = brk2
  <2>1. CASE rest >= 40 \div ALIGNMENT
    <3>1. Typed(one.mem) /\ at \in DOMAIN one.mem
      BY <1>5 DEF Adds
    <3>2. add_block(one, rest, "ALLOC", at2).brk = one.brk
      BY <1>3, <1>4, <1>5, <3>1, AddFields
    <3> QED
      BY <1>5, <2>1, <3>2
  <2>2. CASE ~(rest >= 40 \div ALIGNMENT)
    BY <1>5, <2>2
  <2> QED
    BY <2>1, <2>2
<1> HIDE DEF g
<1>7. r.ret = at /\ r.heap = g
  BY <1>2 DEF Block
<1>8. brk2 <= Wrap /\ at < Wrap
  <2>1. brk2 <= Wrap
    BY <1>6, <1>7
  <2> QED
    BY <1>1, <1>3, <2>1, Numbers
<1> DEFINE own2 == With(own, at, size)
           t == Append(s, at)
<1>9. Whole(one, own2, t)
  <2>1. Above(heap.mem, own, s, at)
    BY <1>8, Below
  <2>2. Limit(one.brk, one.top, at) = brk2
    BY <1>5, <1>8 DEF Limit
  <2>3. Asked(own, own2, at, size, size, "ALLOC", Limit(one.brk, one.top, at))
    BY <1>3, <2>2 DEF Asked
  <2>4. /\ heap.brk <= one.brk /\ one.brk <= Wrap /\ heap.top <= one.top /\ one.brk \in Nat
        /\ one.top \in Int /\ at + METADATA_SIZE <= Limit(one.brk, one.top, at)
        /\ ~(at >= Wrap)
    BY <1>1, <1>3, <1>5, <1>8, <2>2, Numbers
  <2> QED
    BY <1>1, <1>5, <2>1, <2>3, <2>4, AddWhole
<1>10. Len(t) = 1 /\ t[1] = at
  BY DEF Whole, Good, Chained
<1> HIDE DEF own2, t
<1>11. \E u : Whole(g, own2, u) /\ g.top = heap.top
  <2>1. CASE rest >= 40 \div ALIGNMENT
    <3>1. g = add_block(one, rest, "ALLOC", at2)
      BY <2>1 DEF g
    <3>2. Typed(one.mem) /\ at \in DOMAIN one.mem /\ one.mem[at].size = size
      BY <1>5 DEF Adds
    <3>3. /\ Adds(one.mem, g.mem, one.last, rest, "ALLOC", at2) /\ IsHeap(g)
          /\ g.start = IF one.last = NULL THEN at2 ELSE one.start
          /\ g.last = at2 /\ g.brk = one.brk /\ g.top = one.top
      BY <1>3, <1>4, <1>5, <3>1, <3>2, AddFields
    <3>4. Above(one.mem, own2, t, at2)
      <4>1. End(one.mem, at) = at2
        BY <1>3, <3>2 DEF End
      <4> QED
        BY <1>3, <1>10, <4>1 DEF Above
    <3>5. at2 + METADATA_SIZE <= brk2 /\ at2 < Wrap
      BY <1>3, <1>4, <1>8, <2>1, Numbers
    <3>6. Limit(g.brk, g.top, at2) = brk2
      BY <1>6, <3>5 DEF Limit
    <3>7. Asked(own2, own2, at2, 0, rest, "ALLOC", Limit(g.brk, g.top, at2))
      BY DEF Asked
    <3>8. /\ one.brk <= g.brk /\ g.brk <= Wrap /\ one.top <= g.top /\ g.brk \in Nat
          /\ g.top \in Int /\ at2 + METADATA_SIZE <= Limit(g.brk, g.top, at2)
          /\ ~(at2 >= Wrap)
      BY <1>1, <1>3, <1>5, <1>6, <1>8, <3>3, <3>5, <3>6, Numbers
    <3>9. Whole(g, own2, Append(t, at2))
      BY <1>3, <1>4, <1>9, <3>3, <3>4, <3>7, <3>8, AddWhole
    <3> QED
      BY <1>5, <3>3, <3>9
  <2>2. CASE ~(rest >= 40 \div ALIGNMENT)
    <3>1. g = one
      BY <2>2 DEF g
    <3> QED
      BY <1>5, <1>9, <3>1
  <2> QED
    BY <2>1, <2>2
<1> QED
  BY <1>1, <1>7, <1>8, <1>11 DEF Gives, own2

\* The least of a set of positive integers up to n, if it has any.
LEMMA MinIn ==
  ASSUME NEW n \in Nat, NEW S \in SUBSET (1 .. n), S # {}
  PROVE  Min(S) \in S
<1>1. \E i \in S : \A j \in S : i <= j
  BY LeastElement
<1> QED
  BY <1>1, Zenon DEF Min

\* Whatever the call finds, the program gets a block of its size.
LEMMA AllocatedGood ==
  ASSUME NEW heap, NEW own, NEW s, Whole(heap, own, s), NEW size \in Nat,
         NEW call \in {"malloc", "calloc"}, ~Slips(heap, call, size),
         NEW r, r = Allocated(heap, call, size), r.heap.brk <= Wrap
  PROVE  Gives(heap, own, size, r)
<1> DEFINE fits == {k \in 1 .. Len(s) : /\ heap.mem[s[k]].status = "FREE"
                                        /\ heap.mem[s[k]].size >= size}
           end == heap.mem[heap.last]
<1>1. Blocks(heap.mem, heap.start) = s
  BY GoodBlocks DEF Whole
<1>2. /\ Len(s) \in Nat /\ heap.last = LastOf(s)
      /\ Len(s) = 0 <=> heap.start = NULL
      /\ \A k \in 1 .. Len(s) : heap.mem[s[k]].size \in Nat
  <2>1. /\ Len(s) \in Nat /\ heap.last = LastOf(s)
        /\ heap.start = IF Len(s) = 0 THEN NULL ELSE s[1]
        /\ \A k \in 1 .. Len(s) : heap.mem[s[k]].size \in Nat /\ s[k] # NULL
    <3>1. /\ Typed(heap.mem) /\ Chained(heap.mem, heap.start, s)
          /\ heap.last = LastOf(s)
      BY DEF Whole, Good
    <3>2. heap.start = IF Len(s) = 0 THEN NULL ELSE s[1]
      BY <3>1 DEF Chained
    <3> QED
      BY <3>1, <3>2, InList
  <2>2. Len(s) # 0 => 1 \in 1 .. Len(s)
    BY <2>1
  <2> QED
    BY <2>1, <2>2
<1>3. r = IF fits # {} THEN Reused(heap, call, size, s[Min(fits)])
          ELSE IF heap.start # NULL /\ end.status = "FREE" /\ end.size <= size
               THEN expand_block(heap, size)
          ELSE IF Maps(call, size) THEN Mapped(heap, size)
          ELSE IF heap.start = NULL THEN Preallocated(heap, size)
          ELSE Appended(heap, size)
  BY <1>1, Zenon DEF Allocated
<1>4. CASE fits # {}
  <2>1. fits \in SUBSET (1 .. Len(s))
    OBVIOUS
  <2>2. Min(fits) \in fits
    <3> HIDE DEF fits
    <3> QED
      BY <1>2, <1>4, <2>1, MinIn
  <2>3. PICK i : i = Min(fits)
    OBVIOUS
  <2>4. /\ i \in 1 .. Len(s) /\ heap.mem[s[i]].status = "FREE"
        /\ size <= heap.mem[s[i]].size
    <3>1. i \in fits
      BY <2>2, <2>3
    <3> QED
      BY <1>2, <3>1
  <2>5. r = Reused(heap, call, size, s[i])
    BY <1>3, <1>4, <2>3, Zenon
  <2> HIDE DEF fits
  <2> QED
    BY <2>4, <2>5, ReusedGood
<1> HIDE DEF fits
<1>5. CASE fits = {} /\ heap.start # NULL /\ end.status = "FREE" /\ end.size <= size
  <2>1. r = expand_block(heap, size)
    BY <1>3, <1>5
  <2> QED
    BY <1>5, <2>1, ExpandGood
<1>6. CASE /\ fits = {} /\ ~(heap.start # NULL /\ end.status = "FREE" /\ end.size <= size)
           /\ Maps(call, size)
  <2>1. r = Mapped(heap, size)
    BY <1>3, <1>6
  <2> QED
    BY <2>1, MappedGood
<1>7. CASE /\ fits = {} /\ ~(heap.start # NULL /\ end.status = "FREE" /\ end.size <= size)
           /\ ~Maps(call, size) /\ heap.start = NULL
  <2>1. r = Preallocated(heap, size)
    BY <1>3, <1>7
  <2>2. size + METADATA_SIZE <= MMAP_THRESHOLD
    BY <1>7, Numbers DEF Slips
  <2> QED
    BY <1>2, <1>7, <2>1, <2>2, PreallocatedGood
<1>8. CASE /\ fits = {} /\ ~(heap.start # NULL /\ end.status = "FREE" /\ end.size <= size)
           /\ ~Maps(call, size) /\ heap.start # NULL
  <2>1. r = Appended(heap, size)
    BY <1>3, <1>8
  <2> QED
    BY <2>1, AppendedGood
<1> QED
  BY <1>4, <1>5, <1>6, <1>7, <1>8

\* coalesce keeps the heap, unless the last block is joined to the one before.
LEMMA CoalesceWhole ==
  ASSUME NEW heap, NEW own, NEW s, Whole(heap, own, s), NEW size \in Nat, NEW call,
         NEW joined, joined = coalesce(heap), ~Slips(joined, call, size)
  PROVE  /\ \E t : Whole(joined, own, t)
         /\ joined.brk = heap.brk /\ joined.top = heap.top
<1> DEFINE n == Len(s)
           two == Coalesced(heap.mem, s)
<1>1. /\ IsHeap(heap) /\ heap.brk \in Nat /\ heap.top \in Int /\ heap.brk \in Int
      /\ heap.brk <= Wrap /\ Wrap <= heap.top /\ n \in Nat
      /\ Good(heap.mem, heap.start, own, heap.brk, heap.top, s)
      /\ heap.last = LastOf(s)
  BY InList DEF Whole, Good
<1>2. Blocks(heap.mem, heap.start) = s
  BY <1>1, GoodBlocks
<1>3. joined = [heap EXCEPT !.mem = two]
  BY <1>2, Zenon DEF coalesce
<1> HIDE DEF two
<1>4. joined = [mem |-> two, start |-> heap.start, last |-> heap.last,
                brk |-> heap.brk, top |-> heap.top]
  BY <1>1, <1>3, HeapFields
<1>5. PICK t : /\ Good(two, heap.start, own, heap.brk, heap.top, t)
               /\ Len(t) = 0 <=> n = 0
               /\ n # 0 => \/ t[Len(t)] = s[n]
                           \/ \A j \in 1 .. Len(t) : t[j] # s[n]
  BY <1>1, CoalescedGood DEF two
<1>6. /\ joined.mem = two /\ joined.start = heap.start /\ joined.last = heap.last
      /\ joined.brk = heap.brk /\ joined.top = heap.top /\ IsHeap(joined)
  BY <1>4 DEF IsHeap
<1>7. heap.last = LastOf(t)
  <2>1. CASE n = 0
    BY <1>1, <1>5, <2>1 DEF LastOf
  <2>2. CASE n # 0
    <3>1. t \in Seq(DOMAIN two) /\ Len(t) \in Nat /\ Len(t) # 0 /\ heap.start = t[1]
      BY <1>5, <2>2 DEF Good, Chained
    <3>2. t[1] # NULL
      <4>1. 1 \in 1 .. Len(t)
        BY <3>1
      <4> QED
        BY <1>5, <4>1, InList DEF Good
    <3>3. Blocks(two, heap.start) = t
      BY <1>5, GoodBlocks
    <3>4. heap.last \in Range(t)
      BY <1>6, <3>1, <3>2, <3>3 DEF Slips
    <3>5. PICK j \in 1 .. Len(t) : t[j] = heap.last
      BY <3>1, <3>4 DEF Range
    <3> QED
      BY <1>1, <1>5, <2>2, <3>1, <3>5 DEF LastOf
  <2> QED
    BY <2>1, <2>2
<1>8. Whole(joined, own, t)
  BY <1>1, <1>5, <1>6, <1>7 DEF Whole
<1> QED
  BY <1>6, <1>8

\* A block is given back.
LEMMA FreeWhole ==
  ASSUME NEW heap, NEW own, NEW s, Whole(heap, own, s), NEW a \in DOMAIN own,
         NEW g, \/ heap.mem[a].status = "MAPPED" /\ g = heap
                \/ heap.mem[a].status # "MAPPED" /\ g = [heap EXCEPT !.mem[a].status = "FREE"]
  PROVE  /\ Whole(g, Restrict(own, DOMAIN own \ {a}), s) /\ g.top = heap.top
         /\ a \in Nat /\ a + METADATA_SIZE <= Limit(heap.brk, heap.top, a)
         /\ heap.mem[a].status = "MAPPED" <=> a >= Wrap
<1> DEFINE own2 == Restrict(own, DOMAIN own \ {a})
           mem == heap.mem
           two == [mem EXCEPT ![a].status = "FREE"]
<1>1. /\ IsHeap(heap) /\ heap.brk \in Nat /\ heap.top \in Int /\ heap.brk \in Int
      /\ heap.brk <= Wrap /\ Wrap <= heap.top /\ Typed(mem)
      /\ Good(mem, heap.start, own, heap.brk, heap.top, s)
      /\ heap.last = LastOf(s)
  BY DEF Whole, Good
<1>2. PICK k \in 1 .. Len(s) : s[k] = a
  BY <1>1 DEF Good, Owned
<1>3. a \in Nat /\ a \in DOMAIN mem /\ mem[a].size \in Nat
  BY <1>1, <1>2, InList DEF Good
<1>4. /\ a + METADATA_SIZE <= Limit(heap.brk, heap.top, a)
      /\ mem[a].status = "MAPPED" <=> a >= Wrap
  BY <1>1, <1>2 DEF Good, Placed
<1>5. Whole(g, own2, s) /\ g.top = heap.top
  <2>1. CASE mem[a].status = "MAPPED"
    <3>1. g = heap
      BY <2>1
    <3>2. Good(mem, heap.start, own2, heap.brk, heap.top, s)
      BY <1>1, <2>1, FreeGood
    <3> HIDE DEF own2
    <3> QED
      BY <1>1, <3>1, <3>2 DEF Whole
  <2>2. CASE mem[a].status # "MAPPED"
    <3>1. g = [heap EXCEPT !.mem = two]
      BY <1>1, <2>2 DEF IsHeap
    <3>2. Changes(mem, two, a, "FREE", mem[a].size)
      BY <1>1, <1>3, ChangeFields
    <3> HIDE DEF two
    <3>3. Good(two, heap.start, own2, heap.brk, heap.top, s)
      BY <1>1, <2>2, <3>2, FreeGood
    <3>4. g = [mem |-> two, start |-> heap.start, last |-> heap.last,
               brk |-> heap.brk, top |-> heap.top]
      BY <1>1, <3>1, HeapFields
    <3> HIDE DEF own2
    <3> QED
      BY <1>1, <3>3, <3>4 DEF Whole, IsHeap
  <2> QED
    BY <2>1, <2>2
<1> QED
  BY <1>3, <1>4, <1>5

-----------------------------------------------------------------------------
(* The invariant.                                                          *)

\* As long as no call slipped, the heap is whole, and what is unmapped was a
\* mapping that the program does not hold.
Sound(heap, own, unmapped) ==
    /\ \E s : Whole(heap, own, s)
    /\ \A a \in unmapped : /\ a \in Nat /\ Wrap <= a /\ a < heap.top
                           /\ a \notin DOMAIN own

AllocatorInv == slipped \/ Sound(h, held, gone)

LEMMA InitSound == Init => AllocatorInv
<1> SUFFICES ASSUME Init PROVE Sound(h, held, gone)
  BY DEF AllocatorInv
<1>1. /\ h.mem = <<>> /\ h.start = NULL /\ h.last = NULL /\ h.brk = 0 /\ h.top = Wrap
      /\ IsHeap(h)
  BY DEF Init, IsHeap
<1>2. held = <<>> /\ gone = {}
  BY DEF Init
<1>3. Typed(h.mem)
  <2>1. IsFiniteSet({})
    BY FS_EmptySet
  <2>2. DOMAIN h.mem = {} /\ h.mem \in [{} -> Headers]
    BY <1>1
  <2> QED
    BY <2>1, <2>2 DEF Typed
<1>4. Chained(h.mem, h.start, <<>>) /\ Placed(h.mem, held, h.brk, h.top, <<>>)
      /\ Owned(h.mem, held, <<>>) /\ LastOf(<<>>) = h.last
  BY <1>1, <1>2 DEF Chained, Placed, Owned, LastOf
<1>5. Whole(h, held, <<>>)
  BY <1>1, <1>3, <1>4, Numbers DEF Whole, Good
<1> QED
  BY <1>2, <1>5 DEF Sound

\* A call that does not slip keeps the heap sound.
LEMMA GivesSound ==
  ASSUME NEW heap, NEW own, NEW unmapped, Sound(heap, own, unmapped),
         NEW size \in Nat, NEW call \in {"malloc", "calloc"},
         NEW joined, joined = coalesce(heap), ~Slips(joined, call, size),
         NEW r, r = Allocated(joined, call, size), r.heap.brk <= Wrap
  PROVE  Sound(r.heap, With(own, r.ret, size), unmapped)
<1> DEFINE own2 == With(own, r.ret, size)
<1>1. PICK s : Whole(heap, own, s)
  BY DEF Sound
<1>2. (\E t : Whole(joined, own, t)) /\ joined.brk = heap.brk /\ joined.top = heap.top
  BY <1>1, CoalesceWhole
<1>3. PICK t : Whole(joined, own, t)
  BY <1>2
<1>4. Gives(joined, own, size, r)
  BY <1>3, AllocatedGood
<1>5. DOMAIN own2 = DOMAIN own \cup {r.ret}
  BY DEF With
<1> HIDE DEF own2
<1>6. /\ \E u : Whole(r.heap, own2, u)
      /\ heap.top <= r.heap.top /\ (r.ret < Wrap \/ heap.top <= r.ret)
  BY <1>2, <1>4 DEF Gives, own2
<1>7. PICK u : Whole(r.heap, own2, u)
  BY <1>6
<1>8. r.ret \in Nat /\ r.heap.top \in Int /\ heap.top \in Int
  <2>1. PICK k \in 1 .. Len(u) : u[k] = r.ret
    BY <1>5, <1>7 DEF Whole, Good, Owned
  <2>2. r.ret \in Nat
    BY <1>7, <2>1, InList DEF Whole, Good
  <2> QED
    BY <1>1, <1>7, <2>2 DEF Whole
<1>9. ASSUME NEW a \in unmapped
      PROVE  a \in Nat /\ Wrap <= a /\ a < r.heap.top /\ a \notin DOMAIN own2
  <2>1. a \in Nat /\ Wrap <= a /\ a < heap.top /\ a \notin DOMAIN own
    BY DEF Sound
  <2> QED
    BY <1>5, <1>6, <1>8, <2>1, Numbers
<1> QED
  BY <1>7, <1>9 DEF Sound, own2

LEMMA FreeSound ==
  ASSUME NEW heap, NEW own, NEW unmapped, Sound(heap, own, unmapped), NEW a \in DOMAIN own,
         NEW g, NEW unmapped2,
         \/ heap.mem[a].status = "MAPPED" /\ g = heap /\ unmapped2 = unmapped \cup {a}
         \/ /\ heap.mem[a].status # "MAPPED" /\ g = [heap EXCEPT !.mem[a].status = "FREE"]
            /\ unmapped2 = unmapped
  PROVE  Sound(g, Restrict(own, DOMAIN own \ {a}), unmapped2)
<1> DEFINE own2 == Restrict(own, DOMAIN own \ {a})
<1>1. PICK s : Whole(heap, own, s)
  BY DEF Sound
<1>2. /\ Whole(g, own2, s) /\ g.top = heap.top
      /\ a \in Nat /\ a + METADATA_SIZE <= Limit(heap.brk, heap.top, a)
      /\ heap.mem[a].status = "MAPPED" <=> a >= Wrap
  BY <1>1, FreeWhole
<1>3. DOMAIN own2 = DOMAIN own \ {a}
  BY DEF Restrict
<1> HIDE DEF own2
<1>4. heap.top \in Int
  BY <1>1 DEF Whole
<1>5. ASSUME NEW b \in unmapped2
      PROVE  b \in Nat /\ Wrap <= b /\ b < g.top /\ b \notin DOMAIN own2
  <2>1. CASE b = a /\ heap.mem[a].status = "MAPPED"
    <3>1. a >= Wrap /\ a + METADATA_SIZE <= heap.top
      BY <1>2, <2>1, Numbers DEF Limit
    <3> QED
      BY <1>2, <1>3, <1>4, <2>1, <3>1, Numbers
  <2>2. CASE b \in unmapped
    <3>1. b \in Nat /\ Wrap <= b /\ b < heap.top /\ b \notin DOMAIN own
      BY <2>2 DEF Sound
    <3> QED
      BY <1>2, <1>3, <3>1
  <2> QED
    BY <2>1, <2>2
<1> QED
  BY <1>2, <1>5 DEF Sound, own2

LEMMA NextSound == AllocatorInv /\ [Next]_vars => AllocatorInv'
<1> SUFFICES ASSUME AllocatorInv, [Next]_vars PROVE AllocatorInv'
  OBVIOUS
<1>1. ASSUME NEW bytes \in Requests, NEW call \in {"malloc", "calloc"}, Alloc(call, bytes)
      PROVE  AllocatorInv'
  <2>1. PICK size, joined, r : /\ size = PADDING(bytes) /\ joined = coalesce(h)
                               /\ r = Allocated(joined, call, size)
    OBVIOUS
  <2>2. size \in Nat
    BY <2>1, Padded
  <2>3. gone' = gone
    BY <1>1 DEF Alloc
  <2>4. CASE h' = h /\ held' = held /\ slipped' = slipped
    BY <2>3, <2>4 DEF AllocatorInv
  <2>5. CASE /\ r.heap.brk <= Wrap /\ h' = r.heap /\ held' = With(held, r.ret, size)
             /\ slipped' = (slipped \/ Slips(joined, call, size))
    <3>1. CASE slipped \/ Slips(joined, call, size)
      BY <2>5, <3>1 DEF AllocatorInv
    <3>2. CASE ~(slipped \/ Slips(joined, call, size))
      <4>1. Sound(h, held, gone) /\ ~Slips(joined, call, size)
        BY <3>2 DEF AllocatorInv
      <4>2. Sound(r.heap, With(held, r.ret, size), gone)
        BY <2>1, <2>2, <2>5, <4>1, GivesSound
      <4> QED
        BY <2>3, <2>5, <4>2 DEF AllocatorInv
    <3> QED
      BY <3>1, <3>2
  <2>6. \/ h' = h /\ held' = held /\ slipped' = slipped
        \/ /\ r.heap.brk <= Wrap /\ h' = r.heap /\ held' = With(held, r.ret, size)
           /\ slipped' = (slipped \/ Slips(joined, call, size))
    BY <1>1, <2>1, Zenon DEF Alloc
  <2> QED
    BY <2>4, <2>5, <2>6
<1>2. ASSUME NEW a \in DOMAIN held, os_free(a) PROVE AllocatorInv'
  <2>1. /\ slipped' = slipped /\ held' = Restrict(held, DOMAIN held \ {a})
        /\ \/ h.mem[a].status = "MAPPED" /\ h' = h /\ gone' = gone \cup {a}
           \/ /\ h.mem[a].status # "MAPPED" /\ h' = [h EXCEPT !.mem[a].status = "FREE"]
              /\ gone' = gone
    BY <1>2, Zenon DEF os_free
  <2>2. CASE slipped
    BY <2>1, <2>2 DEF AllocatorInv
  <2>3. CASE ~slipped
    <3>1. Sound(h, held, gone)
      BY <2>3 DEF AllocatorInv
    <3>2. PICK g, unmapped2 : g = h' /\ unmapped2 = gone'
      OBVIOUS
    <3>3. \/ h.mem[a].status = "MAPPED" /\ g = h /\ unmapped2 = gone \cup {a}
          \/ /\ h.mem[a].status # "MAPPED" /\ g = [h EXCEPT !.mem[a].status = "FREE"]
             /\ unmapped2 = gone
      BY <2>1, <3>2
    <3>4. Sound(g, Restrict(held, DOMAIN held \ {a}), unmapped2)
      BY <3>1, <3>3, FreeSound
    <3>5. Sound(h', held', gone')
      BY <2>1, <3>2, <3>4
    <3> QED
      BY <3>5 DEF AllocatorInv
  <2> QED
    BY <2>2, <2>3
<1>3. CASE UNCHANGED vars
  BY <1>3 DEF AllocatorInv, vars
<1> QED
  BY <1>1, <1>2, <1>3 DEF Next

LEMMA Invariant == Spec => []AllocatorInv
<1>1. Init => AllocatorInv
  BY InitSound
<1>2. AllocatorInv /\ [Next]_vars => AllocatorInv'
  BY NextSound
<1> QED
  BY <1>1, <1>2, PTL DEF Spec

-----------------------------------------------------------------------------
(* The properties.                                                         *)

\* What is used ends before another header, or begins after it.
LEMMA Apart ==
  ASSUME NEW heap, NEW own, NEW s, Whole(heap, own, s),
         NEW j \in 1 .. Len(s), NEW k \in 1 .. Len(s), j # k,
         Used(heap.mem, own, s[j])
  PROVE  End(heap.mem, s[j]) <= s[k] \/ s[k] + METADATA_SIZE <= s[j]
<1>1. /\ heap.brk \in Nat /\ heap.top \in Int /\ heap.brk <= Wrap /\ Wrap <= heap.top
      /\ s[j] \in Nat /\ s[k] \in Nat /\ heap.mem[s[j]].size \in Nat
  BY InList DEF Whole, Good
<1>2. /\ End(heap.mem, s[j]) <= Limit(heap.brk, heap.top, s[j])
      /\ s[k] + METADATA_SIZE <= Limit(heap.brk, heap.top, s[k])
  BY DEF Whole, Good, Placed
<1>3. CASE Alike(s[j], s[k]) /\ j < k
  BY <1>3 DEF Whole, Good, Placed
<1>4. CASE Alike(s[j], s[k]) /\ k < j
  <2>1. Alike(s[k], s[j])
    BY <1>4 DEF Alike
  <2> QED
    BY <1>4, <2>1 DEF Whole, Good, Placed
<1>5. CASE s[j] < Wrap /\ s[k] >= Wrap
  BY <1>1, <1>2, <1>5, Numbers DEF Limit, End
<1>6. CASE s[k] < Wrap /\ s[j] >= Wrap
  BY <1>1, <1>2, <1>6, Numbers DEF Limit
<1> QED
  BY <1>1, <1>3, <1>4, <1>5, <1>6, Numbers DEF Alike

\* Blocks, and what of them is used, in a whole heap.
LEMMA WholeSafe ==
  ASSUME NEW s, Whole(h, held, s)
  PROVE  Safe
<1>1. /\ List = s /\ Len(s) \in Nat /\ s \in Seq(DOMAIN h.mem)
      /\ \A k \in 1 .. Len(s) : s[k] \in Nat /\ h.mem[s[k]].size \in Nat
  BY GoodBlocks, InList DEF Whole, Good, List, Chained
<1>2. ASSUME NEW a \in DOMAIN held
      PROVE  /\ \E j \in 1 .. Len(s) : s[j] = a
             /\ Used(h.mem, held, a) /\ a \in Nat /\ h.mem[a].size \in Nat
  <2>1. PICK j \in 1 .. Len(s) : s[j] = a
    BY DEF Whole, Good, Owned
  <2> QED
    BY <1>1, <2>1 DEF Used
<1>3. ASSUME NEW a \in DOMAIN held, NEW b \in DOMAIN held \ {a}
      PROVE  Payload(a) \cap Payload(b) = {}
  <2>1. PICK j \in 1 .. Len(s), k \in 1 .. Len(s) : s[j] = a /\ s[k] = b
    BY <1>2
  <2>2. j # k /\ Used(h.mem, held, a) /\ Used(h.mem, held, b)
    BY <1>2, <2>1
  <2>3. /\ End(h.mem, a) <= b \/ b + METADATA_SIZE <= a
        /\ End(h.mem, b) <= a \/ a + METADATA_SIZE <= b
    BY <2>1, <2>2, Apart
  <2>4. PICK x \in Nat, y \in Nat : x = h.mem[a].size /\ y = h.mem[b].size
    BY <1>2
  <2>5. a \in Nat /\ b \in Nat
    BY <1>2
  <2>6. /\ a + METADATA_SIZE + x <= b \/ b + METADATA_SIZE <= a
        /\ b + METADATA_SIZE + y <= a \/ a + METADATA_SIZE <= b
    BY <2>3, <2>4 DEF End
  <2>7. /\ Payload(a) = a + METADATA_SIZE .. a + METADATA_SIZE + x - 1
        /\ Payload(b) = b + METADATA_SIZE .. b + METADATA_SIZE + y - 1
    BY <2>4 DEF Payload
  <2> QED
    BY <2>5, <2>6, <2>7, Numbers
<1>4. ASSUME NEW a \in DOMAIN held, NEW b \in Range(List) \cup {h.last}
      PROVE  Payload(a) \cap Header(b) = {}
  <2>1. PICK j \in 1 .. Len(s) : s[j] = a
    BY <1>2
  <2>2. PICK k \in 1 .. Len(s) : s[k] = b
    <3>1. Len(s) \in 1 .. Len(s) /\ h.last = s[Len(s)]
      BY <1>1, <2>1 DEF Whole, LastOf
    <3>2. Range(List) = {s[i] : i \in 1 .. Len(s)}
      BY <1>1 DEF Range
    <3> QED
      BY <3>1, <3>2
  <2>3. PICK x \in Nat : x = h.mem[a].size
    BY <1>2
  <2>4. a \in Nat /\ b \in Nat /\ Used(h.mem, held, a)
    BY <1>1, <1>2, <2>2
  <2>5. a = b \/ a + METADATA_SIZE + x <= b \/ b + METADATA_SIZE <= a
    <3>1. CASE j = k
      BY <2>1, <2>2, <3>1
    <3>2. CASE j # k
      <4>1. End(h.mem, s[j]) <= s[k] \/ s[k] + METADATA_SIZE <= s[j]
        BY <2>1, <2>4, <3>2, Apart
      <4> QED
        BY <2>1, <2>2, <2>3, <4>1 DEF End
    <3> QED
      BY <3>1, <3>2
  <2>6. /\ Payload(a) = a + METADATA_SIZE .. a + METADATA_SIZE + x - 1
        /\ Header(b) = b .. b + METADATA_SIZE - 1
    BY <2>3 DEF Payload, Header
  <2> QED
    BY <2>4, <2>5, <2>6, Numbers
<1>5. ASSUME NEW a \in DOMAIN held, a < Wrap
      PROVE  a + METADATA_SIZE + h.mem[a].size <= h.brk
  <2>1. PICK j \in 1 .. Len(s) : s[j] = a
    BY <1>2
  <2>2. Used(h.mem, held, a)
    BY <1>2
  <2>3. End(h.mem, a) <= Limit(h.brk, h.top, a)
    BY <2>1, <2>2 DEF Whole, Good, Placed
  <2> QED
    BY <1>5, <2>3 DEF End, Limit
<1> QED
  BY <1>3, <1>4, <1>5 DEF Safe

\* Disjoint, for any sizes, requests and calls: as long as no call slipped,
\* allocations share no memory with one another, with the headers or with what
\* is past the heap, and each keeps the size asked for.
THEOREM DisjointTheorem == Spec => []Disjoint
<1>1. AllocatorInv => Disjoint
  <2> SUFFICES ASSUME Sound(h, held, gone) PROVE Disjoint
    BY DEF AllocatorInv, Disjoint
  <2>1. PICK s : Whole(h, held, s)
    BY DEF Sound
  <2>2. Safe
    BY <2>1, WholeSafe
  <2>3. ASSUME NEW a \in DOMAIN held
        PROVE  held[a] <= h.mem[a].size /\ h.mem[a].status # "FREE" /\ a \notin gone
    BY <2>1 DEF Whole, Good, Owned, Sound
  <2> QED
    BY <2>2, <2>3 DEF Disjoint
<1> QED
  BY <1>1, Invariant, PTL

\* Linked, for any sizes, requests and calls: as long as no call slipped, the
\* list is well linked both ways, last is its end, and the blocks of the heap
\* that are held or free come in order and end before the next one.
THEOREM LinkedTheorem == Spec => []Linked
<1>1. AllocatorInv => Linked
  <2> SUFFICES ASSUME Sound(h, held, gone) PROVE Linked
    BY DEF AllocatorInv, Linked
  <2>1. PICK s : Whole(h, held, s)
    BY DEF Sound
  <2>2. /\ List = s /\ Len(s) \in Nat /\ h.last = LastOf(s)
        /\ Chained(h.mem, h.start, s)
        /\ \A k \in 1 .. Len(s) : s[k] \in Nat
    BY <2>1, GoodBlocks, InList DEF Whole, Good, List
  <2>3. Len(s) > 0 => h.mem[h.last].next = NULL
    <3>1. Len(s) > 0 => Len(s) \in 1 .. Len(s) /\ h.last = s[Len(s)]
      BY <2>2 DEF LastOf
    <3> QED
      BY <2>2, <3>1 DEF Chained
  <2>4. \A k \in 1 .. Len(s) : h.mem[s[k]].prev = IF k = 1 THEN NULL ELSE s[k - 1]
    BY <2>2 DEF Chained
  <2>5. ASSUME NEW j \in 1 .. Len(s), NEW k \in 1 .. Len(s), j < k,
               s[j] < Wrap, s[k] < Wrap,
               h.mem[s[j]].status = "FREE" \/ s[j] \in DOMAIN held
        PROVE  s[j] + METADATA_SIZE + h.mem[s[j]].size <= s[k]
    <3>1. Alike(s[j], s[k]) /\ Used(h.mem, held, s[j])
      BY <2>5 DEF Alike, Used
    <3>2. End(h.mem, s[j]) <= s[k]
      BY <2>1, <2>5, <3>1 DEF Whole, Good, Placed
    <3> QED
      BY <3>2 DEF End
  <2>6. h.last = IF Len(s) = 0 THEN NULL ELSE s[Len(s)]
    BY <2>2 DEF LastOf
  <2> QED
    BY <2>2, <2>3, <2>4, <2>5, <2>6 DEF Linked
<1> QED
  BY <1>1, Invariant, PTL
=============================================================================
