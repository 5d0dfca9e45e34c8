----------------------------- MODULE Allocator -----------------------------
(***************************************************************************)
(* osmem.c: os_malloc, os_calloc and os_free over one list of blocks.      *)
(* Addresses and sizes are in units of ALIGNMENT. What follows a write     *)
(* over the allocator's own headers, or past the heap, is not modelled:    *)
(* calls end there (Safe).                                                 *)
(***************************************************************************)
EXTENDS Integers, Sequences, FiniteSetsExt

CONSTANTS
    Requests,   \* sizes asked for, in bytes, none of them 0
    ALIGNMENT, METADATA_SIZE, MMAP_THRESHOLD,
    PageSize,   \* getpagesize()
    Wrap,       \* what a size_t counts to, and where mappings begin
    MaxCalls    \* bound on the calls

\* What 40 bytes are enough for, and a page below the threshold.
ASSUME SizesAssumption ==
    /\ Requests \subseteq Nat \ {0}
    /\ ALIGNMENT \in Nat \ {0} /\ METADATA_SIZE \in 1 .. 40 \div ALIGNMENT
    /\ MMAP_THRESHOLD \in Nat /\ PageSize \in 1 .. MMAP_THRESHOLD
    /\ Wrap \in Nat /\ MMAP_THRESHOLD < Wrap

NULL == -1

VARIABLES
    h,      \* mem, the header at each address; start, last; brk, the end of
            \* the heap; top, where the next mapping goes
    held,   \* by block that the program holds, the size it asked for
    gone,   \* the blocks that are unmapped
    slipped,    \* whether a call slipped (Slips)
    state,  \* "runs", or "faulted": a block that is not mapped was read
    calls   \* how many calls were made

vars == <<h, held, gone, slipped, state, calls>>

Init ==
    /\ h = [mem |-> <<>>, start |-> NULL, last |-> NULL, brk |-> 0, top |-> Wrap]
    /\ held = <<>> /\ gone = {} /\ slipped = FALSE
    /\ state = "runs" /\ calls = 0

PADDING(bytes) == (bytes + ALIGNMENT - 1) \div ALIGNMENT

\* The blocks from start on: no more of them than headers.
Blocks(mem, start) ==
    LET all == Cardinality(DOMAIN mem)
        first[k \in 0 .. all] ==
            IF k = 0 THEN <<>>
            ELSE LET s == first[k - 1]
                     a == IF s = <<>> THEN start ELSE mem[s[Len(s)]].next
                 IN  IF a = NULL THEN s ELSE Append(s, a)
    IN  first[all]
List == Blocks(h.mem, h.start)

With(f, a, x) == [b \in DOMAIN f \cup {a} |-> IF b = a THEN x ELSE f[b]]
SetPrev(mem, a, prev) == IF a = NULL THEN mem ELSE [mem EXCEPT ![a].prev = prev]
SetNext(mem, a, next) == IF a = NULL THEN mem ELSE [mem EXCEPT ![a].next = next]

add_block(heap, size, status, at) ==
    [heap EXCEPT
        !.mem = With(SetNext(@, heap.last, at), at,
                     [size |-> size, status |-> status, prev |-> heap.last, next |-> NULL]),
        !.start = IF heap.last = NULL THEN at ELSE @,
        !.last = at]

\* A slip split_block could have: the new header is put where the payload ends
\* without room for the one before.
BadSecond(a, size) == a + size
Second(a, size) == a + size + METADATA_SIZE

\* Another: the block after the new one keeps its prev.
BadBack(mem, a, prev) == mem
Back(mem, a, prev) == SetPrev(mem, a, prev)

split_block(heap, size, a) ==
    LET p == Second(a, size)
        b == heap.mem[a]
    IN  [heap EXCEPT
            !.mem = With([Back(@, b.next, p) EXCEPT ![a].next = p, ![a].size = size], p,
                         [size |-> b.size - size - METADATA_SIZE, status |-> "FREE",
                          prev |-> a, next |-> b.next]),
            !.last = IF @ = a THEN p ELSE @]

\* A free block is joined to a free one before it, with its size only.
Join(mem, temp) ==
    LET b == mem[temp]
    IN  IF b.status = "FREE" /\ mem[b.prev].status = "FREE"
        THEN SetPrev([mem EXCEPT ![b.prev].size = @ + b.size,
                                 ![b.prev].next = b.next], b.next, b.prev)
        ELSE mem

\* All blocks but the first, in turn; last may go on pointing to a joined one.
Coalesced(mem, list) ==
    LET pass[k \in 1 .. Len(list)] ==
            IF k = 1 THEN mem ELSE Join(pass[k - 1], list[k])
    IN  IF list = <<>> THEN mem ELSE pass[Len(list)]
coalesce(heap) == [heap EXCEPT !.mem = Coalesced(@, Blocks(@, heap.start))]

\* The differences between os_malloc and os_calloc.
MinRest(call) == IF call = "malloc" THEN 1 ELSE 40 \div ALIGNMENT
Maps(call, size) == IF call = "malloc" THEN size >= MMAP_THRESHOLD
                    ELSE PageSize <= size + METADATA_SIZE

Block(heap, a) == [heap |-> heap, ret |-> a]
Taken(mem, a, size) == [mem EXCEPT ![a].status = "ALLOC", ![a].size = size]

Reused(heap, call, size, a) ==
    LET rest  == heap.mem[a].size - size - METADATA_SIZE
        split == IF rest >= MinRest(call) THEN split_block(heap, size, a) ELSE heap
        new   == IF call = "calloc" THEN size ELSE split.mem[a].size
    IN  Block([split EXCEPT !.mem = Taken(@, a, new)], a)

expand_block(heap, size) ==
    Block([heap EXCEPT !.brk = @ + size - heap.mem[heap.last].size,
                       !.mem = Taken(@, heap.last, size)], heap.last)

Mapped(heap, size) ==
    Block([add_block(heap, size, "MAPPED", heap.top) EXCEPT !.top = @ + size + METADATA_SIZE],
          heap.top)

\* The first block of the heap; what is left of the first MMAP_THRESHOLD
\* becomes a block in use that nobody holds, longer by a header than what is
\* left. The difference is unsigned.
Preallocated(heap, size) ==
    LET rest == (MMAP_THRESHOLD - size - METADATA_SIZE) % Wrap
        one  == add_block([heap EXCEPT !.brk = @ + MMAP_THRESHOLD], size, "ALLOC", heap.brk)
    IN  Block(IF rest >= 40 \div ALIGNMENT
              THEN add_block(one, rest, "ALLOC", heap.brk + size + METADATA_SIZE)
              ELSE one, heap.brk)

Appended(heap, size) ==
    Block(add_block([heap EXCEPT !.brk = @ + size + METADATA_SIZE], size, "ALLOC", heap.brk),
          heap.brk)

\* The first block that fits, or the last made longer, or a new one.
Allocated(heap, call, size) ==
    LET list == Blocks(heap.mem, heap.start)
        fits == {k \in 1 .. Len(list) : /\ heap.mem[list[k]].status = "FREE"
                                        /\ heap.mem[list[k]].size >= size}
        end  == heap.mem[heap.last]
    IN  IF fits # {} THEN Reused(heap, call, size, list[Min(fits)])
        ELSE IF heap.start # NULL /\ end.status = "FREE" /\ end.size <= size
             THEN expand_block(heap, size)
        ELSE IF Maps(call, size) THEN Mapped(heap, size)
        ELSE IF heap.start = NULL THEN Preallocated(heap, size)
        ELSE Appended(heap, size)

\* Two things that the code does not look at: coalesce joined the block that
\* last goes on pointing to; the first block leaves less than a header of
\* MMAP_THRESHOLD.
Slips(heap, call, size) ==
    \/ heap.start # NULL /\ heap.last \notin Range(Blocks(heap.mem, heap.start))
    \/ /\ heap.start = NULL /\ ~Maps(call, size)
       /\ size + METADATA_SIZE > MMAP_THRESHOLD

-----------------------------------------------------------------------------
Payload(a) == a + METADATA_SIZE .. a + METADATA_SIZE + h.mem[a].size - 1
Header(a) == a .. a + METADATA_SIZE - 1

\* What the program may write is its own, below the end of the heap and off
\* the headers that the allocator reads.
Safe ==
    LET read == Range(List) \cup {h.last}
    IN  \A a \in DOMAIN held :
        /\ \A b \in DOMAIN held \ {a} : Payload(a) \cap Payload(b) = {}
        /\ \A b \in read : Payload(a) \cap Header(b) = {}
        /\ a < Wrap => a + METADATA_SIZE + h.mem[a].size <= h.brk

\* os_malloc and os_calloc read every block of the list. sbrk does not fail:
\* the heap ends below the mappings.
Alloc(call, bytes) ==
    LET size == PADDING(bytes)
        heap == coalesce(h)
        r    == Allocated(heap, call, size)
    IN  /\ state = "runs" /\ Safe /\ calls < MaxCalls
        /\ calls' = calls + 1
        /\ \/ /\ Range(List) \cap gone # {}
              /\ state' = "faulted" /\ UNCHANGED <<h, held, slipped>>
           \/ /\ Range(List) \cap gone = {}
              /\ r.heap.brk <= Wrap
              /\ h' = r.heap /\ held' = With(held, r.ret, size)
              /\ slipped' = (slipped \/ Slips(heap, call, size))
              /\ UNCHANGED state
        /\ UNCHANGED gone

\* A mapped block is unmapped and stays in the list.
os_free(a) ==
    /\ state = "runs" /\ Safe /\ calls < MaxCalls /\ a \in DOMAIN held
    /\ calls' = calls + 1 /\ held' = Restrict(held, DOMAIN held \ {a})
    /\ IF h.mem[a].status = "MAPPED" THEN gone' = gone \cup {a} /\ UNCHANGED h
       ELSE h' = [h EXCEPT !.mem[a].status = "FREE"] /\ UNCHANGED gone
    /\ UNCHANGED <<slipped, state>>

Next ==
    \/ \E bytes \in Requests : Alloc("malloc", bytes) \/ Alloc("calloc", bytes)
    \/ \E a \in DOMAIN held : os_free(a)

Spec == Init /\ [][Next]_vars

-----------------------------------------------------------------------------
\* As long as no call slipped, allocations share no memory with one another,
\* with a header or with what is past the heap, and each has at least the size
\* asked for and is neither offered again nor unmapped, whatever was split,
\* joined, expanded and reused before.
Disjoint ==
    \/ slipped
    \/ /\ Safe
       /\ \A a \in DOMAIN held : /\ held[a] <= h.mem[a].size
                                 /\ h.mem[a].status # "FREE" /\ a \notin gone

\* As long as no call slipped, the list ends, every block is the prev of its
\* next, last is its end, and the blocks of the heap that are held or free
\* come in the order of their addresses and end before the next one.
Linked ==
    LET blocks == List
        n == Len(blocks)
        InHeap(k) == blocks[k] < Wrap
        Used(k) == h.mem[blocks[k]].status = "FREE" \/ blocks[k] \in DOMAIN held
    IN  slipped \/
        /\ h.last = (IF n = 0 THEN NULL ELSE blocks[n])
        /\ n > 0 => h.mem[h.last].next = NULL
        /\ \A k \in 1 .. n :
              h.mem[blocks[k]].prev = IF k = 1 THEN NULL ELSE blocks[k - 1]
        /\ \A j, k \in 1 .. n : (j < k /\ InHeap(j) /\ Used(j) /\ InHeap(k)) =>
              blocks[j] + METADATA_SIZE + h.mem[blocks[j]].size <= blocks[k]
=============================================================================
