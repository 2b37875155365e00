-------------------------------- MODULE Heap --------------------------------
(***************************************************************************)
(* The user-level allocator of uspace/malloc.c, seen as two sets of        *)
(* blocks.  The free list is kept in ascending address order, so "the      *)
(* first node that fits" is "the lowest block that fits", and the links    *)
(* of both lists can be left out here; module Malloc has them and is       *)
(* checked to implement this module.                                       *)
(*                                                                         *)
(* A block is [at, size, req]: the address of its elt header, its size     *)
(* with the header included, and elt.alloc_bytes (0 in a free block: the   *)
(* code reads alloc_bytes of allocated blocks only).  Addresses and sizes  *)
(* are uint64_t, so arithmetic on them is modulo WORD.                     *)
(***************************************************************************)
EXTENDS Integers, FiniteSets, FiniteSetsExt

CONSTANTS
    ALIGN,     \* granularity of block sizes: 8
    HEADER,    \* sizeof(elt): 32
    PAGESIZE,  \* 4096
    WORD,      \* number of values of a uint64_t: 2^64
    ORIG,      \* p->original_break of the process, page aligned
    LIMIT,     \* MEMSIZE_VIRTUAL - PAGESIZE, the first break sbrk refuses
    PTRSZ,     \* sizeof(long) = sizeof(void *): 8
    Requests,  \* sizes the program passes to malloc and realloc
    Arrays,    \* pairs <<num, sz>> the program passes to calloc
    Gaps       \* increments the program itself passes to sbrk

ASSUME SizesAssumption ==
    /\ ALIGN \in Nat \ {0} /\ HEADER \in Nat \ {0} /\ PAGESIZE \in Nat \ {0}
    /\ HEADER % ALIGN = 0 /\ PAGESIZE % ALIGN = 0
    /\ PTRSZ \in Nat \ {0}

ASSUME RangeAssumption ==
    /\ ORIG \in Nat \ {0} /\ LIMIT \in Nat /\ WORD \in Nat
    /\ ORIG < LIMIT /\ LIMIT < WORD
    /\ ORIG % ALIGN = 0

ASSUME InputAssumption ==
    /\ Requests \subseteq 0 .. (WORD - 1)
    /\ Arrays \subseteq (0 .. (WORD - 1)) \X (0 .. (WORD - 1))
    /\ Gaps \subseteq Nat

NULL == 0

VARIABLES
    heap,   \* [free, alloc: sets of blocks, brk: program_break, gap: bytes
            \*  below the break that the program took with sbrk itself]
    held,   \* the regions the program may use: [ptr, n], n bytes requested
    alive   \* FALSE once the kernel has killed the process for a page fault

vars == <<heap, held, alive>>
-----------------------------------------------------------------------------
(* Arithmetic of the code *)

ROUNDUP(x, n) == LET y == (x + n - 1) % WORD IN y - (y % n)

\* Mutant: the header is forgotten.
required_size_headerless(n) == ROUNDUP(n, ALIGN)

\* HEADER + numbytes rounded up to 8
required_size(n) == ROUNDUP((HEADER + n) % WORD, ALIGN)

\* what malloc asks sbrk for when no free block fits
chunk_size(r) == ROUNDUP(r, 4 * PAGESIZE)

Block(a, s, n) == [at |-> a, size |-> s, req |-> n]
End(b) == b.at + b.size
Blocks(h) == h.free \cup h.alloc

-----------------------------------------------------------------------------
(* The operations as functions of the heap *)

\* the kernel's sbrk: the break it would set, and whether it refuses it
new_break(h, d) == (h.brk + d) % WORD

sbrk_fails(h, d) == new_break(h, d) >= LIMIT \/ new_break(h, d) < ORIG

fitting(h, r) == {b \in h.free : b.size >= r}

\* first fit: the free list ascends by address
search_free(h, r) ==
    CHOOSE b \in fitting(h, r) : \A c \in fitting(h, r) : b.at <= c.at

\* h with other lists
WithLists(h, f, a) == [free |-> f, alloc |-> a, brk |-> h.brk, gap |-> h.gap]

\* h with the chunk obtained from sbrk on the free list
grow(h, c) == [free |-> h.free \cup {Block(h.brk, c, 0)}, alloc |-> h.alloc,
               brk |-> new_break(h, c), gap |-> h.gap]

\* Mutant: the header is taken off the size of the rest, which already counts it.
place_rest_short(h, b, r, n) ==
    IF b.size - r >= 2 * HEADER
    THEN WithLists(h, (h.free \ {b}) \cup {Block(b.at + r, b.size - r - HEADER, 0)},
                      h.alloc \cup {Block(b.at, r, n)})
    ELSE WithLists(h, h.free \ {b}, h.alloc \cup {Block(b.at, b.size, n)})

\* h with free block b allocated for a request of n bytes; what is left of b
\* goes back to the free list when it can hold a header
place(h, b, r, n) ==
    IF b.size - r >= HEADER
    THEN WithLists(h, (h.free \ {b}) \cup {Block(b.at + r, b.size - r, 0)},
                      h.alloc \cup {Block(b.at, r, n)})
    ELSE WithLists(h, h.free \ {b}, h.alloc \cup {Block(b.at, b.size, n)})

Outcome(p, h, f) == [ptr |-> p, heap |-> h, fault |-> f]

\* The chunk's header is written at the old break: a page fault that kills the
\* process unless sbrk really raised the break over it.
malloc(h, n) ==
    LET r == required_size(n)
        c == chunk_size(r)
        g == IF fitting(h, r) = {} THEN grow(h, c) ELSE h
        b == search_free(g, r)
    IN  IF n = 0 THEN Outcome(NULL, h, FALSE)
        ELSE IF fitting(h, r) = {} /\ sbrk_fails(h, c) THEN Outcome(NULL, h, FALSE)
        ELSE IF fitting(h, r) = {} /\ new_break(h, c) < h.brk + HEADER
             THEN Outcome(NULL, h, TRUE)
        ELSE Outcome(b.at + HEADER, place(g, b, r, n), FALSE)

BlockOf(h, p) == CHOOSE b \in h.alloc : b.at + HEADER = p

\* Mutant: the block is given to its neighbour below, in use or not.
free_into_neighbour(h, p) ==
    LET b == BlockOf(h, p)
        below == {c \in h.alloc : End(c) = b.at}
    IN  IF below = {} THEN WithLists(h, h.free \cup {Block(b.at, b.size, 0)}, h.alloc \ {b})
        ELSE WithLists(h, h.free, (h.alloc \ ({b} \cup below))
                                  \cup {Block(c.at, c.size + b.size, c.req) : c \in below})

\* (free(NULL) does nothing.)
free(h, p) ==
    LET b == BlockOf(h, p)
    IN  WithLists(h, h.free \cup {Block(b.at, b.size, 0)}, h.alloc \ {b})

\* Mutant: the product is not checked.
calloc_unchecked(h, num, sz) ==
    IF num = 0 \/ sz = 0 THEN Outcome(NULL, h, FALSE) ELSE malloc(h, (num * sz) % WORD)

\* num * sz in the width of the machine, unless the check finds it wraps
calloc(h, num, sz) ==
    IF num = 0 \/ sz = 0 THEN Outcome(NULL, h, FALSE)
    ELSE IF sz > (WORD - 1) \div num THEN Outcome(NULL, h, FALSE)
    ELSE malloc(h, (num * sz) % WORD)

\* The bytes memcpy moves: original_header->size counts the header too.
copied(h, p, n) == IF BlockOf(h, p).size < n THEN BlockOf(h, p).size ELSE n

\* memcpy reads from p on; past the last page below the break it faults.
\* (realloc(NULL, n) is malloc(n).)
realloc(h, p, n) ==
    LET o == malloc(h, n)
    IN  IF n = 0 THEN Outcome(NULL, free(h, p), FALSE)
        ELSE IF o.ptr = NULL THEN o
        ELSE IF p + copied(o.heap, p, n) > ROUNDUP(o.heap.brk, PAGESIZE)
             THEN Outcome(NULL, h, TRUE)
        ELSE Outcome(o.ptr, free(o.heap, p), FALSE)

\* Coalescing walks the list once, merging each block with the ones that
\* follow it without a hole: a maximal run becomes one block.
Ends(F) == {End(b) : b \in F}
Starts(F) == {b.at : b \in F}
RunEnd(F, a) == Min({e \in Ends(F) \ Starts(F) : e > a})
coalesce(F) == {Block(a, RunEnd(F, a) - a, 0) : a \in Starts(F) \ Ends(F)}

defrag(h) == WithLists(h, coalesce(h.free), h.alloc)

\* heap_info allocates two arrays with one word for each allocated block.
array_bytes(h) == Cardinality(h.alloc) * PTRSZ

Regions(p, n) == IF p = NULL THEN {} ELSE {[ptr |-> p, n |-> n]}

-----------------------------------------------------------------------------
(* One action per call of the library *)

Init == /\ heap = [free |-> {}, alloc |-> {}, brk |-> ORIG, gap |-> {}]
        /\ held = {}
        /\ alive = TRUE

\* the call ends with heap o.heap; the program gains region and loses lost
Return(o, gained, lost) ==
    /\ alive
    /\ heap' = o.heap
    /\ held' = (held \ lost) \cup gained
    /\ alive' = ~o.fault

Malloc(n) == LET o == malloc(heap, n) IN Return(o, Regions(o.ptr, n), {})

Calloc(num, sz) ==
    LET o == calloc(heap, num, sz) IN Return(o, Regions(o.ptr, num * sz), {})

Free(r) == Return(Outcome(NULL, free(heap, r.ptr), FALSE), {}, {r})

\* A realloc that fails keeps the old region; realloc(p, 0) gives it up.
Realloc(r, n) ==
    LET o == realloc(heap, r.ptr, n)
    IN  Return(o, Regions(o.ptr, n), IF o.ptr # NULL \/ n = 0 THEN {r} ELSE {})

Defrag == Return(Outcome(NULL, defrag(heap), FALSE), {}, {})

\* size_array is not given back when ptr_array cannot be had.
HeapInfo ==
    LET k == array_bytes(heap)
        s == malloc(heap, k)
        p == malloc(s.heap, k)
    IN  IF s.ptr = NULL THEN Return(s, {}, {})
        ELSE IF p.ptr = NULL THEN Return(p, {}, {})
        ELSE Return(p, Regions(s.ptr, k) \cup Regions(p.ptr, k), {})

\* The program raises the break itself, between two calls of the library.
Sbrk(d) ==
    /\ alive
    /\ ~sbrk_fails(heap, d)
    /\ heap' = [free |-> heap.free, alloc |-> heap.alloc, brk |-> new_break(heap, d),
                gap |-> heap.gap \cup (heap.brk .. (new_break(heap, d) - 1))]
    /\ UNCHANGED <<held, alive>>

Next == \/ \E n \in Requests : Malloc(n)
        \/ \E a \in Arrays : Calloc(a[1], a[2])
        \/ \E r \in held : Free(r)
        \/ \E r \in held, n \in Requests : Realloc(r, n)
        \/ Defrag
        \/ HeapInfo
        \/ \E d \in Gaps : Sbrk(d)

Spec == Init /\ [][Next]_vars

-----------------------------------------------------------------------------
(* Preconditions under which the library keeps its promises *)

\* No request is so large that rounding it up wraps, and calloc's products
\* that do not wrap are as small.
Small(n) == n + HEADER + ALIGN + 4 * PAGESIZE + LIMIT <= WORD
NoWrap ==
    /\ \A n \in Requests : Small(n)
    /\ \A a \in Arrays : a[1] * a[2] < WORD => Small(a[1] * a[2])
    /\ Small(LIMIT * PTRSZ)

\* The program's own increments keep the break aligned.
AlignedGaps == \A d \in Gaps : d % ALIGN = 0 /\ d + LIMIT < WORD

-----------------------------------------------------------------------------
(* Properties *)

BlockType == [at : Nat, size : Nat, req : Nat]

HeapType == [free : SUBSET BlockType, alloc : SUBSET BlockType,
             brk : ORIG .. (LIMIT - 1), gap : SUBSET Nat]

\* The heap is two sets of blocks, the break stays where the kernel allows it.
TypeOK ==
    /\ heap \in HeapType
    /\ held \subseteq [ptr : Nat, n : Nat]
    /\ alive \in BOOLEAN

Apart(b, c) == End(b) <= c.at \/ End(c) <= b.at

\* The blocks partition the heap: no two overlap, each lies between the
\* original and the current break, and each byte the library got from sbrk is
\* in some block (splitting, freeing and coalescing lose and invent nothing).
Disjoint(h) == \A b, c \in Blocks(h) : b # c => Apart(b, c)
Within(h) == \A b \in Blocks(h) : ORIG <= b.at /\ End(b) <= h.brk
Covered(h) == \A x \in ORIG .. (h.brk - 1) :
                 x \in h.gap \/ \E b \in Blocks(h) : b.at <= x /\ x < End(b)
Partition == Disjoint(heap) /\ Within(heap) /\ Covered(heap)

\* Every block has room for its own elt header, so that writing the header of
\* a free part never reaches into the next block.
HeaderRoom(h) == \A b \in Blocks(h) : b.size >= HEADER
HeadersInside == HeaderRoom(heap)

\* A region the program was given is in an allocated block of its own that
\* remembers the request and has room for it: malloc "allocates sz bytes"
\* (malloc.h:14).
HeldUsable ==
    \A r \in held :
        \E b \in heap.alloc : /\ b.at + HEADER = r.ptr
                              /\ b.req = r.n
                              /\ r.ptr + r.n <= End(b)

\* "the pointer should be aligned to 8 bytes" (malloc.h:17).
HeldAligned == \A r \in held : r.ptr % ALIGN = 0

\* No call disturbs a region it was not given: as long as the program holds
\* it, its block keeps its place, its size and its recorded request.
HeldStable ==
    [][\A r \in held \cap held' :
          BlockOf(heap', r.ptr) = BlockOf(heap, r.ptr)]_vars

\* The inductive invariant behind the properties above.  Free blocks and
\* allocated ones are told apart by their request, every size is a multiple of
\* ALIGN, and an allocated block has room for its header and its request.
Aligned(h) == /\ h.brk % ALIGN = 0
              /\ \A b \in Blocks(h) : b.at % ALIGN = 0 /\ b.size % ALIGN = 0
Requested(h) == /\ \A b \in h.free : b.req = 0
                /\ \A b \in h.alloc : b.req > 0 /\ HEADER + b.req <= b.size
WellFormed(h) == /\ h \in HeapType
                 /\ Disjoint(h) /\ Within(h) /\ Covered(h)
                 /\ HeaderRoom(h) /\ Aligned(h) /\ Requested(h)
Backed(h, R) == \A r \in R : \E b \in h.alloc : b.at + HEADER = r.ptr /\ b.req = r.n
IndInv == /\ WellFormed(heap)
          /\ Backed(heap, held)
          /\ held \subseteq [ptr : Nat, n : Nat]
          /\ alive \in BOOLEAN

\* Reading a held region never gets the process killed (malloc.h:36-38 promises
\* the contents up to the smaller of the two sizes, and nothing beyond it).
Survives == alive

=============================================================================
