------------------------------- MODULE Malloc -------------------------------
(***************************************************************************)
(* uspace/malloc.c with its linked lists: elt headers in memory, a free    *)
(* list in ascending address order, an alloc list in descending order of   *)
(* alloc_bytes, and a counter for each.  A call is atomic: the library is  *)
(* not reentrant and its process has one thread.                           *)
(*                                                                         *)
(* The allocator's memory is one record, so that a call is the composition *)
(* of the functions it calls:                                              *)
(*   hdr    address of a node -> its elt [size, alloc_bytes, prev, next]   *)
(*   free   [head, tail, count] = free_head, free_tail, free_list_size     *)
(*   alloc  the same for the alloc list                                    *)
(*   brk    the process's program break, gap: see Heap                     *)
(* A header that is on no list any more is dropped from hdr: its memory    *)
(* belongs to another block and nothing may read it as an elt.             *)
(***************************************************************************)
EXTENDS Integers, Sequences, FiniteSets, SequencesExt

CONSTANTS ALIGN, HEADER, PAGESIZE, WORD, ORIG, LIMIT, PTRSZ,
          Requests, Arrays, Gaps   \* as in Heap

VARIABLES mem,    \* the record above
          held,   \* regions the program may use, as in Heap
          alive   \* as in Heap

vars == <<mem, held, alive>>

NULL == 0
EmptyList == [head |-> NULL, tail |-> NULL, count |-> 0]

-----------------------------------------------------------------------------
(* Walking a list *)

next(m, p) == m.hdr[p].next

\* The nodes reached from p by next, at most k of them (a list that is well
\* formed has no more than the headers there are).
RECURSIVE Walk(_, _, _)
Walk(m, p, k) == IF p = NULL \/ k = 0 THEN <<>>
                 ELSE <<p>> \o Walk(m, next(m, p), k - 1)

Nodes(m, l) == Walk(m, m[l].head, Cardinality(DOMAIN m.hdr) + 1)
NodeSet(m, l) == Range(Nodes(m, l))

\* Heap's view of the lists
BlockAt(m, l, p) == [at |-> p, size |-> m.hdr[p].size,
                     req |-> IF l = "free" THEN 0 ELSE m.hdr[p].alloc_bytes]
View(m) == [free |-> {BlockAt(m, "free", p) : p \in NodeSet(m, "free")},
            alloc |-> {BlockAt(m, "alloc", p) : p \in NodeSet(m, "alloc")},
            brk |-> m.brk, gap |-> m.gap]

H == INSTANCE Heap WITH heap <- View(mem)

-----------------------------------------------------------------------------
(* append_list_ordered: find the node to insert after, then link *)

\* node goes before the head of its list
goes_first(m, l, node, bytes) ==
    IF l = "free" THEN node < m[l].head
                  ELSE bytes > m.hdr[m[l].head].alloc_bytes

\* node goes between the neighbours p1 and p2
goes_between(m, l, node, bytes, p1, p2) ==
    IF l = "free" THEN node >= p1 /\ node < p2
    ELSE bytes <= m.hdr[p1].alloc_bytes /\ bytes > m.hdr[p2].alloc_bytes

\* the node to insert after when the walk has come to p1
RECURSIVE seek(_, _, _, _, _)
seek(m, l, node, bytes, p1) ==
    LET p2 == next(m, p1)
    IN  IF p2 = NULL \/ goes_between(m, l, node, bytes, p1, p2) THEN p1
        ELSE seek(m, l, node, bytes, p2)

\* m with node linked into list l between p1 and its successor
link(m, l, node, size, bytes, p1) ==
    LET p2 == IF p1 = NULL THEN m[l].head ELSE next(m, p1)
        elt == [size |-> size, prev |-> p1, next |-> p2,
                alloc_bytes |-> IF l = "free" THEN 0 ELSE bytes]
    IN  [m EXCEPT
           !.hdr = [q \in DOMAIN @ \cup {node} |->
                       IF q = node THEN elt
                       ELSE [@[q] EXCEPT !.next = IF q = p1 THEN node ELSE @,
                                         !.prev = IF q = p2 THEN node ELSE @]],
           ![l] = [head |-> IF p1 = NULL THEN node ELSE @.head,
                   tail |-> IF p2 = NULL THEN node ELSE @.tail,
                   count |-> @.count + 1]]

append_list_ordered(m, node, size, bytes, l) ==
    link(m, l, node, size, bytes,
         IF m[l].head = NULL \/ goes_first(m, l, node, bytes) THEN NULL
         ELSE seek(m, l, node, bytes, m[l].head))

\* Mutant: the tail is not moved when the last node goes.
remove_list_keeps_tail(m, node, l) ==
    LET p == m.hdr[node].prev
        n == m.hdr[node].next
    IN  [m EXCEPT
           !.hdr = [q \in DOMAIN @ |->
                       [@[q] EXCEPT !.next = IF q = p THEN n ELSE @,
                                    !.prev = IF q = n THEN p ELSE @]],
           ![l] = [@ EXCEPT !.head = IF node = @ THEN n ELSE @, !.count = @ - 1]]

\* node's own header stays in memory: free reads its size
remove_list(m, node, l) ==
    LET p == m.hdr[node].prev
        n == m.hdr[node].next
    IN  [m EXCEPT
           !.hdr = [q \in DOMAIN @ |->
                       [@[q] EXCEPT !.next = IF q = p THEN n ELSE @,
                                    !.prev = IF q = n THEN p ELSE @]],
           ![l] = [head |-> IF node = @.head THEN n ELSE @.head,
                   tail |-> IF node = @.tail THEN p ELSE @.tail,
                   count |-> @.count - 1]]

\* Mutant: a block that fits exactly is passed over.
RECURSIVE search_from_strict(_, _, _)
search_from_strict(m, p, size) ==
    IF p = NULL \/ m.hdr[p].size > size THEN p
    ELSE search_from_strict(m, next(m, p), size)

RECURSIVE search_from(_, _, _)
search_from(m, p, size) ==
    IF p = NULL \/ m.hdr[p].size >= size THEN p
    ELSE search_from(m, next(m, p), size)

search_free(m, size) == search_from(m, m.free.head, size)

-----------------------------------------------------------------------------
(* The calls of the library as functions of its memory *)

new_break(m, d) == (m.brk + d) % WORD

sbrk_fails(m, d) == new_break(m, d) >= LIMIT \/ new_break(m, d) < ORIG

Outcome(p, m, f) == [ptr |-> p, mem |-> m, fault |-> f]

\* m, from whose free list node p of the given size was taken, with p and what
\* is left of it on their lists
split(m, p, size, r, n) ==
    IF size - r >= HEADER
    THEN append_list_ordered(append_list_ordered(m, p + r, size - r, 0, "free"),
                             p, r, n, "alloc")
    ELSE append_list_ordered(m, p, size, n, "alloc")

\* the end of malloc: p is the free node found
place(m, p, r, n) ==
    Outcome(p + HEADER, split(remove_list(m, p, "free"), p, m.hdr[p].size, r, n), FALSE)

\* m with the chunk obtained from sbrk on the free list
grow(m, c) ==
    append_list_ordered([m EXCEPT !.brk = new_break(m, c)], m.brk, c, 0, "free")

allocate(m, r, n) == place(m, search_free(m, r), r, n)

malloc(m, n) ==
    LET r == H!required_size(n)
        c == H!chunk_size(r)
    IN  IF n = 0 THEN Outcome(NULL, m, FALSE)
        ELSE IF search_free(m, r) # NULL THEN allocate(m, r, n)
        ELSE IF sbrk_fails(m, c) THEN Outcome(NULL, m, FALSE)
        ELSE IF new_break(m, c) < m.brk + HEADER THEN Outcome(NULL, m, TRUE)
        ELSE allocate(grow(m, c), r, n)

free(m, ptr) ==
    append_list_ordered(remove_list(m, ptr - HEADER, "alloc"), ptr - HEADER,
                        m.hdr[ptr - HEADER].size, 0, "free")

calloc(m, num, sz) ==
    IF num = 0 \/ sz = 0 THEN Outcome(NULL, m, FALSE)
    ELSE IF sz > (WORD - 1) \div num THEN Outcome(NULL, m, FALSE)
    ELSE malloc(m, (num * sz) % WORD)

copied(m, ptr, n) ==
    LET size == m.hdr[ptr - HEADER].size IN IF size < n THEN size ELSE n

\* the end of realloc: o is what malloc returned
move(o, m, ptr, n) ==
    IF o.ptr = NULL THEN o
    ELSE IF ptr + copied(o.mem, ptr, n) > H!ROUNDUP(o.mem.brk, PAGESIZE)
         THEN Outcome(NULL, m, TRUE)
    ELSE Outcome(o.ptr, free(o.mem, ptr), FALSE)

realloc(m, ptr, n) ==
    IF n = 0 THEN Outcome(NULL, free(m, ptr), FALSE) ELSE move(malloc(m, n), m, ptr, n)

Drop(m, p) == [m EXCEPT !.hdr = [q \in DOMAIN @ \ {p} |-> @[q]]]

\* Mutant: after a merge the loop goes on to the next node.
RECURSIVE merge_from_once(_, _)
merge_from_once(m, p1) ==
    LET p2 == next(m, p1)
        merged == Drop(remove_list([m EXCEPT !.hdr[p1].size = @ + m.hdr[p2].size],
                                   p2, "free"), p2)
    IN  IF p2 = NULL THEN m
        ELSE IF p2 - p1 = m.hdr[p1].size
             THEN IF next(merged, p1) = NULL THEN merged
                  ELSE merge_from_once(merged, next(merged, p1))
        ELSE merge_from_once(m, p2)

\* the loop of defrag from node p1 on
RECURSIVE merge_from(_, _)
merge_from(m, p1) ==
    LET p2 == next(m, p1)
        merged == [m EXCEPT !.hdr[p1].size = @ + m.hdr[p2].size]
    IN  IF p2 = NULL THEN m
        ELSE IF p2 - p1 = m.hdr[p1].size
             THEN merge_from(Drop(remove_list(merged, p2, "free"), p2), p1)
        ELSE merge_from(m, p2)

defrag(m) == IF m.free.head = NULL THEN m ELSE merge_from(m, m.free.head)

\* Mutant: heap_info leaves only its first array out of the report.
reported_with_ptrs(m, s, p) == SelectSeq(Nodes(m, "alloc"), LAMBDA q : q # s - HEADER)

\* the nodes heap_info describes: all but those of its two arrays s and p
reported(m, s, p) ==
    SelectSeq(Nodes(m, "alloc"), LAMBDA q : q # s - HEADER /\ q # p - HEADER)

\* what heap_info computes before it allocates, from the sizes on the free list
free_space(m) == FoldLeft(LAMBDA acc, q : acc + m.hdr[q].size, 0, Nodes(m, "free"))
largest_free_chunk(m) ==
    FoldLeft(LAMBDA acc, q : IF m.hdr[q].size >= acc THEN m.hdr[q].size ELSE acc,
             0, Nodes(m, "free"))

Report(m, sizes, ptrs) ==
    [num_allocs |-> m.alloc.count, free_space |-> free_space(m),
     largest |-> largest_free_chunk(m), size_array |-> sizes, ptr_array |-> ptrs]

\* return value, report, memory afterwards and the two arrays
Info(ret, rep, o, arrays) ==
    [ret |-> ret, report |-> rep, mem |-> o.mem, fault |-> o.fault, arrays |-> arrays]

\* heap_info called in m, with outcomes s and p for its two arrays
describe(m, p, nodes, arrays) ==
    Info(0, Report(m, [i \in DOMAIN nodes |-> p.mem.hdr[nodes[i]].alloc_bytes],
                      [i \in DOMAIN nodes |-> nodes[i] + HEADER]), p, arrays)
with_ptrs(m, s, p) ==
    IF p.ptr = NULL THEN Info(-1, <<>>, p, {})
    ELSE describe(m, p, reported(p.mem, s.ptr, p.ptr), {s.ptr, p.ptr})
with_sizes(m, s) ==
    IF s.ptr = NULL THEN Info(-1, <<>>, s, {})
    ELSE with_ptrs(m, s, malloc(s.mem, m.alloc.count * PTRSZ))

heap_info(m) ==
    IF m.alloc.count = 0 THEN Info(0, Report(m, <<>>, <<>>), Outcome(NULL, m, FALSE), {})
    ELSE with_sizes(m, malloc(m, m.alloc.count * PTRSZ))

-----------------------------------------------------------------------------
(* Actions *)

Init == /\ mem = [hdr |-> <<>>, free |-> EmptyList, alloc |-> EmptyList,
                  brk |-> ORIG, gap |-> {}]
        /\ held = {}
        /\ alive = TRUE

Return(o, gained, lost) ==
    /\ alive
    /\ mem' = o.mem
    /\ held' = (held \ lost) \cup gained
    /\ alive' = ~o.fault

\* the call returned region [o.ptr, n], and lost what it was given
Given(o, n, lost) == Return(o, H!Regions(o.ptr, n), lost)

Malloc(n) == Given(malloc(mem, n), n, {})

Calloc(num, sz) == Given(calloc(mem, num, sz), num * sz, {})

Free(r) == Return(Outcome(NULL, free(mem, r.ptr), FALSE), {}, {r})

Moved(o, r, n) == Given(o, n, IF o.ptr # NULL \/ n = 0 THEN {r} ELSE {})
Realloc(r, n) == Moved(realloc(mem, r.ptr, n), r, n)

Defrag == Return(Outcome(NULL, defrag(mem), FALSE), {}, {})

Reported(o) ==
    Return(o, {[ptr |-> p, n |-> mem.alloc.count * PTRSZ] : p \in o.arrays}, {})
HeapInfo == Reported(heap_info(mem))

Sbrk(d) ==
    /\ alive
    /\ ~sbrk_fails(mem, d)
    /\ mem' = [mem EXCEPT !.brk = new_break(mem, d),
                          !.gap = @ \cup (mem.brk .. (new_break(mem, d) - 1))]
    /\ UNCHANGED <<held, alive>>

Next == \/ \E n \in Requests : Malloc(n)
        \/ \E a \in Arrays : Calloc(a[1], a[2])
        \/ \E r \in held : Free(r)
        \/ \E r \in held, n \in Requests : Realloc(r, n)
        \/ Defrag
        \/ HeapInfo
        \/ \E d \in Gaps : Sbrk(d)

Spec == Init /\ [][Next]_vars

-----------------------------------------------------------------------------
(* Properties *)

Elt == [size : Nat, alloc_bytes : Nat, prev : Nat, next : Nat]
ListType == [head : Nat, tail : Nat, count : Nat]

\* Headers, list anchors and the program's regions have their types; a walk
\* that leaves the headers would fail here.
TypeOK ==
    /\ \A p \in DOMAIN mem.hdr : p \in ORIG .. (LIMIT - 1) /\ mem.hdr[p] \in Elt
    /\ mem.free \in ListType /\ mem.alloc \in ListType
    /\ mem.brk \in ORIG .. (LIMIT - 1)
    /\ held \subseteq [ptr : Nat, n : Nat]
    /\ alive \in BOOLEAN

\* next and prev mirror each other, the anchors are the two ends and the counter
\* is the length
Linked(m, l) ==
    LET s == Nodes(m, l)
    IN  /\ Len(s) = m[l].count
        /\ Len(s) = 0 => m[l].head = NULL /\ m[l].tail = NULL
        /\ Len(s) > 0 => m[l].tail = s[Len(s)]
        /\ \A i \in 1 .. Len(s) :
              m.hdr[s[i]].prev = IF i = 1 THEN NULL ELSE s[i - 1]

\* the orders the other functions rely on: defrag needs the free list in address
\* order, heap_info the alloc list in descending order of request
Sorted ==
    LET f == Nodes(mem, "free")
        a == Nodes(mem, "alloc")
    IN  /\ \A i \in 2 .. Len(f) : f[i - 1] < f[i]
        /\ \A i \in 2 .. Len(a) : mem.hdr[a[i - 1]].alloc_bytes >= mem.hdr[a[i]].alloc_bytes

\* Both lists are well formed after every call: typed, linked both ways and in
\* order, and every header is on exactly one of them, wherever nodes were inserted
\* and removed (append_list_ordered, remove_list).
ListsWellFormed ==
    /\ TypeOK
    /\ Linked(mem, "free") /\ Linked(mem, "alloc")
    /\ NodeSet(mem, "free") \cap NodeSet(mem, "alloc") = {}
    /\ NodeSet(mem, "free") \cup NodeSet(mem, "alloc") = DOMAIN mem.hdr
    /\ Sorted

\* One pass of defrag leaves no two adjacent free blocks, whatever the order
\* the blocks were freed in.
NoneAdjacent(m) ==
    \A p, q \in NodeSet(m, "free") : p + m.hdr[p].size # q
DefragComplete == NoneAdjacent(defrag(mem))

\* Called now, heap_info would describe exactly the blocks allocated before
\* the call, each with its request, largest first, in arrays that have room
\* for them; and free space plus allocated space is all the library ever got.
used_space(m) == FoldLeft(LAMBDA acc, q : acc + m.hdr[q].size, 0, Nodes(m, "alloc"))
Exact(i) ==
    /\ i.num_allocs = Cardinality(NodeSet(mem, "alloc"))
    /\ Len(i.ptr_array) = i.num_allocs
    /\ {p - HEADER : p \in Range(i.ptr_array)} = NodeSet(mem, "alloc")
    /\ \A k \in 1 .. i.num_allocs :
          i.size_array[k] = mem.hdr[i.ptr_array[k] - HEADER].alloc_bytes
    /\ \A k \in 2 .. i.num_allocs : i.size_array[k - 1] >= i.size_array[k]
    /\ i.free_space + used_space(mem) = mem.brk - ORIG - Cardinality(mem.gap)
    /\ i.largest <= i.free_space
RoomFor(o) == \A p \in o.arrays :
    o.report.num_allocs * PTRSZ <= o.mem.hdr[p - HEADER].size - HEADER
Right(o) == o.ret = 0 => Exact(o.report) /\ RoomFor(o)
InfoExact == Right(heap_info(mem))

\* The lists implement the two sets of Heap: every call has the effect of the
\* call of the same name there, first fit and coalescing included.
ImplementsHeap == H!Spec

=============================================================================
