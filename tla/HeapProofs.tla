----------------------------- MODULE HeapProofs -----------------------------
(***************************************************************************)
(* The allocator of module Heap keeps its promises for every page size,    *)
(* header size, address range and set of requests, provided no request is  *)
(* so large that rounding it up wraps (NoWrap) and the program's own sbrk  *)
(* calls keep the break aligned (AlignedGaps).                             *)
(***************************************************************************)
EXTENDS Heap, Arith, FiniteSetTheorems

-----------------------------------------------------------------------------
(* Sizes *)

\* Rounding up without wrapping gives the next multiple.
LEMMA RoundUp ==
    ASSUME NEW x \in Nat, NEW n \in Nat \ {0}, x + n <= WORD
    PROVE  /\ ROUNDUP(x, n) \in Nat
           /\ ROUNDUP(x, n) % n = 0
           /\ x <= ROUNDUP(x, n)
           /\ ROUNDUP(x, n) < x + n
<1> DEFINE y == x + n - 1
<1>1. y \in Nat /\ y < WORD /\ WORD \in Nat \ {0}
  BY RangeAssumption
<1>2. y % WORD = y
  BY <1>1, ModSmall
<1>3. ROUNDUP(x, n) = y - (y % n)
  BY <1>2 DEF ROUNDUP
<1>4. /\ y - (y % n) \in Nat /\ (y - (y % n)) % n = 0
      /\ y - (y % n) <= y /\ y < (y - (y % n)) + n
  BY <1>1, RoundDown
<1> QED BY <1>3, <1>4

\* The block malloc looks for holds the header and the request, and the chunk
\* it asks sbrk for holds that block; neither wraps.
LEMMA Sizes ==
    ASSUME NEW n \in Nat, Small(n)
    PROVE  /\ required_size(n) \in Nat
           /\ required_size(n) % ALIGN = 0
           /\ HEADER + n <= required_size(n)
           /\ chunk_size(required_size(n)) \in Nat
           /\ chunk_size(required_size(n)) % ALIGN = 0
           /\ required_size(n) <= chunk_size(required_size(n))
           /\ chunk_size(required_size(n)) + LIMIT < WORD
<1> DEFINE r == required_size(n)
           c == chunk_size(r)
<1>0. /\ HEADER \in Nat \ {0} /\ ALIGN \in Nat \ {0} /\ LIMIT \in Nat
      /\ PAGESIZE \in Nat \ {0} /\ 4 * PAGESIZE \in Nat \ {0} /\ WORD \in Nat \ {0}
      /\ PAGESIZE % ALIGN = 0
  BY SizesAssumption, RangeAssumption
<1>1. n + HEADER + ALIGN + 4 * PAGESIZE + LIMIT <= WORD
  BY DEF Small
<1>2. (HEADER + n) % WORD = HEADER + n
  <2>1. HEADER + n \in Nat /\ HEADER + n < WORD
    BY <1>0, <1>1
  <2> QED BY <1>0, <2>1, ModSmall
<1>3. /\ r \in Nat /\ r % ALIGN = 0
      /\ HEADER + n <= r /\ r < HEADER + n + ALIGN
  <2>1. HEADER + n \in Nat /\ (HEADER + n) + ALIGN <= WORD
    BY <1>0, <1>1
  <2>2. r = ROUNDUP(HEADER + n, ALIGN)
    BY <1>2 DEF required_size
  <2> QED BY <1>0, <2>1, <2>2, RoundUp
<1> HIDE DEF r
<1>4. /\ c \in Nat /\ c % (4 * PAGESIZE) = 0
      /\ r <= c /\ c < r + 4 * PAGESIZE
  <2>1. r + 4 * PAGESIZE <= WORD
    BY <1>0, <1>1, <1>3
  <2>2. c = ROUNDUP(r, 4 * PAGESIZE)
    BY DEF chunk_size
  <2> QED BY <1>0, <1>3, <2>1, <2>2, RoundUp
<1> HIDE DEF c
<1>5. c % ALIGN = 0
  BY <1>0, <1>4, ModTrans
<1>6. c + LIMIT < WORD
  BY <1>0, <1>1, <1>3, <1>4
<1> QED BY <1>3, <1>4, <1>5, <1>6 DEF r, c

-----------------------------------------------------------------------------
(* Each operation on the sets of blocks keeps the heap well formed *)

\* A block's fields, for the leaves below.
LEMMA BlockFields ==
    ASSUME NEW h, WellFormed(h), NEW b \in Blocks(h)
    PROVE  /\ b.at \in Nat /\ b.size \in Nat /\ b.req \in Nat
           /\ b \in BlockType /\ b = Block(b.at, b.size, b.req)
           /\ End(b) = b.at + b.size /\ End(b) \in Nat
           /\ ORIG <= b.at /\ End(b) <= h.brk /\ HEADER <= b.size
           /\ b.at % ALIGN = 0 /\ b.size % ALIGN = 0
           /\ h.brk \in Nat /\ h.brk < LIMIT
<1>1. h.free \in SUBSET BlockType /\ h.alloc \in SUBSET BlockType
      /\ h.brk \in ORIG .. (LIMIT - 1)
  BY DEF WellFormed, HeapType
<1>2. b \in BlockType
  BY <1>1 DEF Blocks
<1>3. b.at \in Nat /\ b.size \in Nat /\ b.req \in Nat /\ b = Block(b.at, b.size, b.req)
  BY <1>2 DEF BlockType, Block
<1>4. End(b) = b.at + b.size /\ End(b) \in Nat
  BY <1>3 DEF End
<1> QED BY <1>1, <1>2, <1>3, <1>4, RangeAssumption DEF WellFormed, Within, HeaderRoom, Aligned

\* The chunk obtained from sbrk lies above every block.
LEMMA GrowWF ==
    ASSUME NEW h, WellFormed(h), NEW c \in Nat, c % ALIGN = 0, HEADER <= c,
           new_break(h, c) = h.brk + c, h.brk + c < LIMIT
    PROVE  /\ WellFormed(grow(h, c))
           /\ grow(h, c).alloc = h.alloc
           /\ grow(h, c).free = h.free \cup {Block(h.brk, c, 0)}
<1> DEFINE g == grow(h, c)
           n == Block(h.brk, c, 0)
<1>0. /\ ORIG \in Nat /\ LIMIT \in Nat /\ HEADER \in Nat \ {0} /\ ALIGN \in Nat \ {0}
  BY SizesAssumption, RangeAssumption
<1>1. /\ h \in HeapType /\ Disjoint(h) /\ Within(h) /\ Covered(h)
      /\ HeaderRoom(h) /\ Aligned(h) /\ Requested(h)
  BY DEF WellFormed
<1>2. /\ h = [free |-> h.free, alloc |-> h.alloc, brk |-> h.brk, gap |-> h.gap]
      /\ h.free \in SUBSET BlockType /\ h.alloc \in SUBSET BlockType
      /\ h.brk \in ORIG .. (LIMIT - 1) /\ h.gap \in SUBSET Nat /\ h.brk \in Nat
  BY <1>0, <1>1 DEF HeapType
<1>3. g = [free |-> h.free \cup {n}, alloc |-> h.alloc, brk |-> h.brk + c, gap |-> h.gap]
  BY <1>2 DEF grow
<1>4. n.at = h.brk /\ n.size = c /\ n.req = 0 /\ End(n) = h.brk + c /\ n \in BlockType
  BY <1>2 DEF Block, BlockType, End
<1>5. Blocks(g) = Blocks(h) \cup {n}
  BY <1>3 DEF Blocks
<1>6. \A b \in Blocks(h) : /\ b.at \in Nat /\ End(b) \in Nat /\ End(b) <= h.brk
                           /\ ORIG <= b.at
  BY BlockFields
<1> HIDE DEF g, n
<1>a. g \in HeapType
  BY <1>0, <1>2, <1>3, <1>4 DEF HeapType
<1>b. Disjoint(g)
  BY <1>0, <1>1, <1>2, <1>4, <1>5, <1>6 DEF Disjoint, Apart
<1>c. Within(g)
  BY <1>0, <1>2, <1>3, <1>4, <1>5, <1>6 DEF Within
<1>d. Covered(g)
  <2> SUFFICES ASSUME NEW x \in ORIG .. (g.brk - 1), x \notin g.gap
               PROVE  \E b \in Blocks(g) : b.at <= x /\ x < End(b)
    BY DEF Covered
  <2>1. CASE x < h.brk
    <3>1. x \in ORIG .. (h.brk - 1) /\ x \notin h.gap
      BY <1>0, <1>2, <1>3, <2>1
    <3> QED BY <1>1, <1>5, <3>1 DEF Covered
  <2>2. CASE x >= h.brk
    <3>1. g.brk = h.brk + c
      BY <1>3
    <3>2. n.at <= x /\ x < End(n)
      BY <1>0, <1>2, <1>4, <2>2, <3>1
    <3> QED BY <1>5, <3>2
  <2> QED BY <1>0, <1>2, <2>1, <2>2
<1>e. HeaderRoom(g)
  BY <1>1, <1>4, <1>5 DEF HeaderRoom
<1>f. Aligned(g)
  BY <1>0, <1>1, <1>2, <1>3, <1>4, <1>5, ModSum DEF Aligned
<1>g. Requested(g)
  BY <1>1, <1>3, <1>4 DEF Requested
<1> QED BY <1>3, <1>a, <1>b, <1>c, <1>d, <1>e, <1>f, <1>g DEF WellFormed, g, n

\* Replacing one block by blocks that tile it: what splitting a free block,
\* allocating it and freeing it have in common.
LEMMA RetileWF ==
    ASSUME NEW h, WellFormed(h), NEW b \in Blocks(h),
           NEW N \in SUBSET BlockType,
           \A n \in N : /\ b.at <= n.at /\ End(n) <= End(b) /\ HEADER <= n.size
                        /\ n.at % ALIGN = 0 /\ n.size % ALIGN = 0,
           \A m, n \in N : m # n => Apart(m, n),
           \A x \in Nat : b.at <= x /\ x < End(b) =>
                             \E n \in N : n.at <= x /\ x < End(n),
           NEW F \in SUBSET BlockType, NEW A \in SUBSET BlockType,
           F \cup A = (Blocks(h) \ {b}) \cup N,
           Requested(WithLists(h, F, A))
    PROVE  WellFormed(WithLists(h, F, A))
<1> DEFINE g == WithLists(h, F, A)
<1>0. ORIG \in Nat /\ LIMIT \in Nat /\ HEADER \in Nat \ {0}
  BY SizesAssumption, RangeAssumption
<1>1. /\ h \in HeapType /\ Disjoint(h) /\ Within(h) /\ Covered(h)
      /\ HeaderRoom(h) /\ Aligned(h) /\ Requested(h)
  BY DEF WellFormed
<1>2. h.brk \in ORIG .. (LIMIT - 1) /\ h.gap \in SUBSET Nat
  BY <1>1 DEF HeapType
<1>3. g.free = F /\ g.alloc = A /\ g.brk = h.brk /\ g.gap = h.gap /\ g \in HeapType
  BY <1>2 DEF WithLists, HeapType
<1>4. Blocks(g) = (Blocks(h) \ {b}) \cup N
  BY <1>3 DEF Blocks
<1>5. \A c \in Blocks(h) : /\ c.at \in Nat /\ End(c) \in Nat /\ c.at < End(c)
                           /\ ORIG <= c.at /\ End(c) <= h.brk
  BY <1>0, BlockFields
<1>6. \A n \in N : n.at \in Nat /\ n.size \in Nat /\ End(n) \in Nat
  BY DEF BlockType, End
<1>7. Requested(g)
  OBVIOUS
<1> HIDE DEF g
<1>b. Disjoint(g)
  <2> SUFFICES ASSUME NEW c \in Blocks(g), NEW d \in Blocks(g), c # d
               PROVE  Apart(c, d)
    BY DEF Disjoint
  <2>1. CASE c \in N /\ d \in N
    BY <2>1
  <2>2. \A m \in N, e \in Blocks(h) \ {b} : Apart(m, e) /\ Apart(e, m)
    <3> TAKE m \in N, e \in Blocks(h) \ {b}
    <3>1. Apart(b, e)
      BY <1>1 DEF Disjoint
    <3> QED BY <1>5, <1>6, <3>1 DEF Apart
  <2>3. CASE c \in Blocks(h) \ {b} /\ d \in Blocks(h) \ {b}
    BY <1>1, <2>3 DEF Disjoint
  <2> QED BY <1>4, <2>1, <2>2, <2>3
<1>c. Within(g)
  BY <1>0, <1>2, <1>3, <1>4, <1>5, <1>6 DEF Within
<1>d. Covered(g)
  <2> SUFFICES ASSUME NEW x \in ORIG .. (g.brk - 1), x \notin g.gap
               PROVE  \E c \in Blocks(g) : c.at <= x /\ x < End(c)
    BY DEF Covered
  <2>1. PICK c \in Blocks(h) : c.at <= x /\ x < End(c)
    BY <1>1, <1>3 DEF Covered
  <2>2. CASE c = b
    <3>1. x \in Nat
      BY <1>0, <1>2, <1>3
    <3> QED BY <1>4, <2>1, <2>2, <3>1
  <2>3. CASE c # b
    BY <1>4, <2>1, <2>3
  <2> QED BY <2>2, <2>3
<1>e. HeaderRoom(g)
  BY <1>1, <1>4 DEF HeaderRoom
<1>f. Aligned(g)
  BY <1>1, <1>3, <1>4 DEF Aligned
<1> QED BY <1>3, <1>7, <1>b, <1>c, <1>d, <1>e, <1>f DEF WellFormed, g

\* Allocating a free block that is large enough, split or whole.
LEMMA PlaceWF ==
    ASSUME NEW h, WellFormed(h), NEW b \in h.free,
           NEW n \in Nat \ {0}, NEW r \in Nat, r % ALIGN = 0,
           HEADER + n <= r, r <= b.size
    PROVE  /\ WellFormed(place(h, b, r, n))
           /\ \E a \in BlockType : /\ place(h, b, r, n).alloc = h.alloc \cup {a}
                                   /\ a.at = b.at /\ a.req = n /\ a \notin h.alloc
<1>0. /\ ORIG \in Nat /\ LIMIT \in Nat /\ HEADER \in Nat \ {0} /\ ALIGN \in Nat \ {0}
      /\ HEADER % ALIGN = 0
  BY SizesAssumption, RangeAssumption
<1>1. b \in Blocks(h)
  BY DEF Blocks
<1>2. /\ b.at \in Nat /\ b.size \in Nat /\ b \in BlockType
      /\ End(b) = b.at + b.size /\ HEADER <= b.size
      /\ b.at % ALIGN = 0 /\ b.size % ALIGN = 0
  BY <1>1, BlockFields
<1>3. /\ h.free \in SUBSET BlockType /\ h.alloc \in SUBSET BlockType /\ Requested(h)
  BY DEF WellFormed, HeapType
<1>4. h.free \cap h.alloc = {}
  BY <1>3 DEF Requested
<1>n. \A a \in h.alloc : a.at # b.at
  <2> SUFFICES ASSUME NEW a \in h.alloc, a.at = b.at PROVE FALSE
    OBVIOUS
  <2>1. a \in Blocks(h) /\ a # b
    BY <1>4 DEF Blocks
  <2>2. a.size \in Nat /\ HEADER <= a.size /\ End(a) = a.at + a.size
    BY <2>1, BlockFields
  <2>3. End(a) <= b.at \/ End(b) <= a.at
    BY <1>1, <2>1 DEF WellFormed, Disjoint, Apart
  <2> QED BY <1>0, <1>2, <2>2, <2>3
<1>5. CASE b.size - r >= HEADER
  <2> DEFINE a == Block(b.at, r, n)
             f == Block(b.at + r, b.size - r, 0)
             N == {a, f}
             F == (h.free \ {b}) \cup {f}
             A == h.alloc \cup {a}
  <2>1. /\ a.at = b.at /\ a.size = r /\ a.req = n /\ a \in BlockType
        /\ f.at = b.at + r /\ f.size = b.size - r /\ f.req = 0 /\ f \in BlockType
        /\ End(a) = b.at + r /\ End(f) = End(b)
    BY <1>0, <1>2, <1>5 DEF Block, BlockType, End
  <2>2. place(h, b, r, n) = WithLists(h, F, A)
    BY <1>5 DEF place
  <2> HIDE DEF a, f
  <2>3. f.at % ALIGN = 0 /\ f.size % ALIGN = 0
    <3>1. (b.at + r) % ALIGN = 0
      BY <1>0, <1>2, ModSum
    <3>2. (b.size - r) % ALIGN = 0
      BY <1>0, <1>2, ModDiff
    <3> QED BY <2>1, <3>1, <3>2
  <2>4. N \in SUBSET BlockType /\ F \in SUBSET BlockType /\ A \in SUBSET BlockType
    BY <1>3, <2>1
  <2>5. \A m \in N : /\ b.at <= m.at /\ End(m) <= End(b) /\ HEADER <= m.size
                     /\ m.at % ALIGN = 0 /\ m.size % ALIGN = 0
    BY <1>0, <1>2, <1>5, <2>1, <2>3
  <2>6. \A k, m \in N : k # m => Apart(k, m)
    BY <1>2, <2>1 DEF Apart
  <2>7. \A x \in Nat : b.at <= x /\ x < End(b) => \E m \in N : m.at <= x /\ x < End(m)
    BY <1>2, <2>1
  <2>8. F \cup A = (Blocks(h) \ {b}) \cup N
    BY <1>4 DEF Blocks
  <2>9. Requested(WithLists(h, F, A))
    BY <1>0, <1>3, <2>1 DEF Requested, WithLists
  <2> HIDE DEF N, F, A
  <2>10. WellFormed(WithLists(h, F, A))
    BY <1>1, <2>4, <2>5, <2>6, <2>7, <2>8, <2>9, RetileWF
  <2>11. WithLists(h, F, A).alloc = h.alloc \cup {a}
    BY DEF WithLists, A
  <2> QED BY <1>n, <2>1, <2>2, <2>10, <2>11
<1>6. CASE ~(b.size - r >= HEADER)
  <2> DEFINE a == Block(b.at, b.size, n)
             N == {a}
             F == h.free \ {b}
             A == h.alloc \cup {a}
  <2>1. /\ a.at = b.at /\ a.size = b.size /\ a.req = n /\ a \in BlockType
        /\ End(a) = End(b)
    BY <1>0, <1>2 DEF Block, BlockType, End
  <2>2. place(h, b, r, n) = WithLists(h, F, A)
    BY <1>6 DEF place
  <2> HIDE DEF a
  <2>4. N \in SUBSET BlockType /\ F \in SUBSET BlockType /\ A \in SUBSET BlockType
    BY <1>3, <2>1
  <2>5. \A m \in N : /\ b.at <= m.at /\ End(m) <= End(b) /\ HEADER <= m.size
                     /\ m.at % ALIGN = 0 /\ m.size % ALIGN = 0
    BY <1>0, <1>2, <2>1
  <2>6. \A k, m \in N : k # m => Apart(k, m)
    OBVIOUS
  <2>7. \A x \in Nat : b.at <= x /\ x < End(b) => \E m \in N : m.at <= x /\ x < End(m)
    BY <1>2, <2>1
  <2>8. F \cup A = (Blocks(h) \ {b}) \cup N
    BY <1>4 DEF Blocks
  <2>9. Requested(WithLists(h, F, A))
    BY <1>0, <1>2, <1>3, <2>1 DEF Requested, WithLists
  <2> HIDE DEF N, F, A
  <2>10. WellFormed(WithLists(h, F, A))
    BY <1>1, <2>4, <2>5, <2>6, <2>7, <2>8, <2>9, RetileWF
  <2>11. WithLists(h, F, A).alloc = h.alloc \cup {a}
    BY DEF WithLists, A
  <2> QED BY <1>n, <2>1, <2>2, <2>10, <2>11
<1> QED BY <1>5, <1>6

\* The block of a payload is the only one at its address.
LEMMA BlockOfUnique ==
    ASSUME NEW h, WellFormed(h), NEW b \in h.alloc
    PROVE  BlockOf(h, b.at + HEADER) = b
<1>1. HEADER \in Nat \ {0}
  BY SizesAssumption
<1>2. \A c \in h.alloc : c.at + HEADER = b.at + HEADER => c = b
  <2> SUFFICES ASSUME NEW c \in h.alloc, c.at + HEADER = b.at + HEADER, c # b
               PROVE  FALSE
    OBVIOUS
  <2>1. b \in Blocks(h) /\ c \in Blocks(h)
    BY DEF Blocks
  <2>2. /\ b.at \in Nat /\ c.at \in Nat /\ b.size \in Nat /\ c.size \in Nat
        /\ HEADER <= b.size /\ HEADER <= c.size
        /\ End(b) = b.at + b.size /\ End(c) = c.at + c.size
    BY <2>1, BlockFields
  <2>3. End(b) <= c.at \/ End(c) <= b.at
    BY <2>1 DEF WellFormed, Disjoint, Apart
  <2> QED BY <1>1, <2>2, <2>3
<1> QED BY <1>2 DEF BlockOf

\* Freeing an allocated block moves it to the free list.
LEMMA FreeWF ==
    ASSUME NEW h, WellFormed(h), NEW b \in h.alloc
    PROVE  /\ WellFormed(free(h, b.at + HEADER))
           /\ free(h, b.at + HEADER).alloc = h.alloc \ {b}
<1> DEFINE f == Block(b.at, b.size, 0)
           F == h.free \cup {f}
           A == h.alloc \ {b}
<1>1. b \in Blocks(h)
  BY DEF Blocks
<1>2. /\ b.at \in Nat /\ b.size \in Nat /\ b.at % ALIGN = 0 /\ b.size % ALIGN = 0
      /\ HEADER <= b.size /\ End(b) = b.at + b.size /\ End(b) \in Nat
  BY <1>1, BlockFields
<1>3. h.free \in SUBSET BlockType /\ h.alloc \in SUBSET BlockType /\ Requested(h)
  BY DEF WellFormed, HeapType
<1>4. f.at = b.at /\ f.size = b.size /\ f.req = 0 /\ f \in BlockType /\ End(f) = End(b)
  BY <1>2 DEF Block, BlockType, End
<1>5. free(h, b.at + HEADER) = WithLists(h, F, A)
  BY BlockOfUnique DEF free
<1> HIDE DEF f
<1>6. b \notin h.free
  BY <1>3 DEF Requested
<1>7. F \cup A = (Blocks(h) \ {b}) \cup {f}
  BY <1>6 DEF Blocks
<1>8. Requested(WithLists(h, F, A))
  BY <1>3, <1>4 DEF Requested, WithLists
<1>9. /\ {f} \in SUBSET BlockType /\ F \in SUBSET BlockType /\ A \in SUBSET BlockType
      /\ \A m \in {f} : /\ b.at <= m.at /\ End(m) <= End(b) /\ HEADER <= m.size
                        /\ m.at % ALIGN = 0 /\ m.size % ALIGN = 0
      /\ \A m, n \in {f} : m # n => Apart(m, n)
      /\ \A x \in Nat : b.at <= x /\ x < End(b) => \E m \in {f} : m.at <= x /\ x < End(m)
  BY <1>2, <1>3, <1>4
<1> HIDE DEF F, A
<1>10. WellFormed(WithLists(h, F, A))
  BY <1>1, <1>7, <1>8, <1>9, RetileWF
<1>11. WithLists(h, F, A).alloc = h.alloc \ {b}
  BY DEF WithLists, A
<1> QED BY <1>5, <1>10, <1>11

\* First fit finds a block as soon as one fits.
LEMMA SearchFinds ==
    ASSUME NEW h, WellFormed(h), NEW r \in Nat, fitting(h, r) # {}
    PROVE  search_free(h, r) \in h.free /\ search_free(h, r).size >= r
<1> DEFINE S == {b.at : b \in fitting(h, r)}
<1>1. S \in SUBSET Nat /\ S # {}
  BY DEF fitting, WellFormed, HeapType, BlockType
<1>2. PICK a \in S : \A y \in S : a <= y
  BY <1>1, LeastExists
<1>3. \E b \in fitting(h, r) : \A c \in fitting(h, r) : b.at <= c.at
  BY <1>2
<1>4. search_free(h, r) \in fitting(h, r)
  BY <1>3 DEF search_free
<1> QED BY <1>4 DEF fitting

-----------------------------------------------------------------------------
(* defrag *)

\* The free blocks of a well-formed heap, for the lemmas on coalescing.
FreeSet(F, top) ==
    /\ F \in SUBSET BlockType
    /\ \A b \in F : 0 < b.size /\ b.at + b.size <= top
    /\ \A b, c \in F : b # c => Apart(b, c)

\* A run ends where some block ends and none starts, and every end before
\* that one is the start of the next block of the run.
LEMMA RunEndIs ==
    ASSUME NEW top \in Nat, NEW F, FreeSet(F, top), NEW a \in Starts(F)
    PROVE  /\ RunEnd(F, a) \in Ends(F) \ Starts(F)
           /\ a < RunEnd(F, a) /\ RunEnd(F, a) \in Nat
           /\ \A e \in Ends(F) : a < e /\ e < RunEnd(F, a) => e \in Starts(F)
<1> DEFINE E == {e \in Ends(F) \ Starts(F) : e > a}
<1>1. \A b \in F : /\ b.at \in Nat /\ b.size \in Nat /\ b.size > 0
                   /\ End(b) = b.at + b.size /\ End(b) \in Nat /\ End(b) <= top
  BY DEF FreeSet, BlockType, End
<1>2. Ends(F) \in SUBSET Nat /\ Starts(F) \in SUBSET Nat /\ E \in SUBSET Nat
  BY <1>1 DEF Ends, Starts
<1>3. E # {}
  <2>1. Ends(F) # {} /\ \A e \in Ends(F) : e <= top
    BY <1>1 DEF Ends, Starts
  <2>2. PICK e \in Ends(F) : \A f \in Ends(F) : f <= e
    BY <1>2, <2>1, GreatestExists
  <2>3. PICK b \in F : b.at = a
    BY DEF Starts
  <2>4. End(b) <= e
    BY <2>2 DEF Ends
  <2>5. e \notin Starts(F)
    <3> SUFFICES ASSUME NEW c \in F, c.at = e PROVE FALSE
      BY DEF Starts
    <3>1. End(c) <= e
      BY <2>2 DEF Ends
    <3> QED BY <1>1, <3>1
  <2>6. e > a
    BY <1>1, <1>2, <2>3, <2>4
  <2> QED BY <2>2, <2>5, <2>6
<1>4. PICK m \in E : \A e \in E : m <= e
  BY <1>2, <1>3, LeastExists
<1>5. RunEnd(F, a) \in E /\ \A e \in E : RunEnd(F, a) <= e
  BY <1>4 DEF RunEnd, Min
<1>6. \A e \in Ends(F) : a < e /\ e < RunEnd(F, a) => e \in Starts(F)
  <2> SUFFICES ASSUME NEW e \in Ends(F), a < e, e < RunEnd(F, a), e \notin Starts(F)
               PROVE  FALSE
    OBVIOUS
  <2>1. e \in E /\ e \in Nat /\ a \in Nat
    BY <1>2
  <2> QED BY <1>2, <1>5, <2>1
<1>7. a \in Nat
  BY <1>2
<1> QED BY <1>2, <1>5, <1>6, <1>7

\* There are no holes in a run.
LEMMA RunFilled ==
    ASSUME NEW top \in Nat, NEW F, FreeSet(F, top), NEW a \in Starts(F),
           NEW x \in Nat, a <= x, x < RunEnd(F, a)
    PROVE  \E d \in F : d.at <= x /\ x < End(d)
<1> DEFINE T == {y \in Starts(F) : y <= x /\ a <= y}
<1>1. \A b \in F : /\ b.at \in Nat /\ b.size \in Nat /\ b.size > 0
                   /\ End(b) = b.at + b.size /\ End(b) \in Nat /\ End(b) <= top
  BY DEF FreeSet, BlockType, End
<1>2. Starts(F) \in SUBSET Nat
  BY <1>1 DEF Starts
<1>3. T \in SUBSET Nat /\ T # {} /\ \A y \in T : y <= x
  <2>1. a \in T
    BY <1>2
  <2> QED BY <1>2, <2>1
<1>4. PICK t \in T : \A y \in T : y <= t
  BY <1>3, GreatestExists
<1>5. PICK d \in F : d.at = t
  BY DEF Starts
<1>6. x < End(d)
  <2> SUFFICES ASSUME End(d) <= x PROVE FALSE
    BY <1>1
  <2>1. End(d) \in Ends(F) /\ a < End(d) /\ End(d) < RunEnd(F, a)
    <3>1. RunEnd(F, a) \in Nat
      BY RunEndIs
    <3> QED BY <1>1, <1>2, <1>5, <3>1 DEF Ends
  <2>2. End(d) \in Starts(F)
    BY <2>1, RunEndIs
  <2>3. End(d) \in T
    BY <1>1, <1>2, <2>1, <2>2
  <2> QED BY <1>1, <1>4, <1>5, <2>3
<1> QED BY <1>1, <1>5, <1>6

\* A run is at least as long as its first block.
LEMMA RunLongEnough ==
    ASSUME NEW top \in Nat, NEW F, FreeSet(F, top), NEW s \in F
    PROVE  End(s) <= RunEnd(F, s.at)
<1>1. \A b \in F : /\ b.at \in Nat /\ b.size \in Nat /\ b.size > 0
                   /\ End(b) = b.at + b.size /\ End(b) \in Nat
  BY DEF FreeSet, BlockType, End
<1>2. s.at \in Starts(F)
  BY DEF Starts
<1>3. /\ RunEnd(F, s.at) \in Ends(F) /\ s.at < RunEnd(F, s.at)
  BY <1>2, RunEndIs
<1>4. PICK d \in F : RunEnd(F, s.at) = End(d)
  BY <1>3 DEF Ends
<1>5. CASE d = s
  BY <1>1, <1>4, <1>5
<1>6. CASE d # s
  <2>1. End(d) <= s.at \/ End(s) <= d.at
    BY <1>6 DEF FreeSet, Apart
  <2> QED BY <1>1, <1>3, <1>4, <2>1
<1> QED BY <1>5, <1>6

\* Every free block lies in the run of some start.
LEMMA RunExists ==
    ASSUME NEW top \in Nat, NEW F, FreeSet(F, top), NEW c \in F
    PROVE  \E a \in Starts(F) \ Ends(F) : a <= c.at /\ End(c) <= RunEnd(F, a)
<1> DEFINE Filled(y) == \A x \in Nat : y <= x /\ x <= c.at =>
                           \E d \in F : d.at <= x /\ x < End(d)
           T == {y \in Starts(F) : y <= c.at /\ Filled(y)}
<1>1. \A b \in F : /\ b.at \in Nat /\ b.size \in Nat /\ b.size > 0
                   /\ End(b) = b.at + b.size /\ End(b) \in Nat
  BY DEF FreeSet, BlockType, End
<1>2. Starts(F) \in SUBSET Nat
  BY <1>1 DEF Starts
<1>3. T \in SUBSET Nat /\ T # {}
  <2>1. c.at \in Starts(F) /\ c.at <= c.at
    BY <1>1 DEF Starts
  <2>2. Filled(c.at)
    BY <1>1
  <2> QED BY <1>2, <2>1, <2>2
<1>4. PICK a \in T : \A y \in T : a <= y
  BY <1>3, LeastExists
<1>5. a \in Starts(F) /\ a <= c.at /\ a \in Nat /\ Filled(a)
  BY <1>2
<1> HIDE DEF T
<1>6. a \notin Ends(F)
  <2> SUFFICES ASSUME NEW d \in F, End(d) = a PROVE FALSE
    BY DEF Ends
  <2>1. d.at \in Starts(F) /\ d.at < a
    BY <1>1 DEF Starts
  <2>2. Filled(d.at)
    <3> SUFFICES ASSUME NEW x \in Nat, d.at <= x, x <= c.at
                 PROVE  \E e \in F : e.at <= x /\ x < End(e)
      OBVIOUS
    <3>1. CASE x < a
      BY <3>1
    <3>2. CASE a <= x
      BY <1>5, <3>2
    <3> QED BY <1>5, <3>1, <3>2
  <2>3. d.at \in T
    BY <1>1, <1>5, <2>1, <2>2 DEF T
  <2> QED BY <1>1, <1>4, <1>5, <2>1, <2>3
<1>7. /\ RunEnd(F, a) \in Ends(F) \ Starts(F) /\ a < RunEnd(F, a)
      /\ RunEnd(F, a) \in Nat
  BY <1>5, RunEndIs
<1>8. PICK f \in F : RunEnd(F, a) = End(f)
  BY <1>7 DEF Ends
<1>9. c.at < End(f)
  <2> SUFFICES ASSUME End(f) <= c.at PROVE FALSE
    BY <1>1
  <2>1. PICK d \in F : d.at <= End(f) /\ End(f) < End(d)
    BY <1>1, <1>5, <1>7, <1>8
  <2>2. d.at # End(f)
    BY <1>7, <1>8 DEF Starts
  <2>3. d # f
    BY <1>1, <2>1
  <2>4. End(d) <= f.at \/ End(f) <= d.at
    BY <2>3 DEF FreeSet, Apart
  <2> QED BY <1>1, <2>1, <2>2, <2>4
<1>10. End(c) <= End(f)
  <2>1. CASE c = f
    BY <1>1, <2>1
  <2>2. CASE c # f
    <3>1. End(c) <= f.at \/ End(f) <= c.at
      BY <2>2 DEF FreeSet, Apart
    <3> QED BY <1>1, <1>9, <3>1
  <2> QED BY <2>1, <2>2
<1> QED BY <1>5, <1>6, <1>8, <1>10

\* Coalescing keeps the heap well formed and the allocated blocks as they are.
LEMMA DefragWF ==
    ASSUME NEW h, WellFormed(h)
    PROVE  WellFormed(defrag(h)) /\ defrag(h).alloc = h.alloc
<1> DEFINE F == h.free
           G == coalesce(F)
           g == defrag(h)
<1>0. ORIG \in Nat /\ LIMIT \in Nat /\ HEADER \in Nat \ {0} /\ ALIGN \in Nat \ {0}
  BY SizesAssumption, RangeAssumption
<1>1. /\ h \in HeapType /\ Disjoint(h) /\ Within(h) /\ Covered(h)
      /\ HeaderRoom(h) /\ Aligned(h) /\ Requested(h)
  BY DEF WellFormed
<1>2. /\ F \in SUBSET BlockType /\ h.alloc \in SUBSET BlockType
      /\ h.brk \in ORIG .. (LIMIT - 1) /\ h.brk \in Nat /\ h.gap \in SUBSET Nat
  BY <1>0, <1>1 DEF HeapType
<1>3. \A b \in Blocks(h) :
         /\ b.at \in Nat /\ b.size \in Nat /\ HEADER <= b.size
         /\ End(b) = b.at + b.size /\ End(b) \in Nat
         /\ ORIG <= b.at /\ End(b) <= h.brk
         /\ b.at % ALIGN = 0 /\ b.size % ALIGN = 0
  BY BlockFields
<1>4. F \subseteq Blocks(h) /\ h.alloc \subseteq Blocks(h)
  BY DEF Blocks
<1>5. FreeSet(F, h.brk)
  <2>1. \A b \in F : 0 < b.size /\ b.at + b.size <= h.brk
    BY <1>0, <1>3, <1>4
  <2>2. \A b, c \in F : b # c => Apart(b, c)
    BY <1>1, <1>4 DEF Disjoint
  <2> QED BY <1>2, <2>1, <2>2 DEF FreeSet
<1>6. /\ g.free = G /\ g.alloc = h.alloc /\ g.brk = h.brk /\ g.gap = h.gap
      /\ g = WithLists(h, G, h.alloc)
  BY DEF defrag, WithLists
<1>7. Blocks(g) = G \cup h.alloc
  BY <1>6 DEF Blocks
<1> HIDE DEF F, G, g
\* what a block of the new free list is
<1>8. \A b \in G : \E a \in Starts(F) \ Ends(F) :
         /\ b.at = a /\ b.size = RunEnd(F, a) - a /\ b.req = 0 /\ End(b) = RunEnd(F, a)
         /\ a \in Nat /\ RunEnd(F, a) \in Nat /\ a < RunEnd(F, a) /\ b \in BlockType
  <2> TAKE b \in G
  <2>1. PICK a \in Starts(F) \ Ends(F) : b = Block(a, RunEnd(F, a) - a, 0)
    BY DEF G, coalesce
  <2>2. a \in Nat /\ RunEnd(F, a) \in Nat /\ a < RunEnd(F, a)
    <3>1. a \in Nat
      BY <1>3, <1>4 DEF Starts
    <3> QED BY <1>2, <1>5, <3>1, RunEndIs
  <2>3. /\ b.at = a /\ b.size = RunEnd(F, a) - a /\ b.req = 0 /\ End(b) = RunEnd(F, a)
        /\ b \in BlockType
    BY <2>1, <2>2 DEF Block, BlockType, End
  <2> QED BY <2>2, <2>3
\* a byte of a new block is a byte of an old one
<1>9. ASSUME NEW b \in G, NEW x \in Nat, b.at <= x, x < End(b)
      PROVE  \E d \in F : d.at <= x /\ x < End(d)
  <2>1. PICK a \in Starts(F) \ Ends(F) : b.at = a /\ End(b) = RunEnd(F, a)
    BY <1>8
  <2> QED BY <1>2, <1>5, <1>9, <2>1, RunFilled
<1>10. \A b \in G : /\ b.at \in Nat /\ b.size \in Nat /\ End(b) \in Nat
                    /\ b.at < End(b) /\ End(b) = b.at + b.size
  BY <1>8
<1>a. g \in HeapType
  <2>1. G \in SUBSET BlockType
    BY <1>8
  <2> QED BY <1>2, <1>6, <2>1 DEF HeapType, WithLists
<1>b. Disjoint(g)
  <2>1. ASSUME NEW b \in G, NEW c \in h.alloc
        PROVE  Apart(b, c) /\ Apart(c, b)
    <3>1. SUFFICES ASSUME ~(End(b) <= c.at), ~(End(c) <= b.at) PROVE FALSE
      BY DEF Apart
    <3>2. c.at \in Nat /\ End(c) \in Nat /\ c.at < End(c)
      BY <1>0, <1>3, <1>4
    <3>3. PICK x \in Nat : b.at <= x /\ x < End(b) /\ c.at <= x /\ x < End(c)
      <4>1. CASE b.at <= c.at
        BY <1>10, <3>1, <3>2, <4>1
      <4>2. CASE c.at <= b.at
        BY <1>10, <3>1, <3>2, <4>2
      <4> QED BY <1>10, <3>2, <4>1, <4>2
    <3>4. PICK d \in F : d.at <= x /\ x < End(d)
      BY <1>9, <3>3
    <3>5. d # c
      BY <1>1 DEF Requested, F
    <3>6. End(d) <= c.at \/ End(c) <= d.at
      BY <1>1, <1>4, <3>5 DEF Disjoint, Apart
    <3>7. d.at \in Nat /\ End(d) \in Nat
      BY <1>3, <1>4
    <3> QED BY <3>2, <3>3, <3>4, <3>6, <3>7
  <2>2. ASSUME NEW b \in G, NEW c \in G, b.at < c.at
        PROVE  End(b) <= c.at
    <3>1. SUFFICES ASSUME c.at < End(b) PROVE FALSE
      BY <1>10
    <3>2. PICK a \in Starts(F) \ Ends(F) : c.at = a
      BY <1>8
    <3>3. PICK s \in F : s.at = a
      BY DEF Starts
    <3>4. c.at - 1 \in Nat /\ b.at <= c.at - 1 /\ c.at - 1 < End(b)
      BY <1>10, <2>2, <3>1
    <3>5. PICK d \in F : d.at <= c.at - 1 /\ c.at - 1 < End(d)
      BY <1>9, <3>4
    <3>6. /\ d.at \in Nat /\ End(d) \in Nat /\ s.at \in Nat /\ End(s) \in Nat
          /\ s.at < End(s)
      BY <1>0, <1>3, <1>4
    <3>7. End(d) # a
      BY <3>2 DEF Ends
    <3>8. d # s
      BY <3>2, <3>3, <3>5, <3>6
    <3>9. End(d) <= s.at \/ End(s) <= d.at
      BY <1>1, <1>4, <3>8 DEF Disjoint, Apart
    <3> QED BY <3>2, <3>3, <3>5, <3>6, <3>7, <3>9
  <2>3. ASSUME NEW b \in G, NEW c \in G, b # c
        PROVE  Apart(b, c)
    <3>1. b.at # c.at
      <4>1. PICK a \in Starts(F) \ Ends(F) : b = Block(a, RunEnd(F, a) - a, 0)
        BY DEF G, coalesce
      <4>2. PICK e \in Starts(F) \ Ends(F) : c = Block(e, RunEnd(F, e) - e, 0)
        BY DEF G, coalesce
      <4>3. b.at = a /\ c.at = e
        BY <4>1, <4>2 DEF Block
      <4> QED BY <2>3, <4>1, <4>2, <4>3
    <3>2. b.at < c.at \/ c.at < b.at
      BY <1>10, <3>1
    <3> QED BY <2>2, <3>2 DEF Apart
  <2>4. ASSUME NEW b \in h.alloc, NEW c \in h.alloc, b # c
        PROVE  Apart(b, c)
    BY <1>1, <1>4, <2>4 DEF Disjoint
  <2> QED BY <1>7, <2>1, <2>3, <2>4 DEF Disjoint
<1>c. Within(g)
  <2>1. ASSUME NEW b \in G PROVE ORIG <= b.at /\ End(b) <= h.brk
    <3>1. PICK a \in Starts(F) \ Ends(F) : b.at = a /\ End(b) = RunEnd(F, a)
      BY <1>8
    <3>2. PICK s \in F : s.at = a
      BY DEF Starts
    <3>3. RunEnd(F, a) \in Ends(F)
      BY <1>2, <1>5, RunEndIs
    <3>4. PICK d \in F : End(d) = RunEnd(F, a)
      BY <3>3 DEF Ends
    <3> QED BY <1>3, <1>4, <3>1, <3>2, <3>4
  <2> QED BY <1>3, <1>4, <1>6, <1>7, <2>1 DEF Within
<1>d. Covered(g)
  <2> SUFFICES ASSUME NEW x \in ORIG .. (g.brk - 1), x \notin g.gap
               PROVE  \E b \in Blocks(g) : b.at <= x /\ x < End(b)
    BY DEF Covered
  <2>1. PICK c \in Blocks(h) : c.at <= x /\ x < End(c)
    BY <1>1, <1>6 DEF Covered
  <2>2. CASE c \in h.alloc
    BY <1>7, <2>1, <2>2
  <2>3. CASE c \in F
    <3>1. PICK a \in Starts(F) \ Ends(F) : a <= c.at /\ End(c) <= RunEnd(F, a)
      BY <1>2, <1>5, <2>3, RunExists
    <3> DEFINE b == Block(a, RunEnd(F, a) - a, 0)
    <3>2. b \in G
      BY DEF G, coalesce
    <3>3. b.at = a
      BY DEF Block
    <3>4. PICK e \in Starts(F) \ Ends(F) : b.at = e /\ End(b) = RunEnd(F, e)
      BY <1>8, <3>2
    <3>5. End(b) = RunEnd(F, a)
      BY <3>3, <3>4
    <3>6. b.at \in Nat /\ End(b) \in Nat /\ c.at \in Nat /\ End(c) \in Nat /\ x \in Nat
      BY <1>0, <1>2, <1>3, <1>6, <1>10, <3>2
    <3> HIDE DEF b
    <3>7. b.at <= x /\ x < End(b)
      BY <2>1, <3>1, <3>3, <3>5, <3>6
    <3> QED BY <1>7, <3>2, <3>7
  <2> QED BY <2>2, <2>3 DEF Blocks, F
<1>e. HeaderRoom(g) /\ Aligned(g)
  <2>1. ASSUME NEW b \in G
        PROVE  b.size >= HEADER /\ b.at % ALIGN = 0 /\ b.size % ALIGN = 0
    <3>1. PICK a \in Starts(F) \ Ends(F) : /\ b.at = a /\ b.size = RunEnd(F, a) - a
                                           /\ a \in Nat /\ RunEnd(F, a) \in Nat
                                           /\ a < RunEnd(F, a)
      BY <1>8
    <3>2. PICK s \in F : s.at = a
      BY DEF Starts
    <3>3. End(s) <= RunEnd(F, a)
      BY <1>2, <1>5, <3>2, RunLongEnough
    <3>4. RunEnd(F, a) \in Ends(F)
      BY <1>2, <1>5, RunEndIs
    <3>5. PICK d \in F : End(d) = RunEnd(F, a)
      BY <3>4 DEF Ends
    <3>6. RunEnd(F, a) % ALIGN = 0
      BY <1>0, <1>3, <1>4, <3>5, ModSum
    <3>7. a % ALIGN = 0
      BY <1>3, <1>4, <3>2
    <3>8. (RunEnd(F, a) - a) % ALIGN = 0
      BY <1>0, <3>1, <3>6, <3>7, ModDiff
    <3>9. b.size >= HEADER
      BY <1>0, <1>3, <1>4, <3>1, <3>2, <3>3
    <3> QED BY <3>1, <3>7, <3>8, <3>9
  <2> QED BY <1>1, <1>4, <1>6, <1>7, <2>1 DEF HeaderRoom, Aligned
<1>g. Requested(g)
  BY <1>1, <1>6, <1>8 DEF Requested
<1> QED BY <1>6, <1>a, <1>b, <1>c, <1>d, <1>e, <1>g DEF WellFormed, g

-----------------------------------------------------------------------------
(* malloc and the actions *)

\* malloc either changes nothing or adds one block for the request, and never
\* writes a header above the break.
LEMMA MallocWF ==
    ASSUME NEW h, WellFormed(h), NEW n \in Nat, Small(n)
    PROVE  LET o == malloc(h, n)
           IN  /\ WellFormed(o.heap)
               /\ o.fault = FALSE
               /\ o.ptr = NULL => o.heap = h
               /\ o.ptr # NULL =>
                    /\ o.ptr \in Nat
                    /\ \E a \in BlockType : /\ o.heap.alloc = h.alloc \cup {a}
                                            /\ a \notin h.alloc
                                            /\ a.at + HEADER = o.ptr /\ a.req = n
<1> DEFINE r == required_size(n)
           c == chunk_size(r)
           o == malloc(h, n)
<1>0. /\ ORIG \in Nat /\ LIMIT \in Nat /\ HEADER \in Nat \ {0} /\ WORD \in Nat \ {0}
  BY SizesAssumption, RangeAssumption
<1>1. /\ r \in Nat /\ r % ALIGN = 0 /\ HEADER + n <= r /\ c \in Nat /\ c % ALIGN = 0
      /\ r <= c /\ c + LIMIT < WORD
  BY Sizes
<1>2. h.brk \in Nat /\ h.brk < LIMIT
  BY <1>0 DEF WellFormed, HeapType
<1>3. new_break(h, c) = h.brk + c
  <2>1. h.brk + c \in Nat /\ h.brk + c < WORD
    BY <1>0, <1>1, <1>2
  <2> QED BY <1>0, <2>1, ModSmall DEF new_break
<1>4. ~(new_break(h, c) < h.brk + HEADER)
  BY <1>0, <1>1, <1>2, <1>3
<1> HIDE DEF r, c
<1>5. CASE n = 0 \/ (fitting(h, r) = {} /\ sbrk_fails(h, c))
  <2>1. o = Outcome(NULL, h, FALSE)
    BY <1>5 DEF malloc, r, c
  <2> QED BY <2>1 DEF Outcome
<1>6. CASE n # 0 /\ fitting(h, r) # {}
  <2> DEFINE b == search_free(h, r)
  <2>1. o = Outcome(b.at + HEADER, place(h, b, r, n), FALSE)
    BY <1>6 DEF malloc, r, c
  <2>2. b \in h.free /\ b.size >= r
    BY <1>1, <1>6, SearchFinds
  <2>3. b.at \in Nat /\ b.size \in Nat
    BY <2>2 DEF WellFormed, HeapType, BlockType
  <2> HIDE DEF b
  <2>4. /\ WellFormed(place(h, b, r, n))
        /\ \E a \in BlockType : /\ place(h, b, r, n).alloc = h.alloc \cup {a}
                                /\ a.at = b.at /\ a.req = n /\ a \notin h.alloc
    BY <1>1, <1>6, <2>2, <2>3, PlaceWF
  <2>5. /\ o.heap = place(h, b, r, n) /\ o.fault = FALSE /\ o.ptr = b.at + HEADER
        /\ o.ptr \in Nat /\ o.ptr # NULL
    BY <1>0, <2>1, <2>3 DEF Outcome, NULL
  <2> HIDE DEF o
  <2> QED BY <2>4, <2>5 DEF o
<1>7. CASE n # 0 /\ fitting(h, r) = {} /\ ~sbrk_fails(h, c)
  <2> DEFINE g == grow(h, c)
             b == search_free(g, r)
  <2>1. o = Outcome(b.at + HEADER, place(g, b, r, n), FALSE)
    BY <1>4, <1>7 DEF malloc, r, c
  <2>2. /\ WellFormed(g) /\ g.alloc = h.alloc
        /\ g.free = h.free \cup {Block(h.brk, c, 0)}
    <3>1. h.brk + c < LIMIT
      BY <1>0, <1>1, <1>2, <1>3, <1>7 DEF sbrk_fails
    <3>2. HEADER <= c
      BY <1>0, <1>1
    <3> QED BY <1>1, <1>3, <3>1, <3>2, GrowWF
  <2>3. fitting(g, r) # {}
    <3>1. Block(h.brk, c, 0) \in fitting(g, r)
      BY <1>1, <2>2 DEF fitting, Block
    <3> QED BY <3>1
  <2> HIDE DEF g
  <2>4. b \in g.free /\ b.size >= r
    BY <1>1, <2>2, <2>3, SearchFinds
  <2>5. b.at \in Nat /\ b.size \in Nat
    BY <2>2, <2>4 DEF WellFormed, HeapType, BlockType
  <2> HIDE DEF b
  <2>6. /\ WellFormed(place(g, b, r, n))
        /\ \E a \in BlockType : /\ place(g, b, r, n).alloc = g.alloc \cup {a}
                                /\ a.at = b.at /\ a.req = n /\ a \notin g.alloc
    BY <1>1, <1>7, <2>2, <2>4, <2>5, PlaceWF
  <2>7. /\ o.heap = place(g, b, r, n) /\ o.fault = FALSE /\ o.ptr = b.at + HEADER
        /\ o.ptr \in Nat /\ o.ptr # NULL
    BY <1>0, <2>1, <2>5 DEF Outcome, NULL
  <2> HIDE DEF o
  <2> QED BY <2>2, <2>6, <2>7 DEF o
<1> QED BY <1>5, <1>6, <1>7

\* heap_info's arrays are as small as the address space allows.
LEMMA ArraysSmall ==
    ASSUME NEW h, WellFormed(h), NoWrap
    PROVE  array_bytes(h) \in Nat /\ Small(array_bytes(h))
<1> DEFINE S == Starts(h.alloc)
           f == [b \in h.alloc |-> b.at]
<1>0. /\ LIMIT \in Nat /\ LIMIT > 0 /\ PTRSZ \in Nat /\ HEADER \in Nat \ {0}
      /\ ALIGN \in Nat /\ PAGESIZE \in Nat /\ WORD \in Nat
  BY SizesAssumption, RangeAssumption
<1>1. \A b \in h.alloc : b.at \in Nat /\ b.at <= LIMIT - 1
  <2> TAKE b \in h.alloc
  <2>1. b \in Blocks(h)
    BY DEF Blocks
  <2>2. /\ b.at \in Nat /\ b.size \in Nat /\ End(b) = b.at + b.size /\ End(b) <= h.brk
        /\ h.brk \in Nat /\ h.brk < LIMIT
    BY <2>1, BlockFields
  <2> QED BY <1>0, <2>2
<1>2. IsFiniteSet(S) /\ Cardinality(S) <= LIMIT /\ Cardinality(S) \in Nat
  <2>1. S \in SUBSET Nat /\ \A x \in S : x <= LIMIT - 1
    BY <1>1 DEF Starts
  <2>2. LIMIT - 1 \in Nat
    BY <1>0
  <2>3. IsFiniteSet(S) /\ Cardinality(S) <= (LIMIT - 1) + 1
    BY <2>1, <2>2, FS_BoundedSetOfNaturals
  <2>4. Cardinality(S) \in Nat
    BY <2>3, FS_CardinalityType
  <2> QED BY <1>0, <2>3, <2>4
<1>3. f \in Injection(h.alloc, S)
  <2>1. f \in [h.alloc -> S]
    BY DEF Starts
  <2>2. \A b, c \in h.alloc : b # c => b.at # c.at
    <3> SUFFICES ASSUME NEW b \in h.alloc, NEW c \in h.alloc, b.at = c.at
                 PROVE  b = c
      OBVIOUS
    <3> QED BY BlockOfUnique
  <2> QED BY <2>1, <2>2 DEF Injection, IsInjective
<1>4. IsFiniteSet(h.alloc) /\ Cardinality(h.alloc) <= Cardinality(S)
  BY <1>2, <1>3, FS_Injection
<1>5. Cardinality(h.alloc) \in Nat
  BY <1>4, FS_CardinalityType
<1>6. PTRSZ * Cardinality(h.alloc) <= PTRSZ * LIMIT /\ PTRSZ * Cardinality(h.alloc) \in Nat
  BY <1>0, <1>2, <1>4, <1>5, MulMono
<1>7. array_bytes(h) = PTRSZ * Cardinality(h.alloc)
  BY <1>0, <1>5 DEF array_bytes
<1>8. Small(LIMIT * PTRSZ) /\ LIMIT * PTRSZ = PTRSZ * LIMIT /\ PTRSZ * LIMIT \in Nat
  BY <1>0 DEF NoWrap
<1> HIDE DEF S, f
<1>9. Small(array_bytes(h))
  BY <1>0, <1>6, <1>7, <1>8 DEF Small
<1> QED BY <1>6, <1>7, <1>9

\* The program may free any region it holds: its block is there, and the
\* regions it keeps are in other blocks.
LEMMA FreeHeld ==
    ASSUME NEW h, WellFormed(h), NEW R \in SUBSET [ptr : Nat, n : Nat],
           Backed(h, R), NEW r \in R
    PROVE  /\ WellFormed(free(h, r.ptr))
           /\ Backed(free(h, r.ptr), R \ {r})
           /\ \E b \in h.alloc : /\ b.at + HEADER = r.ptr /\ b.req = r.n
                                 /\ free(h, r.ptr).alloc = h.alloc \ {b}
<1>1. PICK b \in h.alloc : b.at + HEADER = r.ptr /\ b.req = r.n
  BY DEF Backed
<1>2. WellFormed(free(h, r.ptr)) /\ free(h, r.ptr).alloc = h.alloc \ {b}
  BY <1>1, FreeWF
<1>3. ASSUME NEW q \in R \ {r}
      PROVE  \E c \in h.alloc \ {b} : c.at + HEADER = q.ptr /\ c.req = q.n
  <2>1. PICK c \in h.alloc : c.at + HEADER = q.ptr /\ c.req = q.n
    BY DEF Backed
  <2>2. q # r /\ q \in [ptr : Nat, n : Nat] /\ r \in [ptr : Nat, n : Nat]
    OBVIOUS
  <2>3. q.ptr # r.ptr \/ q.n # r.n
    BY <2>2
  <2> QED BY <1>1, <2>1, <2>3
<1> QED BY <1>1, <1>2, <1>3 DEF Backed

\* A call of malloc that succeeds adds one region, one that fails adds none.
LEMMA MallocHeld ==
    ASSUME NEW h, WellFormed(h), NEW R \in SUBSET [ptr : Nat, n : Nat],
           Backed(h, R), NEW n \in Nat, Small(n)
    PROVE  LET o == malloc(h, n)
           IN  /\ WellFormed(o.heap) /\ o.fault = FALSE
               /\ Backed(o.heap, R \cup Regions(o.ptr, n))
               /\ Regions(o.ptr, n) \in SUBSET [ptr : Nat, n : Nat]
<1> DEFINE o == malloc(h, n)
<1>1. /\ WellFormed(o.heap) /\ o.fault = FALSE
      /\ o.ptr = NULL => o.heap = h
      /\ o.ptr # NULL =>
           /\ o.ptr \in Nat
           /\ \E a \in BlockType : /\ o.heap.alloc = h.alloc \cup {a}
                                   /\ a \notin h.alloc
                                   /\ a.at + HEADER = o.ptr /\ a.req = n
  BY MallocWF
<1> HIDE DEF o
<1>2. CASE o.ptr = NULL
  BY <1>1, <1>2 DEF Regions, o
<1>3. CASE o.ptr # NULL
  <2>1. Regions(o.ptr, n) = {[ptr |-> o.ptr, n |-> n]}
    BY <1>3 DEF Regions
  <2>2. Backed(o.heap, R \cup Regions(o.ptr, n))
    BY <1>1, <1>3, <2>1 DEF Backed
  <2> QED BY <1>1, <1>3, <2>1, <2>2 DEF o
<1> QED BY <1>2, <1>3

\* calloc is malloc of the product, which does not wrap when the check passes.
LEMMA CallocIs ==
    ASSUME NEW h, NEW num \in Nat, NEW sz \in Nat, NoWrap, <<num, sz>> \in Arrays
    PROVE  \/ calloc(h, num, sz) = Outcome(NULL, h, FALSE)
           \/ /\ calloc(h, num, sz) = malloc(h, num * sz)
              /\ num * sz \in Nat /\ Small(num * sz)
<1>0. WORD \in Nat \ {0} /\ WORD - 1 \in Nat
  BY RangeAssumption
<1> SUFFICES ASSUME num # 0, ~(sz > (WORD - 1) \div num), sz # 0
             PROVE  /\ (num * sz) % WORD = num * sz
                    /\ num * sz \in Nat /\ Small(num * sz)
  BY DEF calloc
<1> DEFINE q == (WORD - 1) \div num
<1>1. q \in Nat /\ num * q <= WORD - 1
  <2>1. /\ q \in Nat /\ (WORD - 1) % num \in 0 .. (num - 1)
        /\ WORD - 1 = num * q + ((WORD - 1) % num)
    BY <1>0, DivMod
  <2>2. num * q \in Nat
    BY <2>1
  <2> QED BY <1>0, <2>1, <2>2
<1>2. sz <= q
  BY <1>1
<1> HIDE DEF q
<1>3. num * sz <= num * q /\ num * sz \in Nat
  BY <1>1, <1>2, MulMono
<1>4. num * sz < WORD
  <2>1. num * q \in Nat
    BY <1>1
  <2> QED BY <1>0, <1>1, <1>3, <2>1
<1>5. (num * sz) % WORD = num * sz
  BY <1>0, <1>3, <1>4, ModSmall
<1>6. Small(num * sz)
  <2>1. \A a \in Arrays : a[1] * a[2] < WORD => Small(a[1] * a[2])
    BY DEF NoWrap
  <2> QED BY <1>4, <2>1
<1> QED BY <1>3, <1>5, <1>6

\* Initially the heap is empty.
LEMMA InitInv == Init => IndInv
<1> SUFFICES ASSUME Init PROVE IndInv
  OBVIOUS
<1>0. ORIG \in Nat /\ LIMIT \in Nat /\ ORIG < LIMIT /\ ORIG % ALIGN = 0
  BY RangeAssumption
<1>1. /\ heap.free = {} /\ heap.alloc = {} /\ heap.brk = ORIG /\ heap.gap = {}
      /\ heap \in HeapType /\ held = {} /\ alive = TRUE /\ Blocks(heap) = {}
  BY <1>0 DEF Init, HeapType, Blocks
<1>2. Covered(heap)
  BY <1>0, <1>1 DEF Covered
<1>3. WellFormed(heap)
  BY <1>0, <1>1, <1>2
     DEF WellFormed, Disjoint, Within, HeaderRoom, Aligned, Requested
<1> QED BY <1>1, <1>3 DEF IndInv, Backed

\* Every call keeps the inductive invariant.
LEMMA StepInv ==
    ASSUME NoWrap, AlignedGaps, IndInv, [Next]_vars
    PROVE  IndInv'
<1>0. /\ WellFormed(heap) /\ Backed(heap, held)
      /\ held \in SUBSET [ptr : Nat, n : Nat] /\ alive \in BOOLEAN
  BY DEF IndInv
<1>r. \A n \in Requests : n \in Nat /\ Small(n)
  BY RangeAssumption, InputAssumption DEF NoWrap
<1>1. ASSUME NEW n \in Requests, Malloc(n) PROVE IndInv'
  <2> DEFINE o == malloc(heap, n)
  <2>1. /\ WellFormed(o.heap) /\ o.fault = FALSE
        /\ Backed(o.heap, held \cup Regions(o.ptr, n))
        /\ Regions(o.ptr, n) \in SUBSET [ptr : Nat, n : Nat]
    BY <1>0, <1>r, MallocHeld
  <2>2. /\ heap' = o.heap /\ held' = (held \ {}) \cup Regions(o.ptr, n)
        /\ alive' = ~o.fault
    BY <1>1 DEF Malloc, Return
  <2> HIDE DEF o
  <2>3. held' = held \cup Regions(o.ptr, n) /\ alive' = TRUE
    BY <2>1, <2>2
  <2> QED BY <1>0, <2>1, <2>2, <2>3 DEF IndInv
<1>2. ASSUME NEW a \in Arrays, Calloc(a[1], a[2]) PROVE IndInv'
  <2> DEFINE num == a[1]
             sz == a[2]
             o == calloc(heap, num, sz)
  <2>1. num \in Nat /\ sz \in Nat /\ <<num, sz>> \in Arrays
    <3>1. a \in (0 .. (WORD - 1)) \X (0 .. (WORD - 1))
      BY InputAssumption
    <3>2. a = <<a[1], a[2]>> /\ a[1] \in Nat /\ a[2] \in Nat
      BY <3>1, RangeAssumption
    <3> QED BY <3>2
  <2>2. /\ heap' = o.heap /\ held' = (held \ {}) \cup Regions(o.ptr, num * sz)
        /\ alive' = ~o.fault
    BY <1>2 DEF Calloc, Return
  <2> HIDE DEF num, sz
  <2>3. CASE o = Outcome(NULL, heap, FALSE)
    <3>0. o.heap = heap /\ o.ptr = NULL /\ o.fault = FALSE
      BY <2>3 DEF Outcome
    <3> HIDE DEF o
    <3>1. heap' = heap /\ held' = held /\ alive' = TRUE
      BY <2>2, <3>0 DEF Regions
    <3> QED BY <1>0, <3>1 DEF IndInv
  <2>4. CASE o = malloc(heap, num * sz) /\ num * sz \in Nat /\ Small(num * sz)
    <3>1. /\ WellFormed(o.heap) /\ o.fault = FALSE
          /\ Backed(o.heap, held \cup Regions(o.ptr, num * sz))
          /\ Regions(o.ptr, num * sz) \in SUBSET [ptr : Nat, n : Nat]
      BY <1>0, <2>4, MallocHeld
    <3> HIDE DEF o
    <3>2. held' = held \cup Regions(o.ptr, num * sz) /\ alive' = TRUE
      BY <2>2, <3>1
    <3> QED BY <1>0, <2>2, <3>1, <3>2 DEF IndInv
  <2> QED BY <2>1, <2>3, <2>4, CallocIs
<1>3. ASSUME NEW r \in held, Free(r) PROVE IndInv'
  <2> DEFINE o == Outcome(NULL, free(heap, r.ptr), FALSE)
  <2>1. WellFormed(free(heap, r.ptr)) /\ Backed(free(heap, r.ptr), held \ {r})
    BY <1>0, FreeHeld
  <2>2. heap' = free(heap, r.ptr) /\ held' = held \ {r} /\ alive' = TRUE
    BY <1>3 DEF Free, Return, Outcome
  <2> QED BY <1>0, <2>1, <2>2 DEF IndInv
<1>4. ASSUME NEW r \in held, NEW n \in Requests, Realloc(r, n) PROVE IndInv'
  <2> DEFINE m == malloc(heap, n)
             o == realloc(heap, r.ptr, n)
             lost == IF o.ptr # NULL \/ n = 0 THEN {r} ELSE {}
  <2>1. /\ WellFormed(m.heap) /\ m.fault = FALSE
        /\ Backed(m.heap, held \cup Regions(m.ptr, n))
        /\ Regions(m.ptr, n) \in SUBSET [ptr : Nat, n : Nat]
    BY <1>0, <1>r, MallocHeld
  <2>2. /\ heap' = o.heap /\ held' = (held \ lost) \cup Regions(o.ptr, n)
        /\ alive' = ~o.fault
    BY <1>4 DEF Realloc, Return
  <2>3. /\ m.ptr = NULL => m.heap = heap
        /\ m.ptr # NULL =>
             /\ m.ptr \in Nat
             /\ \E a \in BlockType : /\ m.heap.alloc = heap.alloc \cup {a}
                                     /\ a \notin heap.alloc
                                     /\ a.at + HEADER = m.ptr /\ a.req = n
    BY <1>0, <1>r, MallocWF
  <2>4. CASE n = 0
    <3>1. o = Outcome(NULL, free(heap, r.ptr), FALSE)
      BY <2>4 DEF realloc
    <3>0. o.heap = free(heap, r.ptr) /\ o.ptr = NULL /\ o.fault = FALSE
      BY <3>1 DEF Outcome
    <3> HIDE DEF o
    <3>2. heap' = free(heap, r.ptr) /\ held' = held \ {r} /\ alive' = TRUE
      BY <2>2, <2>4, <3>0 DEF Regions
    <3>3. WellFormed(free(heap, r.ptr)) /\ Backed(free(heap, r.ptr), held \ {r})
      BY <1>0, FreeHeld
    <3> QED BY <1>0, <3>2, <3>3 DEF IndInv
  <2>5. CASE n # 0 /\ m.ptr = NULL
    <3>1. o = m
      BY <2>5 DEF realloc
    <3>2. heap' = heap /\ held' = held /\ alive' = TRUE
      BY <2>1, <2>2, <2>3, <2>5, <3>1 DEF Regions
    <3> QED BY <1>0, <3>2 DEF IndInv
  <2>6. CASE /\ n # 0 /\ m.ptr # NULL
             /\ r.ptr + copied(m.heap, r.ptr, n) > ROUNDUP(m.heap.brk, PAGESIZE)
    <3>1. o = Outcome(NULL, heap, TRUE)
      BY <2>6 DEF realloc
    <3>2. heap' = heap /\ held' = held /\ alive' = FALSE
      <4>1. o.heap = heap /\ o.ptr = NULL /\ o.fault = TRUE
        BY <3>1 DEF Outcome
      <4> HIDE DEF o
      <4> QED BY <2>2, <2>6, <4>1 DEF Regions
    <3> QED BY <1>0, <3>2 DEF IndInv
  <2>7. CASE /\ n # 0 /\ m.ptr # NULL
             /\ ~(r.ptr + copied(m.heap, r.ptr, n) > ROUNDUP(m.heap.brk, PAGESIZE))
    <3> DEFINE R == held \cup Regions(m.ptr, n)
               new == [ptr |-> m.ptr, n |-> n]
    <3>1. o = Outcome(m.ptr, free(m.heap, r.ptr), FALSE)
      BY <2>7 DEF realloc
    <3>2. Regions(m.ptr, n) = {new}
      BY <2>7 DEF Regions
    <3>3. heap' = free(m.heap, r.ptr) /\ held' = (held \ {r}) \cup {new} /\ alive' = TRUE
      <4>1. o.heap = free(m.heap, r.ptr) /\ o.ptr = m.ptr /\ o.fault = FALSE
        BY <3>1 DEF Outcome
      <4> HIDE DEF o, m
      <4> QED BY <2>2, <2>7, <3>2, <4>1
    <3> HIDE DEF m, o
    <3>4. /\ WellFormed(free(m.heap, r.ptr)) /\ Backed(free(m.heap, r.ptr), R \ {r})
      <4>1. R \in SUBSET [ptr : Nat, n : Nat] /\ r \in R
        BY <1>0, <2>1
      <4> QED BY <2>1, <4>1, FreeHeld
    <3>5. new # r
      <4>1. PICK b \in heap.alloc : b.at + HEADER = r.ptr
        BY <1>0 DEF Backed
      <4>2. PICK a \in BlockType : /\ m.heap.alloc = heap.alloc \cup {a}
                                   /\ a \notin heap.alloc /\ a.at + HEADER = m.ptr
        BY <2>3, <2>7
      <4>3. a \in m.heap.alloc /\ b \in m.heap.alloc /\ a # b
        BY <4>1, <4>2
      <4>4. m.ptr # r.ptr
        BY <2>1, <4>1, <4>2, <4>3, BlockOfUnique
      <4> QED BY <4>4
    <3>6. R \ {r} = (held \ {r}) \cup {new}
      BY <3>2, <3>5
    <3>7. new \in [ptr : Nat, n : Nat]
      BY <2>1, <3>2
    <3> QED BY <1>0, <3>3, <3>4, <3>6, <3>7 DEF IndInv
  <2> QED BY <2>4, <2>5, <2>6, <2>7
<1>5. CASE Defrag
  <2>1. heap' = defrag(heap) /\ held' = held /\ alive' = TRUE
    BY <1>5 DEF Defrag, Return, Outcome
  <2>2. WellFormed(defrag(heap)) /\ defrag(heap).alloc = heap.alloc
    BY <1>0, DefragWF
  <2>3. Backed(defrag(heap), held)
    BY <1>0, <2>2 DEF Backed
  <2> QED BY <1>0, <2>1, <2>2, <2>3 DEF IndInv
<1>6. CASE HeapInfo
  <2> DEFINE k == array_bytes(heap)
             s == malloc(heap, k)
             p == malloc(s.heap, k)
             T == [ptr : Nat, n : Nat]
  <2>1. k \in Nat /\ Small(k)
    BY <1>0, ArraysSmall
  <2>2. /\ WellFormed(s.heap) /\ s.fault = FALSE
        /\ Backed(s.heap, held \cup Regions(s.ptr, k)) /\ Regions(s.ptr, k) \in SUBSET T
    BY <1>0, <2>1, MallocHeld
  <2>3. /\ WellFormed(p.heap) /\ p.fault = FALSE
        /\ Backed(p.heap, (held \cup Regions(s.ptr, k)) \cup Regions(p.ptr, k))
        /\ Regions(p.ptr, k) \in SUBSET T
    <3>1. held \cup Regions(s.ptr, k) \in SUBSET T
      BY <1>0, <2>2
    <3> HIDE DEF s
    <3> QED BY <2>1, <2>2, <3>1, MallocHeld
  <2>4. \/ Return(s, {}, {})
        \/ Return(p, {}, {})
        \/ Return(p, Regions(s.ptr, k) \cup Regions(p.ptr, k), {})
    BY <1>6 DEF HeapInfo
  <2> HIDE DEF s, p, k
  <2>5. CASE Return(s, {}, {})
    <3>1. heap' = s.heap /\ held' = held /\ alive' = TRUE
      BY <2>2, <2>5 DEF Return
    <3>2. Backed(s.heap, held)
      BY <2>2 DEF Backed
    <3> QED BY <1>0, <2>2, <3>1, <3>2 DEF IndInv
  <2>6. CASE Return(p, {}, {})
    <3>1. heap' = p.heap /\ held' = held /\ alive' = TRUE
      BY <2>3, <2>6 DEF Return
    <3>2. Backed(p.heap, held)
      BY <2>3 DEF Backed
    <3> QED BY <1>0, <2>3, <3>1, <3>2 DEF IndInv
  <2>7. CASE Return(p, Regions(s.ptr, k) \cup Regions(p.ptr, k), {})
    <3>1. /\ heap' = p.heap /\ alive' = TRUE
          /\ held' = (held \cup Regions(s.ptr, k)) \cup Regions(p.ptr, k)
      BY <2>3, <2>7 DEF Return
    <3> QED BY <1>0, <2>2, <2>3, <3>1 DEF IndInv
  <2> QED BY <2>4, <2>5, <2>6, <2>7
<1>7. ASSUME NEW d \in Gaps, Sbrk(d) PROVE IndInv'
  <2>0. /\ ORIG \in Nat /\ LIMIT \in Nat /\ WORD \in Nat \ {0} /\ ALIGN \in Nat \ {0}
        /\ d \in Nat /\ d % ALIGN = 0 /\ d + LIMIT < WORD
    BY RangeAssumption, SizesAssumption, InputAssumption DEF AlignedGaps
  <2>1. /\ heap \in HeapType /\ Disjoint(heap) /\ Within(heap) /\ Covered(heap)
        /\ HeaderRoom(heap) /\ Aligned(heap) /\ Requested(heap)
    BY <1>0 DEF WellFormed
  <2>2. /\ heap.brk \in Nat /\ heap.brk \in ORIG .. (LIMIT - 1)
        /\ heap.free \in SUBSET BlockType /\ heap.alloc \in SUBSET BlockType
        /\ heap.gap \in SUBSET Nat
    BY <2>0, <2>1 DEF HeapType
  <2>3. new_break(heap, d) = heap.brk + d
    <3>1. heap.brk + d \in Nat /\ heap.brk + d < WORD
      BY <2>0, <2>2
    <3> QED BY <2>0, <3>1, ModSmall DEF new_break
  <2>4. heap.brk + d < LIMIT
    BY <1>7, <2>0, <2>2, <2>3 DEF Sbrk, sbrk_fails
  <2>5. /\ heap'.free = heap.free /\ heap'.alloc = heap.alloc
        /\ heap'.brk = heap.brk + d
        /\ heap'.gap = heap.gap \cup (heap.brk .. ((heap.brk + d) - 1))
        /\ heap' = [free |-> heap.free, alloc |-> heap.alloc, brk |-> heap.brk + d,
                    gap |-> heap.gap \cup (heap.brk .. ((heap.brk + d) - 1))]
        /\ held' = held /\ alive' = alive
    <3>1. heap' = [free |-> heap.free, alloc |-> heap.alloc, brk |-> heap.brk + d,
                   gap |-> heap.gap \cup (heap.brk .. ((heap.brk + d) - 1))]
      <4>1. heap' = [free |-> heap.free, alloc |-> heap.alloc,
                     brk |-> new_break(heap, d),
                     gap |-> heap.gap \cup (heap.brk .. (new_break(heap, d) - 1))]
        BY <1>7, Zenon DEF Sbrk
      <4> QED BY <2>3, <4>1, Zenon
    <3>2. held' = held /\ alive' = alive
      BY <1>7, Zenon DEF Sbrk
    <3> QED BY <3>1, <3>2
  <2>6. Blocks(heap') = Blocks(heap)
    BY <2>5 DEF Blocks
  <2>7. heap' \in HeapType
    <3>1. heap.gap \cup (heap.brk .. ((heap.brk + d) - 1)) \in SUBSET Nat
      BY <2>0, <2>2
    <3>2. heap.brk + d \in ORIG .. (LIMIT - 1)
      BY <2>0, <2>2, <2>4
    <3> QED BY <2>2, <2>5, <3>1, <3>2 DEF HeapType
  <2>8. Disjoint(heap') /\ HeaderRoom(heap') /\ Requested(heap')
    BY <2>1, <2>5, <2>6 DEF Disjoint, HeaderRoom, Requested
  <2>9. Within(heap')
    <3>1. \A b \in Blocks(heap) : End(b) \in Nat
      BY <1>0, BlockFields
    <3> QED BY <2>0, <2>1, <2>2, <2>5, <2>6, <3>1 DEF Within
  <2>10. Covered(heap')
    <3>1. ASSUME NEW x \in ORIG .. ((heap.brk + d) - 1), x \notin heap'.gap
          PROVE  \E b \in Blocks(heap) : b.at <= x /\ x < End(b)
      <4>1. x < heap.brk /\ x \notin heap.gap
        BY <2>0, <2>2, <2>5, <3>1
      <4>2. x \in ORIG .. (heap.brk - 1)
        BY <2>0, <2>2, <4>1
      <4> QED BY <2>1, <4>1, <4>2 DEF Covered
    <3>2. \A x \in ORIG .. (heap'.brk - 1) :
             x \in heap'.gap \/ \E b \in Blocks(heap') : b.at <= x /\ x < End(b)
      <4>1. heap'.brk = heap.brk + d
        BY <2>5
      <4> SUFFICES ASSUME NEW x \in ORIG .. (heap'.brk - 1), x \notin heap'.gap
                   PROVE  \E b \in Blocks(heap') : b.at <= x /\ x < End(b)
        OBVIOUS
      <4>2. x \in ORIG .. ((heap.brk + d) - 1)
        BY <4>1, Zenon
      <4>3. \E b \in Blocks(heap) : b.at <= x /\ x < End(b)
        BY <3>1, <4>2, Zenon
      <4> QED BY <2>6, <4>3, Zenon
    <3> QED BY <3>2, Zenon DEF Covered
  <2>11. Aligned(heap')
    <3>1. (heap.brk + d) % ALIGN = 0
      BY <2>0, <2>1, <2>2, ModSum DEF Aligned
    <3> QED BY <2>1, <2>5, <2>6, <3>1 DEF Aligned
  <2>12. Backed(heap', held')
    BY <1>0, <2>5 DEF Backed
  <2> QED BY <1>0, <2>5, <2>7, <2>8, <2>9, <2>10, <2>11, <2>12 DEF IndInv, WellFormed
<1>8. CASE UNCHANGED vars
  BY <1>8 DEF vars, IndInv, WellFormed, HeapType, Disjoint, Within, Covered, HeaderRoom,
              Aligned, Requested, Backed, Blocks
<1> QED BY <1>1, <1>2, <1>3, <1>4, <1>5, <1>6, <1>7, <1>8 DEF Next

\* Regions the program holds have different addresses.
LEMMA HeldDistinct ==
    ASSUME NEW h, WellFormed(h), NEW R \in SUBSET [ptr : Nat, n : Nat],
           Backed(h, R), NEW q \in R, NEW r \in R, q # r
    PROVE  q.ptr # r.ptr
<1> SUFFICES ASSUME q.ptr = r.ptr PROVE FALSE
  OBVIOUS
<1>1. PICK b \in h.alloc : b.at + HEADER = r.ptr /\ b.req = r.n
  BY DEF Backed
<1>2. PICK c \in h.alloc : c.at + HEADER = q.ptr /\ c.req = q.n
  BY DEF Backed
<1>3. b = c
  BY <1>1, <1>2, BlockOfUnique
<1>4. q = [ptr |-> q.ptr, n |-> q.n] /\ r = [ptr |-> r.ptr, n |-> r.n]
  OBVIOUS
<1> QED BY <1>1, <1>2, <1>3, <1>4

\* malloc leaves the allocated blocks where they are.
LEMMA MallocKeeps ==
    ASSUME NEW h, WellFormed(h), NEW n \in Nat, Small(n)
    PROVE  h.alloc \subseteq malloc(h, n).heap.alloc
<1> DEFINE o == malloc(h, n)
<1>1. /\ o.ptr = NULL => o.heap = h
      /\ o.ptr # NULL =>
           /\ o.ptr \in Nat
           /\ \E a \in BlockType : /\ o.heap.alloc = h.alloc \cup {a}
                                   /\ a \notin h.alloc
                                   /\ a.at + HEADER = o.ptr /\ a.req = n
  BY MallocWF
<1> HIDE DEF o
<1>2. h.alloc \subseteq o.heap.alloc
  BY <1>1
<1> QED BY <1>2 DEF o

\* The block of a region that stays with the program is in no call's way.
LEMMA StepKeeps ==
    ASSUME NoWrap, AlignedGaps, IndInv, [Next]_vars,
           NEW q \in held \cap held', NEW c \in heap.alloc, c.at + HEADER = q.ptr
    PROVE  c \in heap'.alloc
<1>0. /\ WellFormed(heap) /\ Backed(heap, held)
      /\ held \in SUBSET [ptr : Nat, n : Nat] /\ q \in held
  BY DEF IndInv
<1>r. \A n \in Requests : n \in Nat /\ Small(n)
  BY RangeAssumption, InputAssumption DEF NoWrap
<1>1. ASSUME NEW n \in Requests, Malloc(n) PROVE c \in heap'.alloc
  <2>1. heap' = malloc(heap, n).heap
    BY <1>1 DEF Malloc, Return
  <2> QED BY <1>0, <1>r, <2>1, MallocKeeps
<1>2. ASSUME NEW a \in Arrays, Calloc(a[1], a[2]) PROVE c \in heap'.alloc
  <2>1. heap' = calloc(heap, a[1], a[2]).heap
    BY <1>2 DEF Calloc, Return
  <2>2. a[1] \in Nat /\ a[2] \in Nat /\ <<a[1], a[2]>> \in Arrays
    <3>1. a \in (0 .. (WORD - 1)) \X (0 .. (WORD - 1))
      BY InputAssumption
    <3>2. a = <<a[1], a[2]>> /\ a[1] \in Nat /\ a[2] \in Nat
      BY <3>1, RangeAssumption
    <3> QED BY <3>2
  <2>3. CASE calloc(heap, a[1], a[2]) = Outcome(NULL, heap, FALSE)
    BY <2>1, <2>3 DEF Outcome
  <2>4. CASE /\ calloc(heap, a[1], a[2]) = malloc(heap, a[1] * a[2])
             /\ a[1] * a[2] \in Nat /\ Small(a[1] * a[2])
    BY <1>0, <2>1, <2>4, MallocKeeps
  <2> QED BY <2>2, <2>3, <2>4, CallocIs
<1>3. ASSUME NEW r \in held, Free(r) PROVE c \in heap'.alloc
  <2>1. heap' = free(heap, r.ptr) /\ held' = held \ {r}
    BY <1>3 DEF Free, Return, Outcome
  <2>2. PICK b \in heap.alloc : b.at + HEADER = r.ptr
    BY <1>0 DEF Backed
  <2>f. free(heap, r.ptr).alloc = heap.alloc \ {b}
    BY <1>0, <2>2, FreeWF
  <2>3. q.ptr # r.ptr
    BY <1>0, <2>1, HeldDistinct
  <2> QED BY <2>1, <2>2, <2>3, <2>f
<1>4. ASSUME NEW r \in held, NEW n \in Requests, Realloc(r, n) PROVE c \in heap'.alloc
  <2> DEFINE m == malloc(heap, n)
             o == realloc(heap, r.ptr, n)
             lost == IF o.ptr # NULL \/ n = 0 THEN {r} ELSE {}
  <2>1. heap' = o.heap /\ held' = (held \ lost) \cup Regions(o.ptr, n)
    BY <1>4 DEF Realloc, Return
  <2>2. heap.alloc \subseteq m.heap.alloc
    BY <1>0, <1>r, MallocKeeps
  <2>3. /\ WellFormed(m.heap) /\ Backed(m.heap, held \cup Regions(m.ptr, n))
    BY <1>0, <1>r, MallocHeld
  <2>4. CASE n = 0
    <3>1. o = Outcome(NULL, free(heap, r.ptr), FALSE)
      BY <2>4 DEF realloc
    <3>2. o.heap = free(heap, r.ptr) /\ o.ptr = NULL
      BY <3>1 DEF Outcome
    <3> HIDE DEF o
    <3>3. heap' = free(heap, r.ptr) /\ held' = held \ {r}
      BY <2>1, <2>4, <3>2 DEF Regions
    <3>4. PICK b \in heap.alloc : b.at + HEADER = r.ptr
      BY <1>0 DEF Backed
    <3>f. free(heap, r.ptr).alloc = heap.alloc \ {b}
      BY <1>0, <3>4, FreeWF
    <3>5. q.ptr # r.ptr
      BY <1>0, <3>3, HeldDistinct
    <3> QED BY <3>3, <3>4, <3>5, <3>f
  <2>5. CASE n # 0 /\ m.ptr = NULL
    <3>1. o = m
      BY <2>5 DEF realloc
    <3> HIDE DEF m, o
    <3> QED BY <2>1, <2>2, <3>1
  <2>6. CASE /\ n # 0 /\ m.ptr # NULL
             /\ r.ptr + copied(m.heap, r.ptr, n) > ROUNDUP(m.heap.brk, PAGESIZE)
    <3>1. o = Outcome(NULL, heap, TRUE)
      BY <2>6 DEF realloc
    <3> QED BY <2>1, <3>1 DEF Outcome
  <2>7. CASE /\ n # 0 /\ m.ptr # NULL
             /\ ~(r.ptr + copied(m.heap, r.ptr, n) > ROUNDUP(m.heap.brk, PAGESIZE))
    <3>1. o = Outcome(m.ptr, free(m.heap, r.ptr), FALSE)
      BY <2>7 DEF realloc
    <3>2. o.heap = free(m.heap, r.ptr) /\ o.ptr = m.ptr
      BY <3>1 DEF Outcome
    <3> HIDE DEF m, o
    <3>3. PICK b \in heap.alloc : b.at + HEADER = r.ptr
      BY <1>0 DEF Backed
    <3>4. free(m.heap, r.ptr).alloc = m.heap.alloc \ {b}
      <4>1. b \in m.heap.alloc
        BY <2>2
      <4> QED BY <2>3, <3>3, <4>1, FreeWF
    <3>5. q # r
      <4>1. held' = (held \ {r}) \cup {[ptr |-> m.ptr, n |-> n]}
        BY <2>1, <2>7, <3>2 DEF Regions
      <4>2. SUFFICES m.ptr # r.ptr
        BY <4>1
      <4>3. /\ m.ptr # NULL =>
                 /\ m.ptr \in Nat
                 /\ \E a \in BlockType : /\ m.heap.alloc = heap.alloc \cup {a}
                                         /\ a \notin heap.alloc
                                         /\ a.at + HEADER = m.ptr /\ a.req = n
        BY <1>0, <1>r, MallocWF DEF m
      <4>4. PICK a \in BlockType : /\ m.heap.alloc = heap.alloc \cup {a}
                                   /\ a \notin heap.alloc /\ a.at + HEADER = m.ptr
        BY <2>7, <4>3
      <4>5. a \in m.heap.alloc /\ b \in m.heap.alloc /\ a # b
        BY <3>3, <4>4
      <4> QED BY <2>3, <3>3, <4>4, <4>5, BlockOfUnique
    <3>6. q.ptr # r.ptr
      BY <1>0, <3>5, HeldDistinct
    <3> QED BY <2>1, <2>2, <3>2, <3>3, <3>4, <3>6
  <2> QED BY <2>4, <2>5, <2>6, <2>7
<1>5. CASE Defrag
  <2>1. heap' = defrag(heap)
    BY <1>5 DEF Defrag, Return, Outcome
  <2> QED BY <1>0, <2>1, DefragWF
<1>6. CASE HeapInfo
  <2> DEFINE k == array_bytes(heap)
             s == malloc(heap, k)
             p == malloc(s.heap, k)
  <2>1. k \in Nat /\ Small(k)
    BY <1>0, ArraysSmall
  <2>2. WellFormed(s.heap)
    BY <1>0, <2>1, MallocWF
  <2>3. heap.alloc \subseteq s.heap.alloc /\ s.heap.alloc \subseteq p.heap.alloc
    <3>1. heap.alloc \subseteq s.heap.alloc
      BY <1>0, <2>1, MallocKeeps
    <3> HIDE DEF s
    <3>2. s.heap.alloc \subseteq p.heap.alloc
      BY <2>1, <2>2, MallocKeeps
    <3> QED BY <3>1, <3>2
  <2>4. heap' = s.heap \/ heap' = p.heap
    BY <1>6 DEF HeapInfo, Return
  <2> HIDE DEF s, p, k
  <2> QED BY <2>3, <2>4
<1>7. ASSUME NEW d \in Gaps, Sbrk(d) PROVE c \in heap'.alloc
  <2>1. heap' = [free |-> heap.free, alloc |-> heap.alloc, brk |-> new_break(heap, d),
                 gap |-> heap.gap \cup (heap.brk .. (new_break(heap, d) - 1))]
    BY <1>7, Zenon DEF Sbrk
  <2> QED BY <2>1
<1>8. CASE UNCHANGED vars
  BY <1>8 DEF vars
<1> QED BY <1>1, <1>2, <1>3, <1>4, <1>5, <1>6, <1>7, <1>8 DEF Next

-----------------------------------------------------------------------------
(* The theorems *)

\* The inductive invariant gives the properties of Heap.
LEMMA InvImplies ==
    IndInv => TypeOK /\ Partition /\ HeadersInside /\ HeldUsable /\ HeldAligned
<1> SUFFICES ASSUME IndInv
             PROVE  TypeOK /\ Partition /\ HeadersInside /\ HeldUsable /\ HeldAligned
  OBVIOUS
<1>0. HEADER \in Nat \ {0} /\ ALIGN \in Nat \ {0} /\ HEADER % ALIGN = 0
  BY SizesAssumption
<1>1. WellFormed(heap) /\ Backed(heap, held)
  BY DEF IndInv
<1>2. TypeOK
  BY DEF IndInv, WellFormed, TypeOK
<1>3. Partition /\ HeadersInside
  BY <1>1 DEF WellFormed, Partition, HeadersInside
<1>4. ASSUME NEW r \in held
      PROVE  /\ \E b \in heap.alloc : /\ b.at + HEADER = r.ptr
                                      /\ b.req = r.n
                                      /\ r.ptr + r.n <= End(b)
             /\ r.ptr % ALIGN = 0
  <2>1. PICK b \in heap.alloc : b.at + HEADER = r.ptr /\ b.req = r.n
    BY <1>1 DEF Backed
  <2>2. b \in Blocks(heap)
    BY DEF Blocks
  <2>3. /\ b.at \in Nat /\ b.size \in Nat /\ b.req \in Nat /\ End(b) = b.at + b.size
        /\ b.at % ALIGN = 0
    BY <1>1, <2>2, BlockFields
  <2>4. HEADER + b.req <= b.size
    BY <1>1 DEF WellFormed, Requested
  <2>5. (b.at + HEADER) % ALIGN = 0
    BY <1>0, <2>3, ModSum
  <2> QED BY <1>0, <2>1, <2>3, <2>4, <2>5
<1>5. HeldUsable /\ HeldAligned
  BY <1>4 DEF HeldUsable, HeldAligned
<1> QED BY <1>2, <1>3, <1>5

\* The inductive invariant holds in every reachable state.
THEOREM Inductive == ASSUME NoWrap, AlignedGaps PROVE Spec => []IndInv
<1>1. Init => IndInv
  BY InitInv
<1>2. IndInv /\ [Next]_vars => IndInv'
  BY StepInv
<1> QED BY <1>1, <1>2, PTL DEF Spec

\* Type correctness: the break in particular stays between the original break
\* and the limit, whatever the program asks malloc for.
THEOREM TypeCorrect == ASSUME NoWrap, AlignedGaps PROVE Spec => []TypeOK
<1>1. IndInv => TypeOK
  BY InvImplies
<1> QED BY <1>1, Inductive, PTL

\* The blocks always partition the memory obtained from sbrk: splitting,
\* freeing, coalescing and growing lose no byte and share none.
THEOREM HeapPartitioned == ASSUME NoWrap, AlignedGaps PROVE Spec => []Partition
<1>1. IndInv => Partition
  BY InvImplies
<1> QED BY <1>1, Inductive, PTL

\* Each region handed out is aligned, has room for the request, and every
\* block has room for its header.
THEOREM RegionsUsable ==
    ASSUME NoWrap, AlignedGaps
    PROVE  Spec => [](HeldUsable /\ HeldAligned /\ HeadersInside)
<1>1. IndInv => HeldUsable /\ HeldAligned /\ HeadersInside
  BY InvImplies
<1> QED BY <1>1, Inductive, PTL

\* A region the program keeps over a call is neither moved nor resized by it.
THEOREM RegionsStable == ASSUME NoWrap, AlignedGaps PROVE Spec => HeldStable
<1>1. ASSUME IndInv, IndInv', [Next]_vars
      PROVE  [\A r \in held \cap held' :
                 BlockOf(heap', r.ptr) = BlockOf(heap, r.ptr)]_vars
  <2> SUFFICES ASSUME NEW r \in held \cap held'
               PROVE  BlockOf(heap', r.ptr) = BlockOf(heap, r.ptr)
    OBVIOUS
  <2>1. WellFormed(heap) /\ WellFormed(heap') /\ Backed(heap, held)
    BY <1>1 DEF IndInv
  <2>2. PICK b \in heap.alloc : b.at + HEADER = r.ptr
    BY <2>1 DEF Backed
  <2>3. b \in heap'.alloc
    BY <1>1, <2>2, StepKeeps
  <2>4. BlockOf(heap, b.at + HEADER) = b
    BY <2>1, BlockOfUnique
  <2>5. BlockOf(heap', b.at + HEADER) = b
    BY <2>1, <2>3, BlockOfUnique
  <2> QED BY <2>2, <2>4, <2>5
<1> QED BY <1>1, Inductive, PTL DEF Spec, HeldStable

=============================================================================
