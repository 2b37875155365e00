-------------------------- MODULE PageTableProofs ---------------------------
(***************************************************************************)
(* Proofs about PageTable for any size of memory and of tables, any layout *)
(* of the kernel and any number of processes: lookups are exact, the       *)
(* kernel stays reachable, users are confined, and the tables implement    *)
(* the flat maps of AddressSpace.                                          *)
(*                                                                         *)
(* The first part computes the indices of an address, the second walks a   *)
(* table of the form that all tables keep (Tree), the third follows        *)
(* virtual_memory_map through its loop, and the fourth goes through the    *)
(* steps with the invariant Inv, which says for every table in use what    *)
(* its leaves hold and who owns the pages they name.                       *)
(***************************************************************************)
EXTENDS PageTable, Arith, FiniteSetTheorems

Contents == [Index -> [pa : Pages, flags : SUBSET PTE]]
Memory == [Pages -> Contents]
Perms == SUBSET PTE

\* virtual pages within reach of the five tables
Reach == 0 .. (MAPTOP - 1)
Addresses == 0 .. (FANOUT * FANOUT * FANOUT * FANOUT - 1)

\* the tables t, five pages, no two the same
Five(t) == t \in [0 .. 4 -> Pages] /\ \A i, j \in 0 .. 4 : t[i] = t[j] => i = j

\* the upper levels of t are linked in m, and nothing else is in them
Tree(m, t) ==
    \A i \in Index :
        /\ m[t[0]][i] = IF i = 0 THEN Entry(t[1], PWU) ELSE Entry(0, {})
        /\ m[t[1]][i] = IF i = 0 THEN Entry(t[2], PWU) ELSE Entry(0, {})
        /\ m[t[2]][i] = IF i = 0 THEN Entry(t[3], PWU)
                        ELSE IF i = 1 THEN Entry(t[4], PWU) ELSE Entry(0, {})

\* the table and the entry that page v ends in
LeafTable(t, v) == IF v < FANOUT THEN t[3] ELSE t[4]
LeafIndex(v) == IF v < FANOUT THEN v ELSE v - FANOUT
Leaf(m, t, v) == m[LeafTable(t, v)][LeafIndex(v)]

KernelLeaf(v) == IF v < NPAGES THEN Entry(v, PWU) ELSE Entry(0, {})
LowLeaf(v) == Entry(v, IF v = ConsolePage THEN PWU ELSE PW)

KernelTree(m) == Tree(m, KERNEL) /\ \A v \in Reach : Leaf(m, KERNEL, v) = KernelLeaf(v)

High == PROC_START .. (MAPTOP - 1)
Present(e) == "P" \in e.flags

\* the tables of p: low memory for the kernel and the console, above it pages
\* of p's own, no table among them and none at two places
ProcTree(m, o, t, p) ==
    /\ Five(t) /\ Tree(m, t)
    /\ \A k \in 0 .. 4 : o[t[k]] = p
    /\ \A v \in 0 .. (PROC_START - 1) : Leaf(m, t, v) = LowLeaf(v)
    /\ \A v \in High : Present(Leaf(m, t, v)) =>
          /\ Leaf(m, t, v).flags \in {PWU, PU}
          /\ o[Leaf(m, t, v).pa] = p
          /\ \A k \in 0 .. 4 : Leaf(m, t, v).pa # t[k]
          /\ \A w \in High : Present(Leaf(m, t, w)) /\ Leaf(m, t, w).pa = Leaf(m, t, v).pa
                               => w = v

\* the temporary table
RebootTree(m) ==
    /\ m[RebootTable][0] = Entry(RebootTable + 1, PWU)
    /\ m[RebootTable + 1][0] = Entry(RebootTable + 2, PWU)
    /\ m[RebootTable + 2][0] = Entry(0, PWU \cup {"PS"})

Kernels == Reserved \cup KernelPages

Trees(m, o, ts) ==
    /\ KernelTree(m)
    /\ \A p \in Procs : ts[p] # NoTables => ProcTree(m, o, ts[p], p)

\* the inductive invariant: which table is loaded in which mode, and that all
\* tables in use have their form
Inv ==
    /\ TypeOK /\ mode # "assert"
    /\ \A n \in Kernels : owner[n] = "kernel"
    /\ mode = "boot" => cr3 = RebootTable /\ RebootTree(mem)
    /\ mode # "boot" => Trees(mem, owner, pt)
    /\ mode \in {"kernel", "panic"} => cr3 = kernel_pagetable
    /\ mode = "user" => \E p \in Procs : pt[p] # NoTables /\ cr3 = pt[p][0]

-----------------------------------------------------------------------------
(* Layout and indices *)

\* The layout that PageTableAssumption gives.
LEMMA Layout ==
    /\ FANOUT \in Nat \ {0, 1} /\ NPAGES \in Nat /\ PROC_START \in Nat \ {0}
    /\ MAPTOP \in Nat /\ MAPTOP = FANOUT + FANOUT
    /\ NPAGES <= MAPTOP /\ PROC_START < NPAGES /\ PROC_START <= FANOUT
    /\ Kernels \subseteq Pages /\ \A n \in Kernels : n \in Nat /\ n < PROC_START
    /\ KernelPages \subseteq Kernels /\ 0 \in Kernels
    /\ ConsolePage \in Pages /\ ConsolePage \in Kernels /\ ConsolePage \notin KernelPages
    /\ VPages # {} /\ VPages \subseteq Addresses
    /\ UserPages \subseteq VPages /\ \A v \in UserPages : v \in Nat /\ v >= PROC_START
    /\ "free" \notin Procs /\ "kernel" \notin Procs
    /\ 0 \in Pages /\ PROC_START \in Pages /\ Pages \subseteq Nat
    /\ \A v \in Pages : v \in Nat /\ v < NPAGES
    /\ 0 \in Index /\ 1 \in Index
<1>1. /\ FANOUT \in Nat \ {0, 1} /\ NPAGES \in 0 .. MAPTOP
      /\ PROC_START \in 1 .. (NPAGES - 1) /\ PROC_START <= FANOUT
      /\ Kernels \subseteq 0 .. (PROC_START - 1)
      /\ KernelPages \cap Reserved = {} /\ {0, ConsolePage} \subseteq Reserved
      /\ VPages # {} /\ VPages \subseteq Addresses
      /\ UserPages \subseteq VPages \ 0 .. (PROC_START - 1)
      /\ Procs \cap {"free", "kernel"} = {}
  BY PageTableAssumption DEF Kernels, Addresses
<1>2. MAPTOP \in Nat /\ MAPTOP = FANOUT + FANOUT
  BY <1>1 DEF MAPTOP
<1>3. /\ NPAGES \in Nat /\ PROC_START \in Nat \ {0}
      /\ NPAGES <= MAPTOP /\ PROC_START < NPAGES
  BY <1>1, <1>2
<1>4. \A v \in UserPages : v \in Nat /\ v >= PROC_START
  <2> TAKE v \in UserPages
  <2>1. v \in Addresses /\ v \notin 0 .. (PROC_START - 1)
    BY <1>1
  <2>2. v \in Nat
    BY <2>1 DEF Addresses
  <2> QED BY <1>3, <2>1, <2>2
<1>5. Kernels \subseteq Pages /\ \A n \in Kernels : n \in Nat /\ n < PROC_START
  BY <1>1, <1>3 DEF Pages
<1>6. KernelPages \subseteq Kernels /\ 0 \in Kernels
      /\ ConsolePage \in Kernels /\ ConsolePage \notin KernelPages
  BY <1>1 DEF Kernels
<1>7. 0 \in Pages /\ PROC_START \in Pages /\ Pages \subseteq Nat
      /\ (\A v \in Pages : v \in Nat /\ v < NPAGES) /\ 0 \in Index /\ 1 \in Index
  BY <1>1, <1>3 DEF Pages, Index
<1> QED BY <1>1, <1>2, <1>3, <1>4, <1>5, <1>6, <1>7

\* The five tables of the kernel.
LEMMA KernelLayout ==
    /\ Five(KERNEL) /\ KERNEL[0] = kernel_pagetable
    /\ \A k \in 0 .. 4 : KERNEL[k] \in KernelPages
<1>1. KernelTables \in Nat /\ KernelTables .. KernelTables + 4 \subseteq KernelPages
  BY PageTableAssumption
<1>2. \A k \in 0 .. 4 : KERNEL[k] = KernelTables + k /\ KERNEL[k] \in KernelPages
  BY <1>1 DEF KERNEL
<1>3. KERNEL \in [0 .. 4 -> Pages]
  BY <1>2, Layout DEF KERNEL
<1>4. \A i, j \in 0 .. 4 : KERNEL[i] = KERNEL[j] => i = j
  BY <1>1, <1>2
<1>5. KERNEL[0] = kernel_pagetable
  BY <1>1, <1>2 DEF kernel_pagetable
<1> QED BY <1>2, <1>3, <1>4, <1>5 DEF Five

\* A quotient by n is below k when the number is below n * k.
LEMMA DivBound ==
    ASSUME NEW y \in Nat, NEW n \in Nat \ {0}, NEW k \in Nat, y < n * k
    PROVE  y \div n \in Nat /\ y \div n < k
<1>1. y \div n \in Nat /\ y % n >= 0 /\ y % n \in Int /\ y = n * (y \div n) + (y % n)
  BY DivMod
<1> DEFINE q == y \div n
           r == y % n
<1> HIDE DEF q, r
<1>2. q \in Nat /\ r \in Int /\ r >= 0 /\ y = n * q + r
  BY <1>1 DEF q, r
<1>3. ASSUME q >= k PROVE FALSE
  <2>1. n * k <= n * q /\ n * k \in Nat /\ n * q \in Nat
    BY <1>2, <1>3, MulMono
  <2> QED BY <1>2, <2>1
<1> QED BY <1>2, <1>3 DEF q

\* A quotient of zero means a number below the divisor.
LEMMA DivZero ==
    ASSUME NEW y \in Nat, NEW n \in Nat \ {0}
    PROVE  y \div n = 0 <=> y < n
<1>1. ASSUME y \div n = 0 PROVE y < n
  <2>1. y % n \in 0 .. (n - 1) /\ y = n * 0 + (y % n)
    BY <1>1, DivMod
  <2> QED BY <2>1
<1>2. ASSUME y < n PROVE y \div n = 0
  <2>1. y < n * 1
    BY <1>2
  <2> QED BY <2>1, DivBound
<1> QED BY <1>1, <1>2

\* The powers of FANOUT.
LEMMA Powers ==
    LET f2 == FANOUT * FANOUT
        f3 == FANOUT * FANOUT * FANOUT
        f4 == FANOUT * FANOUT * FANOUT * FANOUT
    IN  /\ f2 \in Nat \ {0} /\ f3 \in Nat \ {0} /\ f4 \in Nat \ {0}
        /\ f3 = f2 * FANOUT /\ f4 = f3 * FANOUT
        /\ MAPTOP <= f2 /\ MAPTOP <= f3 /\ MAPTOP <= f4
<1>1. FANOUT \in Nat /\ FANOUT >= 2 /\ MAPTOP = FANOUT + FANOUT
  BY Layout
<1> DEFINE f2 == FANOUT * FANOUT
           f3 == f2 * FANOUT
           f4 == f3 * FANOUT
<1>2. f2 \in Nat /\ FANOUT * 2 <= f2
  BY <1>1, MulMono
<1> HIDE DEF f2
<1>3. f2 * 1 <= f3 /\ f3 \in Nat
  BY <1>1, <1>2, MulMono
<1> HIDE DEF f3
<1>4. f3 * 1 <= f4 /\ f4 \in Nat
  BY <1>1, <1>3, MulMono
<1> HIDE DEF f4
<1>5. MAPTOP <= f2 /\ MAPTOP <= f3 /\ MAPTOP <= f4 /\ f2 # 0 /\ f3 # 0 /\ f4 # 0
  BY <1>1, <1>2, <1>3, <1>4
<1> QED BY <1>2, <1>3, <1>4, <1>5 DEF f2, f3, f4

\* The index of level 3 and of an address within reach of the tables.
LEMMA IndexLow ==
    ASSUME NEW v \in Reach
    PROVE  /\ PAGEINDEX(v, 0) = 0 /\ PAGEINDEX(v, 1) = 0
           /\ PAGEINDEX(v, 2) = IF v < FANOUT THEN 0 ELSE 1
           /\ PAGEINDEX(v, 3) = LeafIndex(v)
           /\ v \div FANOUT = IF v < FANOUT THEN 0 ELSE 1
           /\ LeafIndex(v) \in Index
<1>1. v \in Nat /\ v < MAPTOP /\ FANOUT \in Nat \ {0, 1} /\ MAPTOP = FANOUT + FANOUT
  BY Layout DEF Reach
<1> DEFINE f2 == FANOUT * FANOUT
           f3 == FANOUT * FANOUT * FANOUT
<1>2. f2 \in Nat \ {0} /\ f3 \in Nat \ {0} /\ v < f2 /\ v < f3
  BY <1>1, Powers
<1>3. 0 % FANOUT = 0
  BY <1>1, ModSmall
<1>4. PAGEINDEX(v, 0) = (v \div f3) % FANOUT
  BY DEF PAGEINDEX, Span
<1>5. PAGEINDEX(v, 1) = (v \div f2) % FANOUT
  BY DEF PAGEINDEX, Span
<1>6. PAGEINDEX(v, 2) = (v \div FANOUT) % FANOUT
  BY DEF PAGEINDEX, Span
<1>7. PAGEINDEX(v, 3) = v % FANOUT
  BY <1>1 DEF PAGEINDEX, Span
<1> HIDE DEF f2, f3
<1>8. v \div f3 = 0 /\ v \div f2 = 0
  BY <1>1, <1>2, DivZero
<1>9. v \div FANOUT = IF v < FANOUT THEN 0 ELSE 1
  <2>1. v \div FANOUT = 0 <=> v < FANOUT
    BY <1>1, DivZero
  <2>2. v < FANOUT * 2
    BY <1>1
  <2>3. v \div FANOUT \in Nat /\ v \div FANOUT < 2
    BY <1>1, <2>2, DivBound
  <2> QED BY <2>1, <2>3
<1>10. v = FANOUT * (v \div FANOUT) + (v % FANOUT) /\ v % FANOUT \in 0 .. (FANOUT - 1)
  BY <1>1, DivMod
<1>11. v % FANOUT = LeafIndex(v)
  <2>1. CASE v < FANOUT
    BY <1>1, <1>9, <1>10, <2>1 DEF LeafIndex
  <2>2. CASE ~(v < FANOUT)
    BY <1>1, <1>9, <1>10, <2>2 DEF LeafIndex
  <2> QED BY <2>1, <2>2
<1>12. 1 % FANOUT = 1
  BY <1>1, ModSmall
<1>13. PAGEINDEX(v, 2) = IF v < FANOUT THEN 0 ELSE 1
  BY <1>3, <1>6, <1>9, <1>12
<1> QED BY <1>3, <1>4, <1>5, <1>7, <1>8, <1>9, <1>10, <1>11, <1>13 DEF Index

\* Every index is one of a table's.
LEMMA IndexType ==
    ASSUME NEW v \in Nat
    PROVE  \A level \in 0 .. 3 : PAGEINDEX(v, level) \in Index
<1> TAKE level \in 0 .. 3
<1>1. Span[level + 1] \in Nat \ {0}
  BY Powers, Layout DEF Span
<1>2. v \div Span[level + 1] \in Nat
  BY <1>1, DivMod
<1>3. (v \div Span[level + 1]) % FANOUT \in 0 .. (FANOUT - 1)
  BY <1>2, Layout, DivMod
<1> QED BY <1>3 DEF PAGEINDEX, Index

\* Beyond the reach of the tables, some level has an index that is not linked.
LEMMA IndexHigh ==
    ASSUME NEW v \in Addresses, v \notin Reach
    PROVE  PAGEINDEX(v, 0) # 0 \/ PAGEINDEX(v, 1) # 0 \/ PAGEINDEX(v, 2) \notin {0, 1}
<1>1. FANOUT \in Nat \ {0, 1} /\ MAPTOP = FANOUT + FANOUT /\ MAPTOP \in Nat
  BY Layout
<1> DEFINE f2 == FANOUT * FANOUT
           f3 == FANOUT * FANOUT * FANOUT
           f4 == FANOUT * FANOUT * FANOUT * FANOUT
<1>2. f2 \in Nat \ {0} /\ f3 \in Nat \ {0} /\ f4 \in Nat \ {0}
      /\ f3 = f2 * FANOUT /\ f4 = f3 * FANOUT
  BY <1>1, Powers
<1>3. v \in Nat /\ v < f4 /\ v >= MAPTOP
  BY <1>1, <1>2 DEF Addresses, Reach
<1>4. PAGEINDEX(v, 0) = (v \div f3) % FANOUT
  BY DEF PAGEINDEX, Span
<1>5. PAGEINDEX(v, 1) = (v \div f2) % FANOUT
  BY DEF PAGEINDEX, Span
<1>6. PAGEINDEX(v, 2) = (v \div FANOUT) % FANOUT
  BY DEF PAGEINDEX, Span
<1>d. f2 = FANOUT * FANOUT
  OBVIOUS
<1> HIDE DEF f2, f3, f4
<1> SUFFICES ASSUME PAGEINDEX(v, 0) = 0, PAGEINDEX(v, 1) = 0, PAGEINDEX(v, 2) \in {0, 1}
             PROVE  FALSE
  OBVIOUS
<1>7. v < f3
  <2>1. v \div f3 \in Nat /\ v \div f3 < FANOUT
    BY <1>1, <1>2, <1>3, DivBound
  <2>2. v \div f3 = 0
    BY <1>1, <1>4, <2>1, ModSmall
  <2> QED BY <1>2, <1>3, <2>2, DivZero
<1>8. v < f2
  <2>1. v \div f2 \in Nat /\ v \div f2 < FANOUT
    BY <1>1, <1>2, <1>3, <1>7, DivBound
  <2>2. v \div f2 = 0
    BY <1>1, <1>5, <2>1, ModSmall
  <2> QED BY <1>2, <1>3, <2>2, DivZero
<1>9. v \div FANOUT \in Nat /\ v \div FANOUT < FANOUT
  BY <1>1, <1>3, <1>8, <1>d, DivBound
<1>10. v \div FANOUT \in {0, 1}
  BY <1>1, <1>6, <1>9, ModSmall
<1>11. v = FANOUT * (v \div FANOUT) + (v % FANOUT) /\ v % FANOUT \in 0 .. (FANOUT - 1)
  BY <1>1, <1>3, DivMod
<1>12. CASE v \div FANOUT = 0
  BY <1>1, <1>3, <1>11, <1>12
<1>13. CASE v \div FANOUT = 1
  BY <1>1, <1>3, <1>11, <1>13
<1> QED BY <1>10, <1>12, <1>13

-----------------------------------------------------------------------------
(* Walks *)

\* What the links of a Tree are at the levels of an address within reach.
LEMMA Links ==
    ASSUME NEW m, NEW t, Tree(m, t), NEW v \in Reach
    PROVE  /\ entry_at(m, t[0], v, 0) = Entry(t[1], PWU)
           /\ entry_at(m, t[1], v, 1) = Entry(t[2], PWU)
           /\ entry_at(m, t[2], v, 2) = Entry(LeafTable(t, v), PWU)
           /\ entry_at(m, LeafTable(t, v), v, 3) = Leaf(m, t, v)
<1>1. 0 \in Index /\ 1 \in Index
  BY Layout
<1>2. entry_at(m, t[0], v, 0) = Entry(t[1], PWU)
  BY <1>1, IndexLow, Zenon DEF Tree, entry_at
<1>3. entry_at(m, t[1], v, 1) = Entry(t[2], PWU)
  BY <1>1, IndexLow, Zenon DEF Tree, entry_at
<1>4. entry_at(m, t[2], v, 2) = Entry(LeafTable(t, v), PWU)
  <2>1. m[t[2]][0] = Entry(t[3], PWU) /\ m[t[2]][1] = Entry(t[4], PWU)
    BY <1>1 DEF Tree
  <2>2. PAGEINDEX(v, 2) = IF v < FANOUT THEN 0 ELSE 1
    BY IndexLow
  <2> QED BY <2>1, <2>2 DEF entry_at, LeafTable
<1>5. entry_at(m, LeafTable(t, v), v, 3) = Leaf(m, t, v)
  BY IndexLow DEF entry_at, Leaf
<1> QED BY <1>2, <1>3, <1>4, <1>5

\* The walk of lookup_l4pagetable ends at the leaf table, and no level on its
\* way refuses a right.
LEMMA L4Low ==
    ASSUME NEW m, NEW t, Five(t), Tree(m, t), NEW v \in Reach
    PROVE  /\ lookup_l4pagetable(m, t[0], v) = LeafTable(t, v)
           /\ rights_granted(m, t[0], v, PWU)
<1>0. /\ entry_at(m, t[0], v, 0) = Entry(t[1], PWU)
      /\ entry_at(m, t[1], v, 1) = Entry(t[2], PWU)
      /\ entry_at(m, t[2], v, 2) = Entry(LeafTable(t, v), PWU)
      /\ entry_at(m, LeafTable(t, v), v, 3) = Leaf(m, t, v)
  BY Links, Zenon
<1>1. \A k \in 0 .. 4 : t[k] # NULL
  BY Layout DEF Five, NULL
<1>2. next_table(m, t[0], v, 0) = t[1]
  BY <1>1, <1>0, 0 \in 0 .. 4 DEF next_table, Entry, PWU
<1>3. next_table(m, t[1], v, 1) = t[2]
  BY <1>1, <1>0, 1 \in 0 .. 4 DEF next_table, Entry, PWU
<1>4. next_table(m, t[2], v, 2) = LeafTable(t, v)
  BY <1>1, <1>0, 2 \in 0 .. 4 DEF next_table, Entry, PWU
<1>5. lookup_l4pagetable(m, t[0], v) = LeafTable(t, v)
  BY <1>2, <1>3, <1>4 DEF lookup_l4pagetable
<1>6. /\ entry_at(m, t[0], v, 0).flags = PWU /\ entry_at(m, t[1], v, 1).flags = PWU
      /\ entry_at(m, t[2], v, 2).flags = PWU
  BY <1>0 DEF Entry
<1>7. rights_granted(m, t[0], v, PWU)
  BY <1>2, <1>3, <1>6 DEF rights_granted, WU
<1> QED BY <1>5, <1>7

\* what is left of the flags g below an entry with the flags f: in a lookup, and
\* for the processor
Masked(g, f) == g \ (f \cap WU)
Granted(g, f) == g \cap (f \cup {"PS"})

\* One level of a lookup, from an entry that is present.
LEMMA LookupStep ==
    ASSUME NEW m, NEW a, NEW f, "P" \in f, NEW v, NEW level, NEW b, NEW g,
           entry_at(m, a, v, level) = Entry(b, g)
    PROVE  lookup_level(m, Entry(a, f), v, level) = Entry(b, Masked(g, f))
<1>1. /\ Entry(a, f).pa = a /\ Entry(a, f).flags = f
      /\ Entry(b, g).pa = b /\ Entry(b, g).flags = g
  BY DEF Entry
<1> QED BY <1>1, Zenon DEF lookup_level, Masked

\* One level of the processor's walk that meets no large page.
LEMMA WalkStep ==
    ASSUME NEW m, NEW a, NEW f, "P" \in f, "PS" \notin f, NEW v, NEW level, NEW b, NEW g,
           entry_at(m, a, v, level) = Entry(b, g)
    PROVE  walk_level(m, Entry(a, f), v, level) = Entry(b, Granted(g, f))
<1>1. /\ Entry(a, f).pa = a /\ Entry(a, f).flags = f
      /\ Entry(b, g).pa = b /\ Entry(b, g).flags = g
  BY DEF Entry
<1> QED BY <1>1, Zenon DEF walk_level, Granted

\* The flags of the upper levels.
LEMMA FlagsAre ==
    /\ "P" \in PWU /\ "PS" \notin PWU /\ "P" \in {"P"}
    /\ Masked(PWU, PWU) = {"P"} /\ Masked(PWU, {"P"}) = PWU /\ Granted(PWU, PWU) = PWU
    /\ Granted(PWU \cup {"PS"}, PWU) = PWU \cup {"PS"}
  BY DEF PWU, WU, Masked, Granted

\* Lookup and processor find the leaf.
LEMMA WalkLow ==
    ASSUME NEW m, NEW t, Tree(m, t), NEW v \in Reach
    PROVE  /\ virtual_memory_lookup(m, t[0], v) = found(Leaf(m, t, v))
           /\ Leaf(m, t, v).flags \subseteq PTE => translate(m, t[0], v) = found(Leaf(m, t, v))
<1> DEFINE e == Leaf(m, t, v)
           l0 == lookup_level(m, Entry(t[0], PWU), v, 0)
           l1 == lookup_level(m, l0, v, 1)
           l2 == lookup_level(m, l1, v, 2)
           l3 == lookup_level(m, l2, v, 3)
           w0 == walk_level(m, Entry(t[0], PWU), v, 0)
           w1 == walk_level(m, w0, v, 1)
           w2 == walk_level(m, w1, v, 2)
           w3 == walk_level(m, w2, v, 3)
<1>0. /\ entry_at(m, t[0], v, 0) = Entry(t[1], PWU)
      /\ entry_at(m, t[1], v, 1) = Entry(t[2], PWU)
      /\ entry_at(m, t[2], v, 2) = Entry(LeafTable(t, v), PWU)
      /\ entry_at(m, LeafTable(t, v), v, 3) = Leaf(m, t, v)
  BY Links, Zenon
<1>1. l0 = Entry(t[1], {"P"})
  BY <1>0, FlagsAre, LookupStep
<1>2. l1 = Entry(t[2], PWU)
  BY <1>0, <1>1, FlagsAre, LookupStep
<1>3. l2 = Entry(LeafTable(t, v), {"P"})
  BY <1>0, <1>2, FlagsAre, LookupStep
<1>4. l3 = Entry(e.pa, e.flags)
  <2>1. Entry(LeafTable(t, v), {"P"}).pa = LeafTable(t, v)
        /\ Entry(LeafTable(t, v), {"P"}).flags = {"P"}
    BY DEF Entry
  <2>2. l3 = Entry(e.pa, e.flags \ ({"P"} \cap WU))
    BY <1>0, <1>3, <2>1, ZenonT(60) DEF lookup_level
  <2>3. e.flags \ ({"P"} \cap WU) = e.flags
    BY DEF WU
  <2> QED BY <2>2, <2>3
<1>5. virtual_memory_lookup(m, t[0], v) = found(e)
  <2>1. virtual_memory_lookup(m, t[0], v) = found(l3)
    BY DEF virtual_memory_lookup
  <2> QED BY <1>4, <2>1 DEF found, Entry
<1>6. ASSUME e.flags \subseteq PTE PROVE translate(m, t[0], v) = found(e)
  <2>1. w0 = Entry(t[1], PWU)
    BY <1>0, FlagsAre, WalkStep
  <2>2. w1 = Entry(t[2], PWU)
    BY <1>0, <2>1, FlagsAre, WalkStep
  <2>3. w2 = Entry(LeafTable(t, v), PWU)
    BY <1>0, <2>2, FlagsAre, WalkStep
  <2>4. w3 = Entry(e.pa, e.flags \cap (PWU \cup {"PS"}))
    <3>1. Entry(LeafTable(t, v), PWU).pa = LeafTable(t, v)
          /\ Entry(LeafTable(t, v), PWU).flags = PWU /\ "P" \in PWU /\ "PS" \notin PWU
      BY DEF Entry, PWU
    <3> DEFINE pe == Entry(LeafTable(t, v), PWU)
    <3>2. walk_level(m, pe, v, 3) = LET x == entry_at(m, pe.pa, v, 3)
                                    IN  Entry(x.pa, x.flags \cap (pe.flags \cup {"PS"}))
      BY <3>1 DEF walk_level
    <3>3. entry_at(m, pe.pa, v, 3) = e /\ pe.flags = PWU
      BY <1>0, <3>1
    <3> HIDE DEF pe
    <3>4. walk_level(m, pe, v, 3) = Entry(e.pa, e.flags \cap (PWU \cup {"PS"}))
      BY <3>2, <3>3
    <3> QED BY <2>3, <3>4 DEF pe
  <2>5. e.flags \cap (PWU \cup {"PS"}) = e.flags
    BY <1>6 DEF PTE, PWU
  <2>6. translate(m, t[0], v) = found(w3)
    BY DEF translate
  <2> QED BY <2>4, <2>5, <2>6 DEF found, Entry
<1> QED BY <1>5, <1>6

\* Beyond the reach of the tables nothing is found, and no level refuses a right.
LEMMA WalkHigh ==
    ASSUME NEW m, NEW t, Five(t), Tree(m, t), NEW v \in Addresses, v \notin Reach
    PROVE  /\ virtual_memory_lookup(m, t[0], v) = [pn |-> -1, perm |-> {}]
           /\ translate(m, t[0], v) = [pn |-> -1, perm |-> {}]
           /\ lookup_l4pagetable(m, t[0], v) = NULL
           /\ rights_granted(m, t[0], v, PWU)
<1> DEFINE i0 == PAGEINDEX(v, 0)
           i1 == PAGEINDEX(v, 1)
           i2 == PAGEINDEX(v, 2)
<1>1. i0 \in Index /\ i1 \in Index /\ i2 \in Index
  <2>1. v \in Nat
    BY DEF Addresses
  <2> QED BY <2>1, IndexType
<1>2. entry_at(m, t[0], v, 0) = IF i0 = 0 THEN Entry(t[1], PWU) ELSE Entry(0, {})
  BY <1>1, Zenon DEF Tree, entry_at
<1>3. entry_at(m, t[1], v, 1) = IF i1 = 0 THEN Entry(t[2], PWU) ELSE Entry(0, {})
  BY <1>1, Zenon DEF Tree, entry_at
<1>4. entry_at(m, t[2], v, 2) = IF i2 = 0 THEN Entry(t[3], PWU)
                                ELSE IF i2 = 1 THEN Entry(t[4], PWU) ELSE Entry(0, {})
  BY <1>1, Zenon DEF Tree, entry_at
<1>5. i0 # 0 \/ i1 # 0 \/ i2 \notin {0, 1}
  BY IndexHigh
<1>6. t[0] # NULL /\ t[1] # NULL /\ t[2] # NULL
  BY Layout DEF Five, NULL
<1> HIDE DEF i0, i1, i2
<1>7. CASE i0 # 0
  <2>1. entry_at(m, t[0], v, 0) = Entry(0, {})
    BY <1>2, <1>7
  <2>2. next_table(m, t[0], v, 0) = NULL
    BY <2>1 DEF next_table, Entry
  <2>3. \A l : next_table(m, NULL, v, l) = NULL
    BY DEF next_table
  <2>4. lookup_level(m, Entry(t[0], PWU), v, 0) = Entry(0, {})
        /\ walk_level(m, Entry(t[0], PWU), v, 0) = Entry(0, {})
    BY <2>1 DEF lookup_level, walk_level, Entry, PWU
  <2>5. \A l : lookup_level(m, Entry(0, {}), v, l) = Entry(0, {})
               /\ walk_level(m, Entry(0, {}), v, l) = Entry(0, {})
    BY DEF lookup_level, walk_level, Entry
  <2>6. found(Entry(0, {})) = [pn |-> -1, perm |-> {}]
    BY DEF found, Entry
  <2>7. lookup_l4pagetable(m, t[0], v) = NULL
    BY <2>2, <2>3 DEF lookup_l4pagetable
  <2>8. rights_granted(m, t[0], v, PWU)
    BY <2>2, <2>3 DEF rights_granted
  <2> QED BY <2>4, <2>5, <2>6, <2>7, <2>8 DEF virtual_memory_lookup, translate
<1>8. CASE i0 = 0 /\ i1 # 0
  <2>1. entry_at(m, t[0], v, 0) = Entry(t[1], PWU) /\ entry_at(m, t[1], v, 1) = Entry(0, {})
    BY <1>2, <1>3, <1>8
  <2>2. next_table(m, t[0], v, 0) = t[1] /\ next_table(m, t[1], v, 1) = NULL
    BY <1>6, <2>1 DEF next_table, Entry, PWU
  <2>3. \A l : next_table(m, NULL, v, l) = NULL
    BY DEF next_table
  <2>4. /\ lookup_level(m, Entry(t[0], PWU), v, 0) = Entry(t[1], {"P"})
        /\ lookup_level(m, Entry(t[1], {"P"}), v, 1) = Entry(0, {})
        /\ walk_level(m, Entry(t[0], PWU), v, 0) = Entry(t[1], PWU)
        /\ walk_level(m, Entry(t[1], PWU), v, 1) = Entry(0, {})
    BY <2>1 DEF lookup_level, walk_level, Entry, PWU, WU
  <2>5. \A l : lookup_level(m, Entry(0, {}), v, l) = Entry(0, {})
               /\ walk_level(m, Entry(0, {}), v, l) = Entry(0, {})
    BY DEF lookup_level, walk_level, Entry
  <2>6. found(Entry(0, {})) = [pn |-> -1, perm |-> {}]
    BY DEF found, Entry
  <2>7. lookup_l4pagetable(m, t[0], v) = NULL
    BY <2>2, <2>3 DEF lookup_l4pagetable
  <2>8. rights_granted(m, t[0], v, PWU)
    <3>1. entry_at(m, t[0], v, 0).flags = PWU
      BY <2>1 DEF Entry
    <3> QED BY <2>2, <2>3, <3>1 DEF rights_granted
  <2> QED BY <2>4, <2>5, <2>6, <2>7, <2>8 DEF virtual_memory_lookup, translate
<1>9. CASE i0 = 0 /\ i1 = 0 /\ i2 \notin {0, 1}
  <2>1. /\ entry_at(m, t[0], v, 0) = Entry(t[1], PWU) /\ entry_at(m, t[1], v, 1) = Entry(t[2], PWU)
        /\ entry_at(m, t[2], v, 2) = Entry(0, {})
    BY <1>2, <1>3, <1>4, <1>9
  <2>2. /\ next_table(m, t[0], v, 0) = t[1] /\ next_table(m, t[1], v, 1) = t[2]
        /\ next_table(m, t[2], v, 2) = NULL
    BY <1>6, <2>1 DEF next_table, Entry, PWU
  <2>4. /\ lookup_level(m, Entry(t[0], PWU), v, 0) = Entry(t[1], {"P"})
        /\ lookup_level(m, Entry(t[1], {"P"}), v, 1) = Entry(t[2], PWU)
        /\ lookup_level(m, Entry(t[2], PWU), v, 2) = Entry(0, {})
    BY <2>1 DEF lookup_level, Entry, PWU, WU
  <2>5. /\ walk_level(m, Entry(t[0], PWU), v, 0) = Entry(t[1], PWU)
        /\ walk_level(m, Entry(t[1], PWU), v, 1) = Entry(t[2], PWU)
        /\ walk_level(m, Entry(t[2], PWU), v, 2) = Entry(0, {})
    BY <2>1 DEF walk_level, Entry, PWU, WU
  <2>6. \A l : lookup_level(m, Entry(0, {}), v, l) = Entry(0, {})
               /\ walk_level(m, Entry(0, {}), v, l) = Entry(0, {})
    BY DEF lookup_level, walk_level, Entry
  <2>7. found(Entry(0, {})) = [pn |-> -1, perm |-> {}]
    BY DEF found, Entry
  <2>8. lookup_l4pagetable(m, t[0], v) = NULL
    BY <2>2 DEF lookup_l4pagetable
  <2>9. rights_granted(m, t[0], v, PWU)
    <3>1. entry_at(m, t[0], v, 0).flags = PWU /\ entry_at(m, t[1], v, 1).flags = PWU
      BY <2>1 DEF Entry
    <3> QED BY <2>2, <3>1 DEF rights_granted
  <2> QED BY <2>4, <2>5, <2>6, <2>7, <2>8, <2>9 DEF virtual_memory_lookup, translate
<1> QED BY <1>5, <1>7, <1>8, <1>9

-----------------------------------------------------------------------------
(* virtual_memory_map *)

\* the entry that virtual_memory_map makes for page v
Made(va, pa, perm, v) == Entry(IF "P" \in perm THEN pa + (v - va) ELSE 0, perm)

\* m once i pages from va on are mapped in the tables t
Mapped(m, t, va, pa, i, perm) ==
    [n \in Pages |->
        IF n = t[3] \/ n = t[4]
        THEN [j \in Index |->
                LET v == IF n = t[3] THEN j ELSE FANOUT + j
                IN  IF va <= v /\ v < va + i THEN Made(va, pa, perm, v) ELSE m[n][j]]
        ELSE m[n]]

\* Two functions that follow the same recursion up to n agree there.
LEMMA SameRecursion ==
    ASSUME NEW n \in Nat, NEW f, NEW g, f[0] = g[0],
           \A i \in 1 .. n : f[i - 1] = g[i - 1] => f[i] = g[i]
    PROVE  f[n] = g[n]
<1> DEFINE S == {i \in 0 .. n : f[i] # g[i]}
<1> SUFFICES ASSUME S # {} PROVE FALSE
  OBVIOUS
<1>1. S \in SUBSET Nat
  OBVIOUS
<1>2. PICK x \in S : \A y \in S : x <= y
  BY <1>1, LeastExists
<1>3. x \in 1 .. n
  BY <1>2
<1>4. x - 1 \in 0 .. n /\ ~(x <= x - 1)
  BY <1>3
<1>5. f[x - 1] = g[x - 1]
  BY <1>2, <1>4
<1> QED BY <1>2, <1>3, <1>5

\* The tables above the leaves are not touched, the leaves of the range are
\* what was asked for, the others and all other pages what they were.
LEMMA MappedTree ==
    ASSUME NEW m \in Memory, NEW t, Five(t), NEW va \in Nat, NEW pa \in Nat, NEW i \in Nat,
           NEW perm
    PROVE  /\ \A n \in Pages : n # t[3] /\ n # t[4] => Mapped(m, t, va, pa, i, perm)[n] = m[n]
           /\ Tree(m, t) => Tree(Mapped(m, t, va, pa, i, perm), t)
           /\ \A v \in Reach :
                 Leaf(Mapped(m, t, va, pa, i, perm), t, v) =
                    IF va <= v /\ v < va + i THEN Made(va, pa, perm, v) ELSE Leaf(m, t, v)
<1> DEFINE M == Mapped(m, t, va, pa, i, perm)
<1>1. \A n \in Pages : n # t[3] /\ n # t[4] => M[n] = m[n]
  BY DEF Mapped
<1>2. /\ t[0] \in Pages /\ t[1] \in Pages /\ t[2] \in Pages /\ t[3] \in Pages /\ t[4] \in Pages
      /\ t[3] # t[4] /\ t[0] # t[3] /\ t[0] # t[4] /\ t[1] # t[3] /\ t[1] # t[4]
      /\ t[2] # t[3] /\ t[2] # t[4]
  BY DEF Five
<1>3. ASSUME Tree(m, t) PROVE Tree(M, t)
  <2>1. M[t[0]] = m[t[0]] /\ M[t[1]] = m[t[1]] /\ M[t[2]] = m[t[2]]
    BY <1>1, <1>2
  <2> QED BY <1>3, <2>1, Zenon DEF Tree
<1>4. ASSUME NEW v \in Reach
      PROVE  Leaf(M, t, v) =
                IF va <= v /\ v < va + i THEN Made(va, pa, perm, v) ELSE Leaf(m, t, v)
  <2>1. v \in Nat /\ LeafIndex(v) \in Index /\ FANOUT \in Nat
    BY IndexLow, Layout DEF Reach
  <2>2. CASE v < FANOUT
    <3>1. LeafTable(t, v) = t[3] /\ LeafIndex(v) = v
      BY <2>2 DEF LeafTable, LeafIndex
    <3>2. M[t[3]][v] = IF va <= v /\ v < va + i THEN Made(va, pa, perm, v) ELSE m[t[3]][v]
      BY <1>2, <2>1, <3>1 DEF Mapped
    <3> QED BY <3>1, <3>2 DEF Leaf
  <2>3. CASE ~(v < FANOUT)
    <3>1. LeafTable(t, v) = t[4] /\ LeafIndex(v) = v - FANOUT /\ FANOUT + (v - FANOUT) = v
      BY <2>1, <2>3 DEF LeafTable, LeafIndex
    <3>2. M[t[4]][v - FANOUT] = IF va <= v /\ v < va + i THEN Made(va, pa, perm, v)
                                ELSE m[t[4]][v - FANOUT]
      BY <1>2, <2>1, <3>1 DEF Mapped
    <3> QED BY <3>1, <3>2 DEF Leaf
  <2> QED BY <2>2, <2>3
<1> QED BY <1>1, <1>3, <1>4

\* One more entry.
LEMMA MappedOne ==
    ASSUME NEW m \in Memory, NEW t, Five(t), NEW va \in Nat, NEW pa \in Nat, NEW i \in Nat,
           NEW perm, va + i \in Reach
    PROVE  set_entry(Mapped(m, t, va, pa, i, perm), LeafTable(t, va + i), va + i, pa + i, perm)
             = Mapped(m, t, va, pa, i + 1, perm)
<1> DEFINE M == Mapped(m, t, va, pa, i, perm)
           N == Mapped(m, t, va, pa, i + 1, perm)
           w == va + i
           l4 == LeafTable(t, w)
           ix == LeafIndex(w)
           S == set_entry(M, l4, w, pa + i, perm)
<1>1. PAGEINDEX(w, 3) = ix /\ ix \in Index /\ FANOUT \in Nat /\ w \in Nat
  BY IndexLow, Layout
<1>2. t[3] \in Pages /\ t[4] \in Pages /\ t[3] # t[4]
  BY DEF Five
<1>3. Made(va, pa, perm, w) = Entry(IF "P" \in perm THEN pa + i ELSE 0, perm)
  <2>1. pa + (w - va) = pa + i
    OBVIOUS
  <2> QED BY <2>1 DEF Made
<1>4. S = [M EXCEPT ![l4] = [@ EXCEPT ![ix] = Made(va, pa, perm, w)]]
  BY <1>1, <1>3, Zenon DEF set_entry
<1>5. M = [n \in Pages |-> M[n]] /\ N = [n \in Pages |-> N[n]]
  BY DEF Mapped
<1>6. ASSUME NEW n \in Pages PROVE S[n] = N[n]
  <2>1. CASE n # t[3] /\ n # t[4]
    <3>1. M[n] = m[n] /\ N[n] = m[n]
      BY <2>1 DEF Mapped
    <3>2. n # l4
      BY <2>1 DEF LeafTable
    <3>3. S[n] = M[n]
      BY <1>4, <1>5, <3>2
    <3> QED BY <3>1, <3>3
  <2>2. CASE n = t[3] \/ n = t[4]
    <3>1. M[n] = [j \in Index |-> M[n][j]] /\ N[n] = [j \in Index |-> N[n][j]]
      BY <2>2 DEF Mapped
    <3>2. S[n] = IF n = l4 THEN [M[n] EXCEPT ![ix] = Made(va, pa, perm, w)] ELSE M[n]
      BY <1>4, <1>5
    <3>3. ASSUME NEW j \in Index
          PROVE  N[n][j] = IF n = l4 /\ j = ix THEN Made(va, pa, perm, w) ELSE M[n][j]
      <4> DEFINE v == IF n = t[3] THEN j ELSE FANOUT + j
      <4>1. v \in Nat /\ j \in Nat /\ j < FANOUT
        BY <1>1 DEF Index
      <4>2. (n = l4 /\ j = ix) <=> v = w
        BY <1>1, <1>2, <2>2, <4>1 DEF LeafTable, LeafIndex
      <4>3. N[n][j] = IF va <= v /\ v < va + (i + 1) THEN Made(va, pa, perm, v) ELSE m[n][j]
        BY <2>2 DEF Mapped
      <4>4. M[n][j] = IF va <= v /\ v < va + i THEN Made(va, pa, perm, v) ELSE m[n][j]
        BY <2>2 DEF Mapped
      <4> HIDE DEF v, M, N, l4, ix
      <4>5. CASE v = w
        BY <4>1, <4>2, <4>3, <4>5
      <4>6. CASE v # w
        <5>1. (va <= v /\ v < va + (i + 1)) <=> (va <= v /\ v < va + i)
          BY <4>1, <4>6
        <5> QED BY <4>2, <4>3, <4>4, <4>6, <5>1
      <4> QED BY <4>5, <4>6
    <3> HIDE DEF S, N, M, l4, ix
    <3>4. CASE n = l4
      <4>1. S[n] = [j \in Index |-> IF j = ix THEN Made(va, pa, perm, w) ELSE M[n][j]]
        BY <3>1, <3>2, <3>4, <1>1
      <4>2. \A j \in Index : N[n][j] = IF j = ix THEN Made(va, pa, perm, w) ELSE M[n][j]
        BY <3>3, <3>4
      <4> QED BY <3>1, <4>1, <4>2
    <3>5. CASE n # l4
      <4>1. S[n] = M[n]
        BY <3>2, <3>5
      <4>2. \A j \in Index : N[n][j] = M[n][j]
        BY <3>3, <3>5
      <4> QED BY <3>1, <4>1, <4>2
    <3> QED BY <3>4, <3>5
  <2> QED BY <2>1, <2>2
<1>7. S = [n \in Pages |-> S[n]]
  BY <1>4, <1>5
<1> HIDE DEF S, N
<1>8. S = N
  BY <1>5, <1>6, <1>7
<1> QED BY <1>8 DEF S, N

\* The state of the loop of virtual_memory_map after i pages.
LoopState(m, t, va, pa, i, perm) ==
    IF i = 0 THEN [mem |-> m, last |-> -1, l4 |-> NULL, ret |-> 0]
    ELSE [mem |-> Mapped(m, t, va, pa, i, perm), last |-> (va + i - 1) \div FANOUT,
          l4 |-> LeafTable(t, va + i - 1), ret |-> 0]

\* One pass: the table kept from the page before is the right one.
LEMMA LoopPass ==
    ASSUME NEW m \in Memory, NEW t, Five(t), Tree(m, t), NEW va \in Nat, NEW pa \in Nat,
           NEW perm, NEW i \in Nat \ {0}, va + i - 1 \in Reach
    PROVE  map_page(LoopState(m, t, va, pa, i - 1, perm), t[0], va + i - 1, pa + i - 1, perm)
             = LoopState(m, t, va, pa, i, perm)
<1> DEFINE s == LoopState(m, t, va, pa, i - 1, perm)
           v == va + i - 1
           l4 == IF v \div FANOUT # s.last THEN lookup_l4pagetable(s.mem, t[0], v) ELSE s.l4
           M == Mapped(m, t, va, pa, i - 1, perm)
<1>1. i - 1 \in Nat /\ va + (i - 1) = v /\ pa + (i - 1) = pa + i - 1 /\ (i - 1) + 1 = i
      /\ v \in Nat
  OBVIOUS
<1>2. M \in Memory => Five(t) /\ Tree(M, t)
  BY <1>1, MappedTree
<1>3. s.mem = M
  <2>1. CASE i = 1
    <3>1. s.mem = m
      BY <2>1 DEF LoopState
    <3>2. \A w \in Nat : ~(va <= w /\ w < va + (i - 1))
      BY <2>1
    <3>3. \A n \in Pages : M[n] = m[n]
      <4> TAKE n \in Pages
      <4>1. m[n] = [j \in Index |-> m[n][j]]
        BY DEF Memory, Contents
      <4>2. CASE n = t[3] \/ n = t[4]
        <5>1. \A j \in Index : (IF n = t[3] THEN j ELSE FANOUT + j) \in Nat
          BY Layout DEF Index
        <5>2. M[n] = [j \in Index |-> m[n][j]]
          BY <3>2, <4>2, <5>1 DEF Mapped
        <5> QED BY <4>1, <5>2
      <4>3. CASE ~(n = t[3] \/ n = t[4])
        BY <4>3 DEF Mapped
      <4> QED BY <4>2, <4>3
    <3>4. M = [n \in Pages |-> M[n]] /\ m = [n \in Pages |-> m[n]]
      BY DEF Mapped, Memory
    <3> HIDE DEF M
    <3> QED BY <3>1, <3>3, <3>4
  <2>2. CASE i # 1
    BY <2>2 DEF LoopState
  <2> QED BY <2>1, <2>2
<1>4. Tree(M, t)
  BY <1>1, MappedTree
<1>5. l4 = LeafTable(t, v)
  <2>1. CASE v \div FANOUT # s.last
    <3>1. lookup_l4pagetable(M, t[0], v) = LeafTable(t, v)
      BY <1>4, L4Low
    <3> QED BY <1>3, <2>1, <3>1
  <2>2. CASE v \div FANOUT = s.last
    <3>1. v \div FANOUT = IF v < FANOUT THEN 0 ELSE 1
      BY IndexLow
    <3>2. i # 1
      BY <2>2, <3>1 DEF LoopState
    <3>3. s.last = (va + (i - 1) - 1) \div FANOUT /\ s.l4 = LeafTable(t, va + (i - 1) - 1)
      BY <3>2 DEF LoopState
    <3>4. va + (i - 1) - 1 \in Reach
      BY <1>1, <3>2, Layout DEF Reach
    <3>5. (va + (i - 1) - 1) \div FANOUT = IF va + (i - 1) - 1 < FANOUT THEN 0 ELSE 1
      BY <3>4, IndexLow
    <3>6. LeafTable(t, va + (i - 1) - 1) = LeafTable(t, v)
      BY <2>2, <3>1, <3>3, <3>5 DEF LeafTable
    <3> QED BY <2>2, <3>3, <3>6
  <2> QED BY <2>1, <2>2
<1>6. l4 # NULL
  BY <1>5, Layout DEF Five, LeafTable, NULL
<1>7. s.ret = 0
  BY DEF LoopState
<1>8. set_entry(s.mem, l4, v, pa + i - 1, perm) = Mapped(m, t, va, pa, i, perm)
  <2>1. set_entry(M, LeafTable(t, va + (i - 1)), va + (i - 1), pa + (i - 1), perm)
          = Mapped(m, t, va, pa, (i - 1) + 1, perm)
    BY <1>1, MappedOne
  <2> QED BY <1>1, <1>3, <1>5, <2>1
<1>9. LoopState(m, t, va, pa, i, perm)
        = [mem |-> Mapped(m, t, va, pa, i, perm), last |-> v \div FANOUT,
           l4 |-> LeafTable(t, v), ret |-> 0]
  BY DEF LoopState
<1>10. map_page(s, t[0], v, pa + i - 1, perm)
        = IF s.ret = -1 THEN s
          ELSE IF l4 = NULL /\ "P" \in perm THEN [s EXCEPT !.ret = -1]
          ELSE [mem |-> IF l4 = NULL THEN s.mem ELSE set_entry(s.mem, l4, v, pa + i - 1, perm),
                last |-> v \div FANOUT, l4 |-> l4, ret |-> 0]
  BY DEF map_page
<1> HIDE DEF s, l4, v
<1> QED BY <1>5, <1>6, <1>7, <1>8, <1>9, <1>10 DEF s, v

\* virtual_memory_map within reach of the tables maps the whole range.
LEMMA MapLow ==
    ASSUME NEW m \in Memory, NEW t, Five(t), Tree(m, t), NEW va \in Nat, NEW pa \in Nat,
           NEW perm, NEW n \in Nat \ {0}, va + n <= MAPTOP
    PROVE  /\ virtual_memory_map(m, t[0], va, pa, n, perm).mem = Mapped(m, t, va, pa, n, perm)
           /\ virtual_memory_map(m, t[0], va, pa, n, perm).ret = 0
<1> DEFINE s0 == [mem |-> m, last |-> -1, l4 |-> NULL, ret |-> 0]
           g == [i \in 0 .. n |-> LoopState(m, t, va, pa, i, perm)]
           f == CHOOSE f : f = [i \in 0 .. n |-> IF i = 0 THEN s0
                  ELSE map_page(f[i - 1], t[0], va + i - 1, pa + i - 1, perm)]
<1>1. virtual_memory_map(m, t[0], va, pa, n, perm) = f[n]
  BY Zenon DEF virtual_memory_map
<1>2. \A i \in 1 .. n : map_page(g[i - 1], t[0], va + i - 1, pa + i - 1, perm) = g[i]
  <2> TAKE i \in 1 .. n
  <2>1. i \in Nat \ {0} /\ i - 1 \in 0 .. n /\ i \in 0 .. n
    OBVIOUS
  <2>2. va + i - 1 \in Reach
    BY Layout DEF Reach
  <2>3. map_page(LoopState(m, t, va, pa, i - 1, perm), t[0], va + i - 1, pa + i - 1, perm)
             = LoopState(m, t, va, pa, i, perm)
    BY <2>1, <2>2, LoopPass
  <2> QED BY <2>1, <2>3
<1>3. g[0] = s0
  BY DEF LoopState
<1>4. g = [i \in 0 .. n |-> IF i = 0 THEN s0
                  ELSE map_page(g[i - 1], t[0], va + i - 1, pa + i - 1, perm)]
  <2>1. g = [i \in 0 .. n |-> g[i]]
    OBVIOUS
  <2> HIDE DEF g, s0
  <2>2. ASSUME NEW i \in 0 .. n
        PROVE  g[i] = IF i = 0 THEN s0
                      ELSE map_page(g[i - 1], t[0], va + i - 1, pa + i - 1, perm)
    <3>1. i = 0 \/ i \in 1 .. n
      OBVIOUS
    <3> QED BY <1>2, <1>3, <3>1
  <2> QED BY <2>1, <2>2
<1> HIDE DEF g
<1>5. f = [i \in 0 .. n |-> IF i = 0 THEN s0
                  ELSE map_page(f[i - 1], t[0], va + i - 1, pa + i - 1, perm)]
  BY <1>4, Zenon
<1> HIDE DEF f, s0
<1>6. f[0] = s0 /\ \A i \in 1 .. n : f[i] = map_page(f[i - 1], t[0], va + i - 1, pa + i - 1, perm)
  BY <1>5
<1>7. f[n] = g[n]
  <2>1. f[0] = g[0]
    BY <1>3, <1>6
  <2>2. \A i \in 1 .. n : f[i - 1] = g[i - 1] => f[i] = g[i]
    BY <1>2, <1>6
  <2> QED BY <2>1, <2>2, SameRecursion
<1>8. g[n].mem = Mapped(m, t, va, pa, n, perm) /\ g[n].ret = 0
  BY DEF g, LoopState
<1> QED BY <1>1, <1>7, <1>8

\* One page beyond the reach of the tables is refused, and nothing changes.
LEMMA MapHigh ==
    ASSUME NEW m, NEW t, Five(t), Tree(m, t), NEW v \in Addresses, v \notin Reach,
           NEW pa \in Nat, NEW perm, "P" \in perm
    PROVE  /\ virtual_memory_map(m, t[0], v, pa, 1, perm).mem = m
           /\ virtual_memory_map(m, t[0], v, pa, 1, perm).ret = -1
<1> DEFINE s0 == [mem |-> m, last |-> -1, l4 |-> NULL, ret |-> 0]
           s1 == map_page(s0, t[0], v + 1 - 1, pa + 1 - 1, perm)
           g == [i \in 0 .. 1 |-> IF i = 0 THEN s0 ELSE s1]
           f == CHOOSE f : f = [i \in 0 .. 1 |-> IF i = 0 THEN s0
                  ELSE map_page(f[i - 1], t[0], v + i - 1, pa + i - 1, perm)]
<1>1. virtual_memory_map(m, t[0], v, pa, 1, perm) = f[1]
  BY Zenon DEF virtual_memory_map
<1>2. s1.mem = m /\ s1.ret = -1
  <2>1. v \in Nat /\ v + 1 - 1 = v
    BY DEF Addresses
  <2>2. lookup_l4pagetable(m, t[0], v) = NULL
    BY WalkHigh
  <2>3. s0.mem = m /\ s0.l4 = NULL /\ s0.ret = 0
    OBVIOUS
  <2>4. s1 = [s0 EXCEPT !.ret = -1]
    BY <2>1, <2>2, <2>3 DEF map_page
  <2> QED BY <2>4
<1> HIDE DEF s0
<1>3. g = [i \in 0 .. 1 |-> IF i = 0 THEN s0
                  ELSE map_page(g[i - 1], t[0], v + i - 1, pa + i - 1, perm)]
  <2>1. g[1 - 1] = s0 /\ g[0] = s0 /\ g[1] = s1
    OBVIOUS
  <2>2. g[1] = map_page(g[1 - 1], t[0], v + 1 - 1, pa + 1 - 1, perm)
    BY <2>1
  <2>3. \A i \in 0 .. 1 : g[i] = IF i = 0 THEN s0
                  ELSE map_page(g[i - 1], t[0], v + i - 1, pa + i - 1, perm)
    BY <2>1, <2>2
  <2>4. g = [i \in 0 .. 1 |-> g[i]]
    OBVIOUS
  <2> HIDE DEF g
  <2> QED BY <2>3, <2>4
<1> HIDE DEF g
<1>4. f = [i \in 0 .. 1 |-> IF i = 0 THEN s0
                  ELSE map_page(f[i - 1], t[0], v + i - 1, pa + i - 1, perm)]
  BY <1>3, Zenon
<1> HIDE DEF f
<1>5. f[0] = s0 /\ f[1] = map_page(f[1 - 1], t[0], v + 1 - 1, pa + 1 - 1, perm)
  BY <1>4
<1>6. f[1] = s1
  BY <1>5
<1> QED BY <1>1, <1>2, <1>6

-----------------------------------------------------------------------------
(* Making tables *)

\* An entry written by hand.
LEMMA LinkOne ==
    ASSUME NEW m \in Memory, NEW from \in Pages, NEW i \in Index, NEW to \in Pages,
           NEW l, l = link(m, from, i, to)
    PROVE  /\ l \in Memory
           /\ \A n \in Pages : n # from => l[n] = m[n]
           /\ \A j \in Index : l[from][j]
                                 = IF j = i THEN Entry(to, PWU) ELSE m[from][j]
<1>1. Entry(to, PWU) \in [pa : Pages, flags : SUBSET PTE]
  BY DEF Entry, PWU, PTE
<1>2. m \in [Pages -> Contents] /\ m[from] \in [Index -> [pa : Pages, flags : SUBSET PTE]]
  BY DEF Memory, Contents
<1> DEFINE c == [m[from] EXCEPT ![i] = Entry(to, PWU)]
<1>3. c \in Contents /\ \A j \in Index : c[j] = IF j = i THEN Entry(to, PWU) ELSE m[from][j]
  BY <1>1, <1>2 DEF Contents
<1>4. l = [m EXCEPT ![from] = c]
  BY DEF link
<1> HIDE DEF c
<1>5. l \in Memory
  BY <1>2, <1>3, <1>4 DEF Memory
<1>6. l[from] = c /\ \A n \in Pages : n # from => l[n] = m[n]
  BY <1>2, <1>4
<1> QED BY <1>3, <1>5, <1>6

\* Pages of a Five.
LEMMA FivePages ==
    ASSUME NEW t, Five(t)
    PROVE  /\ t[0] \in Pages /\ t[1] \in Pages /\ t[2] \in Pages /\ t[3] \in Pages /\ t[4] \in Pages
           /\ t[0] # t[1] /\ t[0] # t[2] /\ t[0] # t[3] /\ t[0] # t[4] /\ t[1] # t[2]
           /\ t[1] # t[3] /\ t[1] # t[4] /\ t[2] # t[3] /\ t[2] # t[4] /\ t[3] # t[4]
           /\ TablesOf(t) = {t[k] : k \in 0 .. 4}
           /\ TablesOf(t) = {t[0], t[1], t[2], t[3], t[4]}
<1>1. t \in [0 .. 4 -> Pages]
  BY DEF Five
<1>2. TablesOf(t) = {t[k] : k \in 0 .. 4}
  BY <1>1 DEF TablesOf
<1>3. {t[k] : k \in 0 .. 4} = {t[0], t[1], t[2], t[3], t[4]}
  <2>1. 0 .. 4 = {0, 1, 2, 3, 4}
    OBVIOUS
  <2> QED BY <2>1
<1> QED BY <1>1, <1>2, <1>3 DEF Five

\* Tables that are cleared and linked form a Tree with empty leaves, whatever the
\* pages held before; no other page changes.
LEMMA LinkedTree ==
    ASSUME NEW m \in Memory, NEW t, Five(t)
    PROVE  /\ linked(m, t) \in Memory /\ Tree(linked(m, t), t)
           /\ \A v \in Reach : Leaf(linked(m, t), t, v) = Entry(0, {})
           /\ \A n \in Pages \ TablesOf(t) : linked(m, t)[n] = m[n]
<1> DEFINE c == Cleared(m, TablesOf(t))
           m1 == link(c, t[0], 0, t[1])
           m2 == link(m1, t[1], 0, t[2])
           m3 == link(m2, t[2], 0, t[3])
           m4 == link(m3, t[2], 1, t[4])
<1>1. linked(m, t) = m4
  BY DEF linked
<1>2. /\ t[0] \in Pages /\ t[1] \in Pages /\ t[2] \in Pages /\ t[3] \in Pages /\ t[4] \in Pages
      /\ t[0] # t[1] /\ t[0] # t[2] /\ t[0] # t[3] /\ t[0] # t[4] /\ t[1] # t[2]
      /\ t[1] # t[3] /\ t[1] # t[4] /\ t[2] # t[3] /\ t[2] # t[4] /\ t[3] # t[4]
      /\ TablesOf(t) = {t[0], t[1], t[2], t[3], t[4]}
  BY FivePages
<1>3. 0 \in Index /\ 1 \in Index /\ 0 \in Pages
  BY Layout
<1>4. Zero \in Contents
  BY <1>3 DEF Zero, Contents, Entry
<1>5. c \in Memory /\ (\A n \in TablesOf(t) : c[n] = Zero)
      /\ \A n \in Pages \ TablesOf(t) : c[n] = m[n]
  BY <1>2, <1>4 DEF Cleared, Memory
<1> HIDE DEF c
<1>6d. m1 = link(c, t[0], 0, t[1])
  OBVIOUS
<1> HIDE DEF m1
<1>6. /\ m1 \in Memory /\ \A n \in Pages : n # t[0] => m1[n] = c[n]
      /\ \A j \in Index : m1[t[0]][j] = IF j = 0 THEN Entry(t[1], PWU) ELSE c[t[0]][j]
  <2>1. t[0] \in Pages /\ t[1] \in Pages /\ 0 \in Index /\ c \in Memory
    BY <1>2, <1>3, <1>5
  <2>2. m1 \in Memory
    BY <1>6d, <2>1, LinkOne
  <2>3. \A n \in Pages : n # t[0] => m1[n] = c[n]
    BY <1>6d, <2>1, LinkOne, SMTT(30)
  <2>4. \A j \in Index : m1[t[0]][j] = IF j = 0 THEN Entry(t[1], PWU) ELSE c[t[0]][j]
    BY <1>6d, <2>1, LinkOne, SMTT(30)
  <2> QED BY <2>2, <2>3, <2>4
<1>7d. m2 = link(m1, t[1], 0, t[2])
  OBVIOUS
<1> HIDE DEF m2
<1>7. /\ m2 \in Memory /\ \A n \in Pages : n # t[1] => m2[n] = m1[n]
      /\ \A j \in Index : m2[t[1]][j] = IF j = 0 THEN Entry(t[2], PWU) ELSE m1[t[1]][j]
  <2>1. t[1] \in Pages /\ t[2] \in Pages /\ 0 \in Index /\ m1 \in Memory
    BY <1>2, <1>3, <1>6
  <2>2. m2 \in Memory
    BY <1>7d, <2>1, LinkOne
  <2>3. \A n \in Pages : n # t[1] => m2[n] = m1[n]
    BY <1>7d, <2>1, LinkOne, SMTT(30)
  <2>4. \A j \in Index : m2[t[1]][j] = IF j = 0 THEN Entry(t[2], PWU) ELSE m1[t[1]][j]
    BY <1>7d, <2>1, LinkOne, SMTT(30)
  <2> QED BY <2>2, <2>3, <2>4
<1>8d. m3 = link(m2, t[2], 0, t[3])
  OBVIOUS
<1> HIDE DEF m3
<1>8. /\ m3 \in Memory /\ \A n \in Pages : n # t[2] => m3[n] = m2[n]
      /\ \A j \in Index : m3[t[2]][j] = IF j = 0 THEN Entry(t[3], PWU) ELSE m2[t[2]][j]
  <2>1. t[2] \in Pages /\ t[3] \in Pages /\ 0 \in Index /\ m2 \in Memory
    BY <1>2, <1>3, <1>7
  <2>2. m3 \in Memory
    BY <1>8d, <2>1, LinkOne
  <2>3. \A n \in Pages : n # t[2] => m3[n] = m2[n]
    BY <1>8d, <2>1, LinkOne, SMTT(30)
  <2>4. \A j \in Index : m3[t[2]][j] = IF j = 0 THEN Entry(t[3], PWU) ELSE m2[t[2]][j]
    BY <1>8d, <2>1, LinkOne, SMTT(30)
  <2> QED BY <2>2, <2>3, <2>4
<1>9d. m4 = link(m3, t[2], 1, t[4])
  OBVIOUS
<1> HIDE DEF m4
<1>9. /\ m4 \in Memory /\ \A n \in Pages : n # t[2] => m4[n] = m3[n]
      /\ \A j \in Index : m4[t[2]][j] = IF j = 1 THEN Entry(t[4], PWU) ELSE m3[t[2]][j]
  <2>1. t[2] \in Pages /\ t[4] \in Pages /\ 1 \in Index /\ m3 \in Memory
    BY <1>2, <1>3, <1>8
  <2>2. m4 \in Memory
    BY <1>9d, <2>1, LinkOne
  <2>3. \A n \in Pages : n # t[2] => m4[n] = m3[n]
    BY <1>9d, <2>1, LinkOne, SMTT(30)
  <2>4. \A j \in Index : m4[t[2]][j] = IF j = 1 THEN Entry(t[4], PWU) ELSE m3[t[2]][j]
    BY <1>9d, <2>1, LinkOne, SMTT(30)
  <2> QED BY <2>2, <2>3, <2>4
<1>10. \A i \in Index : Zero[i] = Entry(0, {})
  BY DEF Zero
<1>11. c[t[0]] = Zero /\ c[t[1]] = Zero /\ c[t[2]] = Zero /\ c[t[3]] = Zero /\ c[t[4]] = Zero
  BY <1>2, <1>5
<1>12. m4[t[0]] = m1[t[0]] /\ m4[t[1]] = m2[t[1]] /\ m4[t[3]] = Zero /\ m4[t[4]] = Zero
  BY <1>2, <1>6, <1>7, <1>8, <1>9, <1>11
<1>13. m1[t[1]] = Zero /\ m2[t[2]] = Zero
  BY <1>2, <1>6, <1>7, <1>11
<1>14. Tree(m4, t)
  <2> SUFFICES ASSUME NEW i \in Index
               PROVE  /\ m4[t[0]][i] = IF i = 0 THEN Entry(t[1], PWU) ELSE Entry(0, {})
                      /\ m4[t[1]][i] = IF i = 0 THEN Entry(t[2], PWU) ELSE Entry(0, {})
                      /\ m4[t[2]][i] = IF i = 0 THEN Entry(t[3], PWU)
                                       ELSE IF i = 1 THEN Entry(t[4], PWU) ELSE Entry(0, {})
    BY DEF Tree
  <2>1. m4[t[0]][i] = IF i = 0 THEN Entry(t[1], PWU) ELSE Entry(0, {})
    BY <1>6, <1>10, <1>11, <1>12
  <2>2. m4[t[1]][i] = IF i = 0 THEN Entry(t[2], PWU) ELSE Entry(0, {})
    BY <1>7, <1>10, <1>12, <1>13
  <2>3. m4[t[2]][i] = IF i = 0 THEN Entry(t[3], PWU)
                      ELSE IF i = 1 THEN Entry(t[4], PWU) ELSE Entry(0, {})
    BY <1>8, <1>9, <1>10, <1>13
  <2> QED BY <2>1, <2>2, <2>3
<1>15. \A v \in Reach : Leaf(m4, t, v) = Entry(0, {})
  <2> TAKE v \in Reach
  <2>1. LeafIndex(v) \in Index
    BY IndexLow
  <2>2. m4[LeafTable(t, v)] = Zero
    BY <1>12 DEF LeafTable
  <2> QED BY <1>10, <2>1, <2>2 DEF Leaf
<1>16. \A n \in Pages \ TablesOf(t) : m4[n] = m[n]
  BY <1>2, <1>5, <1>6, <1>7, <1>8, <1>9
<1> QED BY <1>1, <1>9, <1>14, <1>15, <1>16

\* What virtual_memory_map makes are entries.
LEMMA MappedType ==
    ASSUME NEW m \in Memory, NEW t, NEW va \in Nat, NEW pa \in Nat, NEW i \in Nat,
           NEW perm \in Perms, "P" \in perm => pa + i <= NPAGES
    PROVE  Mapped(m, t, va, pa, i, perm) \in Memory
<1>1. ASSUME NEW v \in Nat, va <= v, v < va + i
      PROVE  Made(va, pa, perm, v) \in [pa : Pages, flags : SUBSET PTE]
  <2>1. "P" \in perm => pa + (v - va) \in Pages
    BY <1>1, Layout DEF Pages
  <2> QED BY <2>1, Layout DEF Made, Entry, Perms
<1>2. \A n \in Pages : \A j \in Index : m[n][j] \in [pa : Pages, flags : SUBSET PTE]
  BY DEF Memory, Contents
<1>3. \A n \in Pages : m[n] \in Contents
  BY DEF Memory
<1>4. \A n \in Pages : \A j \in Index : (IF n = t[3] THEN j ELSE FANOUT + j) \in Nat
  BY Layout DEF Index
<1>5. ASSUME NEW n \in Pages PROVE Mapped(m, t, va, pa, i, perm)[n] \in Contents
  <2>1. CASE n = t[3] \/ n = t[4]
    <3> DEFINE w(j) == IF n = t[3] THEN j ELSE FANOUT + j
               E(j) == IF va <= w(j) /\ w(j) < va + i THEN Made(va, pa, perm, w(j)) ELSE m[n][j]
    <3>1. ASSUME NEW j \in Index PROVE E(j) \in [pa : Pages, flags : SUBSET PTE]
      <4>1. w(j) \in Nat
        BY <1>4
      <4> HIDE DEF w
      <4> QED BY <1>1, <1>2, <4>1
    <3>2. Mapped(m, t, va, pa, i, perm)[n] = [j \in Index |-> E(j)]
      BY <2>1 DEF Mapped
    <3> HIDE DEF E
    <3> QED BY <3>1, <3>2 DEF Contents
  <2>2. CASE ~(n = t[3] \/ n = t[4])
    BY <1>3, <2>2 DEF Mapped
  <2> QED BY <2>1, <2>2
<1>6. Mapped(m, t, va, pa, i, perm) = [n \in Pages |-> Mapped(m, t, va, pa, i, perm)[n]]
  BY DEF Mapped
<1> QED BY <1>5, <1>6 DEF Memory

\* Trees and leaves depend on the five pages only.
LEMMA TreeFrame ==
    ASSUME NEW m, NEW n, NEW t, \A k \in 0 .. 4 : n[t[k]] = m[t[k]]
    PROVE  /\ Tree(m, t) => Tree(n, t)
           /\ \A v : Leaf(n, t, v) = Leaf(m, t, v)
<1>1. n[t[0]] = m[t[0]] /\ n[t[1]] = m[t[1]] /\ n[t[2]] = m[t[2]]
      /\ n[t[3]] = m[t[3]] /\ n[t[4]] = m[t[4]]
  OBVIOUS
<1>2. Tree(m, t) => Tree(n, t)
  BY <1>1, ZenonT(30) DEF Tree
<1>3. \A v : Leaf(n, t, v) = Leaf(m, t, v)
  BY <1>1 DEF Leaf, LeafTable
<1> QED BY <1>2, <1>3

\* The kernel's table after virtual_memory_init is the identity.
LEMMA KernelMade ==
    ASSUME NEW m \in Memory
    PROVE  virtual_memory_init(m) \in Memory /\ KernelTree(virtual_memory_init(m))
<1> DEFINE k == linked(m, KERNEL)
<1>1. Five(KERNEL) /\ KERNEL[0] = kernel_pagetable
  BY KernelLayout
<1>2. k \in Memory /\ Tree(k, KERNEL) /\ \A v \in Reach : Leaf(k, KERNEL, v) = Entry(0, {})
  BY <1>1, LinkedTree
<1> HIDE DEF k
<1>3. NPAGES \in Nat \ {0} /\ 0 + NPAGES <= MAPTOP /\ 0 + NPAGES <= NPAGES
  BY Layout
<1> DEFINE M == Mapped(k, KERNEL, 0, 0, NPAGES, PWU)
<1>4. virtual_memory_map(k, KERNEL[0], 0, 0, NPAGES, PWU).mem = M
  BY <1>1, <1>2, <1>3, MapLow
<1>5. virtual_memory_init(m) = M
  BY <1>1, <1>4 DEF virtual_memory_init, k
<1>6. M \in Memory
  BY <1>2, <1>3, MappedType DEF PWU, PTE, Perms
<1>7. /\ Tree(M, KERNEL)
      /\ \A v \in Reach : Leaf(M, KERNEL, v) =
            IF 0 <= v /\ v < 0 + NPAGES THEN Made(0, 0, PWU, v) ELSE Leaf(k, KERNEL, v)
  BY <1>1, <1>2, <1>3, MappedTree, SMTT(30)
<1> HIDE DEF M
<1>8. ASSUME NEW v \in Reach PROVE Leaf(M, KERNEL, v) = KernelLeaf(v)
  <2>1. v \in Nat /\ 0 + (v - 0) = v /\ 0 + NPAGES = NPAGES
    BY Layout DEF Reach
  <2>2. Made(0, 0, PWU, v) = Entry(v, PWU)
    BY <2>1 DEF Made, PWU
  <2> QED BY <1>2, <1>7, <2>1, <2>2 DEF KernelLeaf
<1> QED BY <1>5, <1>6, <1>7, <1>8 DEF KernelTree

\* A new process's tables show low memory to the kernel, the console to the
\* user, and nothing above; no other page changes.
LEMMA ConfigMade ==
    ASSUME NEW m \in Memory, NEW t, Five(t)
    PROVE  /\ config_tables(m, t) \in Memory /\ Tree(config_tables(m, t), t)
           /\ \A v \in 0 .. (PROC_START - 1) : Leaf(config_tables(m, t), t, v) = LowLeaf(v)
           /\ \A v \in High : Leaf(config_tables(m, t), t, v) = Entry(0, {})
           /\ \A n \in Pages \ TablesOf(t) : config_tables(m, t)[n] = m[n]
<1> DEFINE k == linked(m, t)
           M == Mapped(k, t, 0, 0, PROC_START, PW)
           N == Mapped(M, t, ConsolePage, ConsolePage, 1, PWU)
<1>1. /\ k \in Memory /\ Tree(k, t) /\ \A v \in Reach : Leaf(k, t, v) = Entry(0, {})
      /\ \A n \in Pages \ TablesOf(t) : k[n] = m[n]
  BY LinkedTree
<1>2. /\ PROC_START \in Nat \ {0} /\ 0 + PROC_START <= MAPTOP /\ 0 + PROC_START <= NPAGES
      /\ ConsolePage \in Nat /\ ConsolePage + 1 <= MAPTOP /\ ConsolePage + 1 <= NPAGES
      /\ ConsolePage < PROC_START
  BY Layout
<1>d. k = linked(m, t)
  OBVIOUS
<1> HIDE DEF k
<1>3. virtual_memory_map(k, t[0], 0, 0, PROC_START, PW).mem = M
  BY <1>1, <1>2, MapLow
<1>4. M \in Memory
  BY <1>1, <1>2, MappedType DEF PW, PTE, Perms
<1>5. /\ Tree(M, t) /\ \A n \in Pages : n # t[3] /\ n # t[4] => M[n] = k[n]
      /\ \A v \in Reach : Leaf(M, t, v) =
            IF 0 <= v /\ v < 0 + PROC_START THEN Made(0, 0, PW, v) ELSE Leaf(k, t, v)
  BY <1>1, <1>2, MappedTree
<1>e. M = Mapped(k, t, 0, 0, PROC_START, PW)
  OBVIOUS
<1> HIDE DEF M
<1>6. virtual_memory_map(M, t[0], ConsolePage, ConsolePage, 1, PWU).mem = N
  BY <1>2, <1>4, <1>5, MapLow
<1>7. N \in Memory
  BY <1>2, <1>4, MappedType DEF PWU, PTE, Perms
<1>8. /\ Tree(N, t) /\ \A n \in Pages : n # t[3] /\ n # t[4] => N[n] = M[n]
      /\ \A v \in Reach : Leaf(N, t, v) =
            IF ConsolePage <= v /\ v < ConsolePage + 1 THEN Made(ConsolePage, ConsolePage, PWU, v)
            ELSE Leaf(M, t, v)
  BY <1>2, <1>4, <1>5, MappedTree
<1> HIDE DEF N
<1>9. config_tables(m, t) = N
  BY <1>d, <1>3, <1>6 DEF config_tables
<1>10. ASSUME NEW v \in 0 .. (PROC_START - 1) PROVE Leaf(N, t, v) = LowLeaf(v)
  <2>1. v \in Nat /\ v < PROC_START /\ v \in Reach
    BY <1>2, Layout DEF Reach
  <2>2. Made(0, 0, PW, v) = Entry(v, PW)
    BY <2>1 DEF Made, PW
  <2>3. Leaf(M, t, v) = Entry(v, PW)
    BY <1>2, <1>5, <2>1, <2>2
  <2>4. CASE v = ConsolePage
    <3>1. Made(ConsolePage, ConsolePage, PWU, v) = Entry(v, PWU)
      BY <1>2, <2>4 DEF Made, PWU
    <3> QED BY <1>2, <1>8, <2>1, <2>4, <3>1 DEF LowLeaf
  <2>5. CASE v # ConsolePage
    BY <1>2, <1>8, <2>1, <2>3, <2>5 DEF LowLeaf
  <2> QED BY <2>4, <2>5
<1>11. ASSUME NEW v \in High PROVE Leaf(N, t, v) = Entry(0, {})
  <2>1. v \in Nat /\ v >= PROC_START /\ v \in Reach
    BY <1>2, Layout DEF High, Reach
  <2> QED BY <1>1, <1>2, <1>5, <1>8, <2>1
<1>12. \A n \in Pages \ TablesOf(t) : N[n] = m[n]
  <2>1. t[3] \in TablesOf(t) /\ t[4] \in TablesOf(t)
    BY FivePages
  <2> QED BY <1>1, <1>5, <1>8, <2>1
<1> QED BY <1>7, <1>8, <1>9, <1>10, <1>11, <1>12

-----------------------------------------------------------------------------
(* palloc *)

Below(S, x) == {m \in S : m < x}

\* One element further in a finite set of naturals.
LEMMA NextElement ==
    ASSUME NEW S \in SUBSET Nat, IsFiniteSet(S), NEW k \in Nat, Cardinality(S) > k + 1,
           NEW n \in S, Cardinality(Below(S, n)) = k
    PROVE  \E x \in S : Cardinality(Below(S, x)) = k + 1
<1> DEFINE B == Below(S, n)
           C == B \cup {n}
<1>1. B \subseteq S /\ n \notin B /\ IsFiniteSet(B)
  <2>1. B \subseteq S /\ n \notin B
    BY DEF Below
  <2> QED BY <2>1, FS_Subset
<1>d. \A m \in S : m \in B <=> m < n
  BY DEF Below
<1> HIDE DEF B
<1>2. Cardinality(C) = k + 1
  BY <1>1, FS_AddElement DEF B
<1>3. C \subseteq S /\ C # S
  BY <1>1, <1>2
<1>4. S \ C \in SUBSET Nat /\ S \ C # {}
  BY <1>3
<1>5. PICK x \in S \ C : \A y \in S \ C : x <= y
  BY <1>4, LeastExists
<1>6. ASSUME NEW m \in S PROVE m < x <=> m \in C
  <2>1. m \in Nat /\ x \in Nat /\ n \in Nat /\ x # n /\ ~(x < n)
    BY <1>5, <1>d
  <2>2. m \in C <=> m <= n
    BY <1>d, <2>1
  <2>3. m \notin C => x <= m
    BY <1>5
  <2> QED BY <2>1, <2>2, <2>3
<1>7. Below(S, x) = C
  BY <1>3, <1>6 DEF Below
<1> QED BY <1>2, <1>5, <1>7

\* Five calls of palloc return five free pages.
LEMMA FiveFree ==
    ASSUME Cardinality(free) >= 5
    PROVE  Five(palloc5) /\ \A k \in 0 .. 4 : palloc5[k] \in free
<1>1. free \in SUBSET Nat /\ IsFiniteSet(free) /\ free \subseteq Pages
  <2>1. free \subseteq Pages /\ Pages \subseteq Nat
    BY Layout DEF free
  <2>2. IsFiniteSet(Pages)
    BY FS_Interval, Layout DEF Pages
  <2> QED BY <2>1, <2>2, FS_Subset
<1>2. Cardinality(free) \in Nat
  BY <1>1, FS_CardinalityType
<1> DEFINE Has(k) == \E n \in free : Cardinality(Below(free, n)) = k
<1>3. Has(0)
  <2>1. free # {}
    BY FS_EmptySet
  <2>2. PICK n \in free : \A y \in free : n <= y
    BY <1>1, <2>1, LeastExists
  <2>3. \A y \in free : ~(y < n)
    BY <1>1, <2>2
  <2>4. Below(free, n) = {}
    BY <2>3, Zenon DEF Below
  <2> QED BY <2>4, FS_EmptySet
<1>4. ASSUME NEW k \in 0 .. 3, Has(k) PROVE Has(k + 1)
  <2>1. PICK n \in free : Cardinality(Below(free, n)) = k
    BY <1>4
  <2>2. Cardinality(free) > k + 1 /\ k \in Nat
    BY <1>2
  <2> QED BY <1>1, <2>1, <2>2, NextElement
<1>5. Has(0 + 1) /\ Has(1 + 1) /\ Has(2 + 1) /\ Has(3 + 1)
  <2> HIDE DEF Has
  <2>1. Has(0 + 1)
    BY <1>3, <1>4
  <2>2. Has(1 + 1)
    BY <1>4, <2>1
  <2>3. Has(2 + 1)
    BY <1>4, <2>2
  <2> QED BY <1>4, <2>1, <2>2, <2>3
<1>6. \A k \in 0 .. 4 : Has(k)
  <2> HIDE DEF Has
  <2> QED BY <1>3, <1>5
<1>7. ASSUME NEW k \in 0 .. 4
      PROVE  palloc5[k] \in free /\ Cardinality(Below(free, palloc5[k])) = k
  <2>1. PICK n \in free : Cardinality(Below(free, n)) = k
    BY <1>6
  <2>2. palloc5[k] = CHOOSE x \in free : Cardinality(Below(free, x)) = k
    BY DEF palloc5, Below
  <2> QED BY <2>1, <2>2, Zenon
<1>8. palloc5 \in [0 .. 4 -> Pages]
  BY <1>1, <1>7 DEF palloc5
<1> QED BY <1>7, <1>8 DEF Five

\* What palloc returns: a free page.
LEMMA MinFree ==
    ASSUME free # {}
    PROVE  Min(free) \in free /\ Min(free) \in Pages /\ owner[Min(free)] = "free"
<1>1. free \in SUBSET Nat
  BY Layout DEF free
<1>2. PICK n \in free : \A y \in free : n <= y
  BY <1>1, LeastExists
<1>3. Min(free) \in free
  BY <1>2, Zenon DEF Min
<1> QED BY <1>3 DEF free

-----------------------------------------------------------------------------
(* Steps *)

Absent == [pn |-> -1, perm |-> {}]

\* what the tables t map page v to
View(m, t, v) == IF v \in Reach THEN found(Leaf(m, t, v)) ELSE Absent

\* For tables that form a Tree, lookup and processor agree everywhere.
LEMMA ViewExact ==
    ASSUME NEW m \in Memory, NEW t, Five(t), Tree(m, t), NEW v \in Addresses
    PROVE  /\ virtual_memory_lookup(m, t[0], v) = View(m, t, v)
           /\ translate(m, t[0], v) = View(m, t, v)
           /\ rights_granted(m, t[0], v, PWU)
<1>1. CASE v \in Reach
  <2>1. Leaf(m, t, v).flags \subseteq PTE
    <3>1. LeafIndex(v) \in Index
      BY <1>1, IndexLow
    <3>2. LeafTable(t, v) \in Pages
      BY FivePages DEF LeafTable
    <3>3. Leaf(m, t, v) \in [pa : Pages, flags : SUBSET PTE]
      BY <3>1, <3>2 DEF Leaf, Memory, Contents
    <3> QED BY <3>3
  <2>2. virtual_memory_lookup(m, t[0], v) = found(Leaf(m, t, v))
    BY <1>1, WalkLow
  <2>3. translate(m, t[0], v) = found(Leaf(m, t, v))
    BY <1>1, <2>1, WalkLow
  <2>4. rights_granted(m, t[0], v, PWU)
    BY <1>1, L4Low
  <2> QED BY <1>1, <2>2, <2>3, <2>4 DEF View
<1>2. CASE v \notin Reach
  <2>1. virtual_memory_lookup(m, t[0], v) = Absent
    BY <1>2, WalkHigh DEF Absent
  <2>2. translate(m, t[0], v) = Absent
    BY <1>2, WalkHigh DEF Absent
  <2>3. rights_granted(m, t[0], v, PWU)
    BY <1>2, WalkHigh
  <2> QED BY <1>2, <2>1, <2>2, <2>3 DEF View
<1> QED BY <1>1, <1>2

\* A leaf is an entry of memory.
LEMMA LeafType ==
    ASSUME NEW m \in Memory, NEW t, Five(t), NEW v \in Reach
    PROVE  /\ Leaf(m, t, v) \in [pa : Pages, flags : SUBSET PTE]
           /\ Leaf(m, t, v).pa \in Pages /\ Leaf(m, t, v).flags \subseteq PTE
<1>1. LeafIndex(v) \in Index
  BY IndexLow
<1>2. LeafTable(t, v) \in Pages
  BY FivePages DEF LeafTable
<1>3. Leaf(m, t, v) \in [pa : Pages, flags : SUBSET PTE]
  BY <1>1, <1>2 DEF Leaf, Memory, Contents
<1> QED BY <1>3

\* Physical and low pages are within reach.
LEMMA InReach ==
    /\ Pages \subseteq Reach /\ High \subseteq Reach /\ 0 .. (PROC_START - 1) \subseteq Reach
    /\ \A v \in Reach : v \in High \/ v \in 0 .. (PROC_START - 1)
    /\ \A v \in Reach : v \in High <=> v >= PROC_START
    /\ Reach \subseteq Addresses
<1>1. Pages \subseteq Reach /\ High \subseteq Reach /\ 0 .. (PROC_START - 1) \subseteq Reach
  BY Layout DEF Pages, Reach, High
<1>2. \A v \in Reach : v \in High \/ v \in 0 .. (PROC_START - 1)
  BY Layout DEF Reach, High
<1>3. \A v \in Reach : v \in High <=> v >= PROC_START
  BY Layout DEF Reach, High
<1>4. Reach \subseteq Addresses
  <2>1. FANOUT * FANOUT * FANOUT * FANOUT \in Nat
        /\ MAPTOP <= FANOUT * FANOUT * FANOUT * FANOUT
    BY Powers
  <2> QED BY <2>1, Layout DEF Reach, Addresses
<1> QED BY <1>1, <1>2, <1>3, <1>4

Owners == [Pages -> Procs \cup {"free", "kernel"}]
Tables == [Procs -> {NoTables} \cup [0 .. 4 -> Pages]]

\* the pages no process is given
KernelOwned(o) == \A n \in Kernels : o[n] = "kernel"

\* the memory and the owner of every page of p stay what they are
Spared(m, n, o, u, p) == \A x \in Pages : o[x] = p => n[x] = m[x] /\ u[x] = p

\* A change of pages that p does not have leaves p's tables as they are.
LEMMA ProcFrame ==
    ASSUME NEW m \in Memory, NEW n, NEW o, NEW u, NEW t, NEW p, ProcTree(m, o, t, p),
           Spared(m, n, o, u, p)
    PROVE  ProcTree(n, u, t, p) /\ \A v : Leaf(n, t, v) = Leaf(m, t, v)
<1>1. Five(t) /\ Tree(m, t) /\ \A k \in 0 .. 4 : t[k] \in Pages /\ o[t[k]] = p
  BY DEF ProcTree, Five
<1>2. Tree(n, t) /\ \A v : Leaf(n, t, v) = Leaf(m, t, v)
  <2>1. \A k \in 0 .. 4 : n[t[k]] = m[t[k]]
    BY <1>1 DEF Spared
  <2> QED BY <1>1, <2>1, TreeFrame
<1>3. \A k \in 0 .. 4 : u[t[k]] = p
  BY <1>1 DEF Spared
<1>4. \A v \in 0 .. (PROC_START - 1) : Leaf(n, t, v) = LowLeaf(v)
  BY <1>2 DEF ProcTree
<1>5. ASSUME NEW v \in High, Present(Leaf(n, t, v))
      PROVE  /\ Leaf(n, t, v).flags \in {PWU, PU}
             /\ u[Leaf(n, t, v).pa] = p
             /\ \A k \in 0 .. 4 : Leaf(n, t, v).pa # t[k]
             /\ \A w \in High : Present(Leaf(n, t, w)) /\ Leaf(n, t, w).pa = Leaf(n, t, v).pa
                               => w = v
  <2>1. Present(Leaf(m, t, v)) /\ Leaf(n, t, v) = Leaf(m, t, v)
    BY <1>2, <1>5
  <2>2. /\ Leaf(m, t, v).flags \in {PWU, PU}
        /\ o[Leaf(m, t, v).pa] = p
        /\ \A k \in 0 .. 4 : Leaf(m, t, v).pa # t[k]
        /\ \A w \in High : Present(Leaf(m, t, w)) /\ Leaf(m, t, w).pa = Leaf(m, t, v).pa
                               => w = v
    BY <2>1, Zenon DEF ProcTree
  <2>3. Leaf(m, t, v).pa \in Pages
    BY <1>1, LeafType, InReach
  <2>4. u[Leaf(m, t, v).pa] = p
    BY <2>2, <2>3 DEF Spared
  <2> QED BY <1>2, <2>1, <2>2, <2>4
<1> QED BY <1>1, <1>2, <1>3, <1>4, <1>5, Zenon DEF ProcTree

\* A change that spares the kernel's pages leaves its table as it is.
LEMMA KernelFrame ==
    ASSUME NEW m, NEW n, KernelTree(m), \A x \in KernelPages : n[x] = m[x]
    PROVE  KernelTree(n)
<1>1. \A k \in 0 .. 4 : n[KERNEL[k]] = m[KERNEL[k]]
  BY KernelLayout
<1>2. (Tree(m, KERNEL) => Tree(n, KERNEL)) /\ \A v : Leaf(n, KERNEL, v) = Leaf(m, KERNEL, v)
  BY <1>1, TreeFrame
<1> QED BY <1>2 DEF KernelTree

OthersSpared(m, n, o, u, ts, us, p) ==
    /\ \A x \in Pages : o[x] = "kernel" => n[x] = m[x]
    /\ \A q \in Procs \ {p} : us[q] = ts[q] /\ Spared(m, n, o, u, q)

\* the tables of all processes but p show what they showed
SameLeaves(m, n, us, p) ==
    \A q \in Procs \ {p} : us[q] # NoTables => \A v : Leaf(n, us[q], v) = Leaf(m, us[q], v)

\* A step that leaves alone the pages of the kernel and of every process but p,
\* and the tables of those processes, keeps all tables in order if p's are.
LEMMA TreesFrame ==
    ASSUME NEW m \in Memory, NEW n, NEW o, NEW u, NEW ts \in Tables, NEW us \in Tables, NEW p \in Procs,
           Trees(m, o, ts), KernelOwned(o),
           OthersSpared(m, n, o, u, ts, us, p),
           us[p] # NoTables => ProcTree(n, u, us[p], p)
    PROVE  Trees(n, u, us) /\ SameLeaves(m, n, us, p)
<1>1. KernelTree(n)
  <2>1. \A x \in KernelPages : n[x] = m[x]
    BY Layout DEF KernelOwned, OthersSpared
  <2> QED BY <2>1, KernelFrame DEF Trees
<1>2. ASSUME NEW q \in Procs \ {p}, us[q] # NoTables
      PROVE  ProcTree(n, u, us[q], q) /\ \A v : Leaf(n, us[q], v) = Leaf(m, us[q], v)
  <2>1. us[q] = ts[q] /\ Spared(m, n, o, u, q)
    BY DEF OthersSpared
  <2>2. ProcTree(m, o, us[q], q)
    BY <1>2, <2>1 DEF Trees
  <2> QED BY <2>1, <2>2, ProcFrame
<1>3. ASSUME NEW q \in Procs, us[q] # NoTables PROVE ProcTree(n, u, us[q], q)
  <2>1. CASE q = p
    BY <1>3, <2>1
  <2>2. CASE q # p
    BY <1>2, <1>3, <2>2
  <2> QED BY <2>1, <2>2
<1>4. Trees(n, u, us)
  BY <1>1, <1>3, Zenon DEF Trees
<1> QED BY <1>2, <1>4 DEF SameLeaves

AllFree(o, t) == \A k \in 0 .. 4 : o[t[k]] = "free"

\* ConfigTables keeps all tables in order.
LEMMA ConfigTrees ==
    ASSUME NEW m \in Memory, NEW o \in Owners, NEW ts \in Tables, NEW p \in Procs, NEW t, Five(t),
           Trees(m, o, ts), KernelOwned(o), AllFree(o, t),
           NEW u, u = [n \in Pages |-> IF n \in TablesOf(t) THEN p ELSE o[n]],
           NEW us, us = [ts EXCEPT ![p] = t]
    PROVE  /\ Trees(config_tables(m, t), u, us)
           /\ u \in Owners /\ us \in Tables /\ KernelOwned(u)
           /\ SameLeaves(m, config_tables(m, t), us, p)
<1> DEFINE n == config_tables(m, t)
<1>1. /\ n \in Memory /\ Tree(n, t)
      /\ \A v \in 0 .. (PROC_START - 1) : Leaf(n, t, v) = LowLeaf(v)
      /\ \A v \in High : Leaf(n, t, v) = Entry(0, {})
      /\ \A x \in Pages \ TablesOf(t) : n[x] = m[x]
  BY ConfigMade
<1> HIDE DEF n
<1>2. \A x \in TablesOf(t) : x \in Pages /\ o[x] = "free" /\ u[x] = p
  <2>1. TablesOf(t) = {t[k] : k \in 0 .. 4} /\ \A k \in 0 .. 4 : t[k] \in Pages
    BY FivePages DEF Five
  <2> QED BY <2>1 DEF AllFree
<1>3. u \in Owners /\ us \in Tables
  BY DEF Owners, Tables, Five
<1>4. KernelOwned(u)
  BY <1>2, Layout DEF KernelOwned
<1>5. us[p] = t
  BY DEF Tables
<1>6. ProcTree(n, u, t, p)
  <2>1. \A k \in 0 .. 4 : u[t[k]] = p
    BY <1>2, FivePages
  <2>2. \A v \in High : ~Present(Leaf(n, t, v))
    BY <1>1 DEF Present, Entry
  <2> QED BY <1>1, <2>1, <2>2, Zenon DEF ProcTree
<1>7. \A x \in Pages : o[x] = "kernel" => n[x] = m[x]
  BY <1>1, <1>2
<1>8. ASSUME NEW q \in Procs \ {p}
      PROVE  us[q] = ts[q] /\ Spared(m, n, o, u, q)
  <2>1. us[q] = ts[q]
    BY DEF Tables
  <2>2. ASSUME NEW x \in Pages, o[x] = q PROVE x \notin TablesOf(t)
    BY <1>2, <2>2, Layout
  <2> QED BY <1>1, <2>1, <2>2 DEF Spared
<1>9. Trees(n, u, us) /\ SameLeaves(m, n, us, p)
  <2>1. us[p] # NoTables => ProcTree(n, u, us[p], p)
    BY <1>5, <1>6
  <2>2. OthersSpared(m, n, o, u, ts, us, p)
    BY <1>7, <1>8 DEF OthersSpared
  <2> QED BY <1>3, <2>1, <2>2, TreesFrame
<1> QED BY <1>3, <1>4, <1>9 DEF n

\* What the leaves are when virtual_memory_map sets one page of a process.
LEMMA OnePage ==
    ASSUME NEW m \in Memory, NEW t, Five(t), Tree(m, t), NEW v \in High, NEW n \in Pages,
           NEW perm \in Perms, NEW d, d = virtual_memory_map(m, t[0], v, n, 1, perm)
    PROVE  /\ d.ret = 0 /\ d.mem \in Memory /\ Tree(d.mem, t)
           /\ Leaf(d.mem, t, v) = Entry(IF "P" \in perm THEN n ELSE 0, perm)
           /\ \A w \in Reach : w # v => Leaf(d.mem, t, w) = Leaf(m, t, w)
           /\ \A x \in Pages : x # t[3] /\ x # t[4] => d.mem[x] = m[x]
<1>1. v \in Nat /\ n \in Nat /\ v + 1 <= MAPTOP /\ n + 1 <= NPAGES /\ v \in Reach
      /\ 1 \in Nat \ {0}
  BY Layout, InReach DEF High, Pages
<1> DEFINE M == Mapped(m, t, v, n, 1, perm)
<1>2. d.mem = M /\ d.ret = 0
  BY <1>1, MapLow
<1>3. M \in Memory
  BY <1>1, MappedType
<1>4. /\ Tree(M, t) /\ \A x \in Pages : x # t[3] /\ x # t[4] => M[x] = m[x]
      /\ \A w \in Reach : Leaf(M, t, w) =
            IF v <= w /\ w < v + 1 THEN Made(v, n, perm, w) ELSE Leaf(m, t, w)
  BY <1>1, MappedTree
<1> HIDE DEF M
<1>5. Leaf(M, t, v) = Entry(IF "P" \in perm THEN n ELSE 0, perm)
  <2>1. Made(v, n, perm, v) = Entry(IF "P" \in perm THEN n ELSE 0, perm)
    <3>1. n + (v - v) = n
      BY <1>1
    <3> QED BY <3>1 DEF Made
  <2> QED BY <1>1, <1>4, <2>1
<1>6. \A w \in Reach : w # v => Leaf(M, t, w) = Leaf(m, t, w)
  <2> TAKE w \in Reach
  <2>1. w \in Nat
    BY Layout DEF Reach
  <2> QED BY <1>1, <1>4, <2>1
<1> QED BY <1>2, <1>3, <1>4, <1>5, <1>6

\* page n is at no place but v of the tables t
Only(m, t, v, n) == \A w \in High : Present(Leaf(m, t, w)) /\ Leaf(m, t, w).pa = n => w = v

\* page n is not one of the tables t
Foreign(t, n) == \A k \in 0 .. 4 : n # t[k]

\* what kind of change: a page of p's is mapped for p, or not at all
Change(perm, x, p) == "P" \in perm => perm \in {PWU, PU} /\ x = p

\* Page v of p may be made to show page n with perm, and n given to x: n is p's or
\* free, is no table, and is at no other place.
CanChange(m, o, ts, p, v, n, x, perm) ==
    /\ m \in Memory /\ o \in Owners /\ ts \in Tables /\ ts[p] # NoTables
    /\ Trees(m, o, ts) /\ KernelOwned(o) /\ v \in High /\ n \in Pages /\ o[n] \in {p, "free"}
    /\ x \in {p, "free"} /\ perm \in Perms
    /\ Change(perm, x, p) /\ Foreign(ts[p], n) /\ Only(m, ts[p], v, n)

\* what becomes of it: memory d.mem and owners u
Changed(m, ts, p, v, n, perm, u, d) ==
    /\ Trees(d.mem, u, ts) /\ u \in Owners /\ KernelOwned(u) /\ SameLeaves(m, d.mem, ts, p)
    /\ d.ret = 0 /\ d.mem \in Memory
    /\ Leaf(d.mem, ts[p], v) = Entry(IF "P" \in perm THEN n ELSE 0, perm)
    /\ \A w \in Reach : w # v => Leaf(d.mem, ts[p], w) = Leaf(m, ts[p], w)

\* One page of p is mapped, made read-only or unmapped, and its owner changes.
LEMMA ChangeTrees ==
    ASSUME NEW m, NEW o, NEW ts, NEW p \in Procs, NEW v, NEW n, NEW x, NEW perm,
           CanChange(m, o, ts, p, v, n, x, perm),
           NEW u, u = [o EXCEPT ![n] = x],
           NEW d, d = virtual_memory_map(m, ts[p][0], v, n, 1, perm)
    PROVE  Changed(m, ts, p, v, n, perm, u, d)
<1> USE DEF CanChange
<1> DEFINE t == ts[p]
<1>1. ProcTree(m, o, t, p)
  BY DEF Trees
<1>2. Five(t) /\ Tree(m, t) /\ \A k \in 0 .. 4 : o[t[k]] = p /\ t[k] \in Pages
  BY <1>1 DEF ProcTree, Five
<1>3. /\ d.ret = 0 /\ d.mem \in Memory /\ Tree(d.mem, t)
      /\ Leaf(d.mem, t, v) = Entry(IF "P" \in perm THEN n ELSE 0, perm)
      /\ \A w \in Reach : w # v => Leaf(d.mem, t, w) = Leaf(m, t, w)
      /\ \A y \in Pages : y # t[3] /\ y # t[4] => d.mem[y] = m[y]
  <2>0. Five(t) /\ Tree(m, t) /\ d = virtual_memory_map(m, t[0], v, n, 1, perm)
    BY <1>2
  <2> HIDE DEF t
  <2>1. d.ret = 0 /\ d.mem \in Memory
    BY <2>0, OnePage
  <2>2. Tree(d.mem, t)
    BY <2>0, OnePage
  <2>3. Leaf(d.mem, t, v) = Entry(IF "P" \in perm THEN n ELSE 0, perm)
    BY <2>0, OnePage
  <2>4. \A w \in Reach : w # v => Leaf(d.mem, t, w) = Leaf(m, t, w)
    BY <2>0, OnePage
  <2>5. \A y \in Pages : y # t[3] /\ y # t[4] => d.mem[y] = m[y]
    BY <2>0, OnePage
  <2> QED BY <2>1, <2>2, <2>3, <2>4, <2>5
<1>4. /\ u \in Owners /\ u[n] = x /\ \A y \in Pages : y # n => u[y] = o[y]
  BY DEF Owners
<1>5. KernelOwned(u)
  <2>1. \A y \in Kernels : o[y] = "kernel" /\ y \in Pages
    BY Layout DEF KernelOwned
  <2>2. n \notin Kernels
    BY <2>1, Layout
  <2> QED BY <1>4, <2>1, <2>2 DEF KernelOwned
<1>6. ProcTree(d.mem, u, t, p)
  <2>1. \A k \in 0 .. 4 : u[t[k]] = p
    BY <1>2, <1>4 DEF Foreign
  <2>2. \A w \in 0 .. (PROC_START - 1) : Leaf(d.mem, t, w) = LowLeaf(w)
    <3> TAKE w \in 0 .. (PROC_START - 1)
    <3>1. w # v /\ w \in Reach
      BY Layout, InReach DEF High
    <3>2. Leaf(m, t, w) = LowLeaf(w)
      BY <1>1 DEF ProcTree
    <3> QED BY <1>3, <3>1, <3>2
  <2>3. ASSUME NEW w \in High, Present(Leaf(d.mem, t, w))
        PROVE  /\ Leaf(d.mem, t, w).flags \in {PWU, PU}
               /\ u[Leaf(d.mem, t, w).pa] = p
               /\ \A k \in 0 .. 4 : Leaf(d.mem, t, w).pa # t[k]
    <3>1. CASE w = v
      <4>1. Leaf(d.mem, t, w).flags = perm /\ "P" \in perm /\ Leaf(d.mem, t, w).pa = n
        BY <1>3, <2>3, <3>1 DEF Present, Entry
      <4> QED BY <1>4, <4>1 DEF Change, Foreign
    <3>2. CASE w # v
      <4>1. Leaf(d.mem, t, w) = Leaf(m, t, w) /\ w \in Reach
        BY <1>3, <3>2, InReach
      <4>2. Leaf(m, t, w).flags \in {PWU, PU} /\ o[Leaf(m, t, w).pa] = p
            /\ \A k \in 0 .. 4 : Leaf(m, t, w).pa # t[k]
        BY <1>1, <2>3, <4>1, Zenon DEF ProcTree
      <4>3. Leaf(m, t, w).pa # n
        BY <2>3, <3>2, <4>1 DEF Only
      <4>4. Leaf(m, t, w).pa \in Pages
        BY <1>2, <4>1, LeafType
      <4> QED BY <1>4, <4>1, <4>2, <4>3, <4>4
    <3> QED BY <3>1, <3>2
  <2>4. ASSUME NEW y \in High, NEW w \in High, Present(Leaf(d.mem, t, y)), Present(Leaf(d.mem, t, w)),
               Leaf(d.mem, t, w).pa = Leaf(d.mem, t, y).pa
        PROVE  w = y
    <3>1. \A z \in High : z # v => Leaf(d.mem, t, z) = Leaf(m, t, z)
      BY <1>3, InReach
    <3>2. Present(Leaf(d.mem, t, v)) => Leaf(d.mem, t, v).pa = n
      BY <1>3 DEF Present, Entry
    <3>3. CASE y = v /\ w # v
      BY <2>4, <3>1, <3>2, <3>3 DEF Only
    <3>4. CASE y # v /\ w = v
      BY <2>4, <3>1, <3>2, <3>4 DEF Only
    <3>5. CASE y # v /\ w # v
      <4>1. Present(Leaf(m, t, y)) /\ Present(Leaf(m, t, w)) /\ Leaf(m, t, w).pa = Leaf(m, t, y).pa
        BY <2>4, <3>1, <3>5
      <4> QED BY <1>1, <4>1, Zenon DEF ProcTree
    <3> QED BY <3>3, <3>4, <3>5
  <2> QED BY <1>2, <1>3, <2>1, <2>2, <2>3, <2>4, Zenon DEF ProcTree
<1>7. OthersSpared(m, d.mem, o, u, ts, ts, p)
  <2>1. t[3] \in Pages /\ t[4] \in Pages /\ o[t[3]] = p /\ o[t[4]] = p
    BY <1>2
  <2>2. \A y \in Pages : o[y] = "kernel" => d.mem[y] = m[y]
    BY <1>3, <2>1, Layout
  <2>3. ASSUME NEW q \in Procs \ {p} PROVE Spared(m, d.mem, o, u, q)
    <3>1. ASSUME NEW y \in Pages, o[y] = q PROVE d.mem[y] = m[y] /\ u[y] = q
      <4>1. y # t[3] /\ y # t[4] /\ y # n
        BY <2>1, <3>1, Layout
      <4> QED BY <1>3, <1>4, <3>1, <4>1
    <3> QED BY <3>1 DEF Spared
  <2> QED BY <2>2, <2>3 DEF OthersSpared
<1>8. Trees(d.mem, u, ts) /\ SameLeaves(m, d.mem, ts, p)
  BY <1>6, <1>7, TreesFrame
<1> QED BY <1>3, <1>4, <1>5, <1>8 DEF Changed

\* what process_free gives back, and the owners then
Given(m, t) == {virtual_memory_lookup(m, t[0], v).pn : v \in High}
Freed(m, o, t) == [n \in Pages |-> IF n \in Given(m, t) \cup TablesOf(t) THEN "free" ELSE o[n]]

\* process_free gives back what the process has and nothing else.
LEMMA FreeTrees ==
    ASSUME NEW m \in Memory, NEW o \in Owners, NEW ts \in Tables, NEW p \in Procs, ts[p] # NoTables,
           Trees(m, o, ts), KernelOwned(o), NEW u, u = Freed(m, o, ts[p]),
           NEW n, n = Spoiled(m, TablesOf(ts[p])),
           NEW us, us = [ts EXCEPT ![p] = NoTables]
    PROVE  /\ Trees(n, u, us) /\ u \in Owners /\ us \in Tables /\ n \in Memory
           /\ KernelOwned(u) /\ SameLeaves(m, n, us, p)
<1> DEFINE t == ts[p]
           given == Given(m, t)
<1>1. ProcTree(m, o, t, p) /\ Five(t) /\ Tree(m, t) /\ TablesOf(t) = {t[k] : k \in 0 .. 4}
      /\ \A k \in 0 .. 4 : o[t[k]] = p /\ t[k] \in Pages
  <2>1. ProcTree(m, o, t, p)
    BY DEF Trees
  <2>2. Five(t)
    BY <2>1 DEF ProcTree
  <2> QED BY <2>1, <2>2, FivePages DEF ProcTree, Five
<1>2. ASSUME NEW x \in Pages, x \in given \cup TablesOf(t) PROVE o[x] = p
  <2>1. CASE x \in TablesOf(t)
    BY <1>1, <2>1
  <2>2. CASE x \in given
    <3>1. PICK v \in High : x = virtual_memory_lookup(m, t[0], v).pn
      BY <2>2 DEF Given
    <3>2. v \in Reach /\ virtual_memory_lookup(m, t[0], v) = found(Leaf(m, t, v))
      BY <1>1, InReach, WalkLow
    <3>3. x # -1
      BY <1>2, Layout
    <3>4. Present(Leaf(m, t, v)) /\ x = Leaf(m, t, v).pa
      BY <3>1, <3>2, <3>3 DEF found, Present
    <3> QED BY <1>1, <3>4, Zenon DEF ProcTree
  <2> QED BY <1>2, <2>1, <2>2
<1>3. Junk \in Contents
  <2>1. PROC_START \in Pages
    BY Layout
  <2>2. Entry(PROC_START, PWU) \in [pa : Pages, flags : SUBSET PTE]
    BY <2>1 DEF Entry, PWU, PTE
  <2> QED BY <2>2 DEF Junk, Contents
<1>4. n \in Memory /\ \A x \in Pages \ TablesOf(t) : n[x] = m[x]
  BY <1>3 DEF Spoiled, Memory
<1>5. u \in Owners /\ us \in Tables /\ us[p] = NoTables
  BY DEF Owners, Tables, Freed
<1>6. \A x \in Pages : o[x] # p => u[x] = o[x] /\ n[x] = m[x]
  BY <1>2, <1>4 DEF Freed
<1>7. KernelOwned(u)
  BY <1>6, Layout DEF KernelOwned
<1>8. OthersSpared(m, n, o, u, ts, us, p)
  <2>1. \A x \in Pages : o[x] = "kernel" => n[x] = m[x]
    BY <1>6, Layout
  <2>2. \A q \in Procs \ {p} : us[q] = ts[q] /\ Spared(m, n, o, u, q)
    BY <1>6 DEF Tables, Spared
  <2> QED BY <2>1, <2>2 DEF OthersSpared
<1>9. Trees(n, u, us) /\ SameLeaves(m, n, us, p)
  BY <1>5, <1>8, TreesFrame
<1> QED BY <1>4, <1>5, <1>7, <1>9

\* Entries and pages that anybody may have written.
LEMMA JunkType == Junk \in Contents /\ Zero \in Contents
<1>1. PROC_START \in Pages /\ 0 \in Pages
  BY Layout
<1>2. Entry(PROC_START, PWU) \in [pa : Pages, flags : SUBSET PTE]
  BY <1>1 DEF Entry, PWU, PTE
<1>3. Entry(0, {}) \in [pa : Pages, flags : SUBSET PTE]
  BY <1>1 DEF Entry
<1> QED BY <1>2, <1>3 DEF Junk, Zero, Contents

\* Writing a page as data keeps the type of memory.
LEMMA SpoiledType ==
    ASSUME NEW m \in Memory, NEW S
    PROVE  Spoiled(m, S) \in Memory /\ \A n \in Pages : n \notin S => Spoiled(m, S)[n] = m[n]
  BY JunkType DEF Spoiled, Memory

\* The temporary table.
LEMMA RebootMade ==
    ASSUME NEW m \in Memory
    PROVE  reboot_tables(m) \in Memory /\ RebootTree(reboot_tables(m))
<1> DEFINE R == RebootTable
           c == Cleared(m, R .. R + 2)
           E(n, f) == [pa |-> n, flags |-> f]
           T == [pa : Pages, flags : SUBSET PTE]
<1>1. R \in Nat /\ R \in Pages /\ R + 1 \in Pages /\ R + 2 \in Pages
  <2>1. R \in Nat /\ R .. R + 2 \subseteq Pages
    BY PageTableAssumption
  <2> QED BY <2>1
<1>2. c \in Memory
  BY JunkType DEF Cleared, Memory
<1>3. 0 \in Index /\ 0 \in Pages
  BY Layout
<1>4. Entry(R + 1, PWU) \in T /\ Entry(R + 2, PWU) \in T /\ Entry(0, PWU \cup {"PS"}) \in T
  BY <1>1, <1>3 DEF Entry, PWU, PTE
<1> HIDE DEF c
<1> DEFINE c0 == [c[R] EXCEPT ![0] = Entry(R + 1, PWU)]
           c1 == [c[R + 1] EXCEPT ![0] = Entry(R + 2, PWU)]
           c2 == [c[R + 2] EXCEPT ![0] = Entry(0, PWU \cup {"PS"})]
           N == [[[c EXCEPT ![R] = c0] EXCEPT ![R + 1] = c1] EXCEPT ![R + 2] = c2]
<1>5. /\ c[R] \in [Index -> T] /\ c[R + 1] \in [Index -> T] /\ c[R + 2] \in [Index -> T]
  BY <1>1, <1>2 DEF Memory, Contents
<1>6. c0 \in Contents /\ c1 \in Contents /\ c2 \in Contents
  BY <1>3, <1>4, <1>5 DEF Contents
<1>7. c0[0] = Entry(R + 1, PWU) /\ c1[0] = Entry(R + 2, PWU) /\ c2[0] = Entry(0, PWU \cup {"PS"})
  BY <1>3, <1>5
<1>8. reboot_tables(m) = N
  <2>1. R # R + 1 /\ R # R + 2 /\ R + 1 # R + 2
    BY <1>1
  <2>2. [c EXCEPT ![R] = c0][R + 1] = c[R + 1]
    BY <1>1, <1>2, <2>1 DEF Memory
  <2>3. [[c EXCEPT ![R] = c0] EXCEPT ![R + 1] = c1][R + 2] = c[R + 2]
    BY <1>1, <1>2, <2>1 DEF Memory
  <2> QED BY <2>2, <2>3 DEF reboot_tables, c
<1> HIDE DEF c0, c1, c2
<1>9. N \in Memory /\ N[R] = c0 /\ N[R + 1] = c1 /\ N[R + 2] = c2
  BY <1>1, <1>2, <1>6 DEF Memory
<1> HIDE DEF N
<1> QED BY <1>7, <1>8, <1>9 DEF RebootTree

\* The temporary table maps the kernel to itself.
LEMMA RebootWalk ==
    ASSUME NEW m, RebootTree(m), NEW n \in KernelPages
    PROVE  translate(m, RebootTable, n).pn = n /\ "W" \in translate(m, RebootTable, n).perm
<1>1. n \in Reach /\ n \in Nat /\ n < FANOUT
  BY Layout, InReach
<1>2. PAGEINDEX(n, 0) = 0 /\ PAGEINDEX(n, 1) = 0 /\ PAGEINDEX(n, 2) = 0 /\ PAGEINDEX(n, 3) = n
  BY <1>1, IndexLow DEF LeafIndex
<1> DEFINE R == RebootTable
           w0 == walk_level(m, Entry(R, PWU), n, 0)
           w1 == walk_level(m, w0, n, 1)
           w2 == walk_level(m, w1, n, 2)
           w3 == walk_level(m, w2, n, 3)
           L == PWU \cup {"PS"}
<1>3. /\ entry_at(m, R, n, 0) = Entry(R + 1, PWU) /\ entry_at(m, R + 1, n, 1) = Entry(R + 2, PWU)
      /\ entry_at(m, R + 2, n, 2) = Entry(0, L)
  BY <1>2 DEF entry_at, RebootTree
<1>4. w0 = Entry(R + 1, PWU)
  BY <1>3, FlagsAre, WalkStep
<1>5. w1 = Entry(R + 2, PWU)
  BY <1>3, <1>4, FlagsAre, WalkStep
<1>6. w2 = Entry(0, L)
  BY <1>3, <1>5, FlagsAre, WalkStep
<1>7. w3 = Entry(0 + PAGEINDEX(n, 3), L \ {"PS"})
  <2>1. Entry(0, L).pa = 0 /\ Entry(0, L).flags = L /\ "P" \in L /\ "PS" \in L
    BY DEF Entry, PWU
  <2> HIDE DEF L
  <2>2. walk_level(m, Entry(0, L), n, 3)
          = Entry(Entry(0, L).pa + PAGEINDEX(n, 3), Entry(0, L).flags \ {"PS"})
    BY <2>1 DEF walk_level
  <2> QED BY <1>6, <2>1, <2>2
<1>8. w3 = Entry(n, PWU)
  <2>1. 0 + PAGEINDEX(n, 3) = n /\ L \ {"PS"} = PWU
    BY <1>1, <1>2 DEF PWU
  <2> QED BY <1>7, <2>1
<1>9. translate(m, R, n) = found(w3)
  BY DEF translate
<1> HIDE DEF w3
<1> QED BY <1>8, <1>9 DEF found, Entry, PWU

\* The kernel's table is the identity on physical memory.
LEMMA KernelView ==
    ASSUME NEW m \in Memory, KernelTree(m), NEW n \in Pages
    PROVE  /\ virtual_memory_lookup(m, kernel_pagetable, n) = [pn |-> n, perm |-> PWU]
           /\ translate(m, kernel_pagetable, n) = [pn |-> n, perm |-> PWU]
<1>1. Five(KERNEL) /\ KERNEL[0] = kernel_pagetable /\ Tree(m, KERNEL)
  BY KernelLayout DEF KernelTree
<1>2. n \in Reach /\ n \in Addresses /\ n < NPAGES
  BY InReach, Layout
<1>3. Leaf(m, KERNEL, n) = Entry(n, PWU)
  BY <1>2 DEF KernelTree, KernelLeaf
<1>4. View(m, KERNEL, n) = [pn |-> n, perm |-> PWU]
  BY <1>2, <1>3 DEF View, found, Entry, PWU
<1> QED BY <1>1, <1>2, <1>4, ViewExact

\* So are a process's tables on the kernel.
LEMMA ProcView ==
    ASSUME NEW m \in Memory, NEW o, NEW t, NEW p, ProcTree(m, o, t, p), NEW n \in KernelPages
    PROVE  /\ virtual_memory_lookup(m, t[0], n) = [pn |-> n, perm |-> PW]
           /\ translate(m, t[0], n) = [pn |-> n, perm |-> PW]
<1>1. Five(t) /\ Tree(m, t)
  BY DEF ProcTree
<1>2. n \in Reach /\ n \in Addresses /\ n \in 0 .. (PROC_START - 1) /\ n # ConsolePage
  BY InReach, Layout
<1>3. Leaf(m, t, n) = Entry(n, PW)
  BY <1>2 DEF ProcTree, LowLeaf
<1>4. View(m, t, n) = [pn |-> n, perm |-> PW]
  BY <1>2, <1>3 DEF View, found, Entry, PW
<1> QED BY <1>1, <1>2, <1>4, ViewExact

\* No assertion on a table fails when the tables are in order.
LEMMA Installable ==
    ASSUME NEW m \in Memory, NEW o, NEW ts, Trees(m, o, ts)
    PROVE  /\ set_pagetable_ok(m, kernel_pagetable) /\ identity_mapped(m)
           /\ \A p \in Procs : ts[p] # NoTables => set_pagetable_ok(m, ts[p][0])
<1>1. KernelTree(m) /\ kernel_pagetable \in Pages
  <2>1. KERNEL[0] = kernel_pagetable /\ KERNEL[0] \in KernelPages
    BY KernelLayout, 0 \in 0 .. 4
  <2>2. KernelTree(m)
    BY DEF Trees
  <2> QED BY <2>1, <2>2, Layout
<1>2. \A n \in Pages : virtual_memory_lookup(m, kernel_pagetable, n) = [pn |-> n, perm |-> PWU]
  BY <1>1, KernelView
<1>3. "W" \in PWU /\ "W" \in PW /\ PW \subseteq PWU
  BY DEF PWU, PW
<1>4. identity_mapped(m)
  BY <1>2, <1>3 DEF identity_mapped
<1>5. \A n \in Pages : virtual_memory_lookup(m, kernel_pagetable, n).pn = n
  BY <1>2
<1>6. set_pagetable_ok(m, kernel_pagetable)
  <2>1. \A n \in KernelPages : n \in Pages
    BY Layout
  <2>2. \A n \in KernelPages : "W" \in virtual_memory_lookup(m, kernel_pagetable, n).perm
    BY <1>2, <1>3, <2>1
  <2> QED BY <1>1, <1>5, <2>1, <2>2, Zenon DEF set_pagetable_ok
<1>7. ASSUME NEW p \in Procs, ts[p] # NoTables PROVE set_pagetable_ok(m, ts[p][0])
  <2>1. ProcTree(m, o, ts[p], p)
    BY <1>7 DEF Trees
  <2>2. \A n \in KernelPages : virtual_memory_lookup(m, ts[p][0], n) = [pn |-> n, perm |-> PW]
    BY <2>1, ProcView
  <2>3. ts[p][0] \in Pages
    BY <2>1 DEF ProcTree, Five
  <2>4. \A n \in KernelPages : /\ virtual_memory_lookup(m, ts[p][0], n).pn = n
                                /\ "W" \in virtual_memory_lookup(m, ts[p][0], n).perm
    <3> TAKE n \in KernelPages
    <3>1. virtual_memory_lookup(m, ts[p][0], n) = [pn |-> n, perm |-> PW]
      BY <2>2
    <3> QED BY <1>3, <3>1
  <2> QED BY <1>5, <2>3, <2>4, Zenon DEF set_pagetable_ok
<1> QED BY <1>4, <1>6, <1>7

\* At boot the reserved pages and the kernel are owned by the kernel.
LEMMA InitOwnerOk == InitOwner \in Owners /\ KernelOwned(InitOwner)
  BY Layout DEF InitOwner, Owners, KernelOwned, Kernels

\* the parts of the invariant that the steps keep, in the form the lemmas take
LEMMA Types == ASSUME Inv PROVE mem \in Memory /\ owner \in Owners /\ pt \in Tables /\ KernelOwned(owner)
  BY DEF Inv, TypeOK, Memory, Contents, Owners, Tables, KernelOwned

\* A step that leaves the kernel in its table.
LEMMA InKernel ==
    ASSUME mem' \in Memory, owner' \in Owners, pt' \in Tables, KernelOwned(owner'),
           Trees(mem', owner', pt'), cr3' = kernel_pagetable, mode' \in {"kernel", "panic"}
    PROVE  Inv'
<1>1. cr3' \in Pages
  <2>1. KERNEL[0] = kernel_pagetable /\ KERNEL[0] \in KernelPages
    BY KernelLayout, 0 \in 0 .. 4
  <2> QED BY <2>1, Layout
<1>2. TypeOK'
  BY <1>1 DEF TypeOK, Memory, Contents, Owners, Tables
<1> QED BY <1>2 DEF Inv, KernelOwned

\* The states the boot loader leaves satisfy the invariant.
LEMMA InitOk == Init => Inv
<1> SUFFICES ASSUME Init PROVE Inv
  OBVIOUS
<1>1. [n \in Pages |-> Junk] \in Memory
  BY JunkType DEF Memory
<1>2. mem \in Memory /\ RebootTree(mem)
  BY <1>1, RebootMade DEF Init
<1>3. owner \in Owners /\ KernelOwned(owner)
  BY InitOwnerOk DEF Init
<1>4. pt \in Tables
  BY DEF Init, Tables
<1>5. RebootTable \in Pages
  <2>1. RebootTable \in Nat /\ RebootTable .. RebootTable + 2 \subseteq Pages
    BY PageTableAssumption
  <2> QED BY <2>1
<1>6. TypeOK
  BY <1>2, <1>3, <1>4, <1>5 DEF TypeOK, Memory, Contents, Owners, Tables, Init
<1> QED BY <1>2, <1>3, <1>6 DEF Inv, KernelOwned, Init

\* virtual_memory_init builds the kernel table, and its assertions hold.
LEMMA BootOk == ASSUME Inv, Boot PROVE Inv'
<1> DEFINE m == virtual_memory_init(mem)
           F == {n \in Pages : owner'[n] = "free"}
<1>1. mem \in Memory
  BY Types
<1>2. m \in Memory /\ KernelTree(m)
  BY <1>1, KernelMade
<1>3. mem' = Spoiled(m, F) /\ owner' = InitOwner /\ pt' = [p \in Procs |-> NoTables]
  BY DEF Boot
<1>4. owner' \in Owners /\ KernelOwned(owner')
  BY <1>3, InitOwnerOk
<1>5. \A n \in KernelPages : n \in Pages /\ n \notin F
  BY <1>4, Layout DEF KernelOwned
<1> HIDE DEF m, F
<1>6. mem' \in Memory /\ \A n \in KernelPages : mem'[n] = m[n]
  BY <1>2, <1>3, <1>5, SpoiledType
<1>7. KernelTree(mem')
  BY <1>2, <1>6, KernelFrame
<1>8. pt' \in Tables /\ \A p \in Procs : pt'[p] = NoTables
  BY <1>3 DEF Tables
<1>9. Trees(mem', owner', pt')
  BY <1>7, <1>8, Zenon DEF Trees
<1>10. set_pagetable_ok(mem', kernel_pagetable) /\ identity_mapped(mem')
  BY <1>6, <1>9, Installable
<1>11. cr3' = kernel_pagetable /\ mode' = "kernel"
  BY <1>10 DEF Boot, Install
<1> QED BY <1>4, <1>6, <1>8, <1>9, <1>11, InKernel

\* process_config_tables gives a process tables that show low memory.
LEMMA ConfigOk ==
    ASSUME Inv, NEW p \in Procs, ConfigTables(p)
    PROVE  /\ Inv' /\ SameLeaves(mem, mem', pt', p) /\ Five(palloc5)
           /\ pt' = [pt EXCEPT ![p] = palloc5] /\ mem' = config_tables(mem, palloc5)
<1> DEFINE t == palloc5
<1>1. mem \in Memory /\ owner \in Owners /\ pt \in Tables /\ KernelOwned(owner)
  BY Types
<1>2. Trees(mem, owner, pt) /\ cr3 = kernel_pagetable
  BY DEF Inv, ConfigTables
<1>3. Five(t) /\ AllFree(owner, t)
  BY FiveFree DEF ConfigTables, free, AllFree
<1>4. /\ mem' = config_tables(mem, t)
      /\ owner' = [n \in Pages |-> IF n \in TablesOf(t) THEN p ELSE owner[n]]
      /\ pt' = [pt EXCEPT ![p] = t] /\ cr3' = cr3 /\ mode' = "kernel"
  BY DEF ConfigTables
<1> HIDE DEF t
<1>5. config_tables(mem, t) \in Memory
  BY <1>1, <1>3, ConfigMade
<1>6. /\ Trees(config_tables(mem, t), owner', pt')
      /\ owner' \in Owners /\ pt' \in Tables /\ KernelOwned(owner')
      /\ SameLeaves(mem, config_tables(mem, t), pt', p)
  <2>1. Trees(config_tables(mem, t), owner', pt')
    BY <1>1, <1>2, <1>3, <1>4, ConfigTrees
  <2>2. KernelOwned(owner')
    BY <1>1, <1>2, <1>3, <1>4, ConfigTrees
  <2>3. SameLeaves(mem, config_tables(mem, t), pt', p)
    BY <1>1, <1>2, <1>3, <1>4, ConfigTrees
  <2>4. owner' \in Owners /\ pt' \in Tables
    BY <1>1, <1>3, <1>4 DEF Owners, Tables, Five
  <2> QED BY <2>1, <2>2, <2>3, <2>4
<1>7. Inv'
  BY <1>2, <1>4, <1>5, <1>6, InKernel
<1> QED BY <1>3, <1>4, <1>6, <1>7 DEF t

\* What the actions on one page of p start from.
LEMMA OwnTables ==
    ASSUME Inv, mode = "kernel", NEW p \in Procs, p \in Live
    PROVE  /\ pt[p] # NoTables /\ ProcTree(mem, owner, pt[p], p) /\ Trees(mem, owner, pt)
           /\ cr3 = kernel_pagetable /\ Five(pt[p]) /\ Tree(mem, pt[p])
<1>1. pt[p] # NoTables /\ Trees(mem, owner, pt) /\ cr3 = kernel_pagetable
  BY DEF Live, Inv
<1>2. ProcTree(mem, owner, pt[p], p)
  BY <1>1 DEF Trees
<1> QED BY <1>1, <1>2 DEF ProcTree

\* A page that lookup finds for a user's address is a leaf, and the process's.
LEMMA FoundPage ==
    ASSUME NEW m \in Memory, NEW o, NEW t, NEW p, ProcTree(m, o, t, p), NEW v \in UserPages,
           virtual_memory_lookup(m, t[0], v).pn # -1
    PROVE  LET n == virtual_memory_lookup(m, t[0], v).pn
           IN  /\ v \in High /\ Present(Leaf(m, t, v)) /\ n = Leaf(m, t, v).pa /\ n \in Pages
               /\ o[n] = p /\ Foreign(t, n) /\ Only(m, t, v, n)
               /\ found(Leaf(m, t, v)).pn = n
<1> DEFINE n == virtual_memory_lookup(m, t[0], v).pn
<1>1. Five(t) /\ Tree(m, t)
  BY DEF ProcTree
<1>2. v \in Addresses /\ v >= PROC_START
  BY Layout
<1>3. virtual_memory_lookup(m, t[0], v) = View(m, t, v)
  BY <1>1, <1>2, ViewExact
<1>4. v \in Reach
  BY <1>3 DEF View, Absent
<1>5. v \in High
  BY <1>2, <1>4, InReach
<1>6. n = found(Leaf(m, t, v)).pn
  BY <1>3, <1>4 DEF View
<1>7. Present(Leaf(m, t, v)) /\ n = Leaf(m, t, v).pa
  BY <1>6 DEF found, Present
<1>8. n \in Pages
  BY <1>1, <1>4, <1>7, LeafType
<1>9. /\ o[Leaf(m, t, v).pa] = p /\ \A k \in 0 .. 4 : Leaf(m, t, v).pa # t[k]
      /\ \A w \in High : Present(Leaf(m, t, w)) /\ Leaf(m, t, w).pa = Leaf(m, t, v).pa => w = v
  BY <1>5, <1>7, Zenon DEF ProcTree
<1> HIDE DEF n
<1>10. Only(m, t, v, n) /\ Foreign(t, n)
  BY <1>7, <1>9 DEF Only, Foreign
<1> QED BY <1>5, <1>6, <1>7, <1>8, <1>9, <1>10 DEF n

\* the leaf of v is all that changes in the tables of p
OneLeaf(m, n, ts, p, v) ==
    /\ SameLeaves(m, n, ts, p)
    /\ \A w \in Reach : w # v => Leaf(n, ts[p], w) = Leaf(m, ts[p], w)

\* MapPage maps a page that was free, or refuses and panics.
LEMMA MapOk ==
    ASSUME Inv, NEW p \in Procs, NEW v \in UserPages, MapPage(p, v)
    PROVE  /\ Inv' /\ pt' = pt
           /\ \/ mem' = mem
              \/ /\ v \in High /\ OneLeaf(mem, mem', pt, p, v)
                 /\ Leaf(mem', pt[p], v) = Entry(Min(free), PWU)
                 /\ Min(free) \in Pages /\ owner[Min(free)] = "free"
<1> DEFINE n == Min(free)
           t == pt[p]
           d == virtual_memory_map(mem, t[0], v, n, 1, PWU)
<1>1. mem \in Memory /\ owner \in Owners /\ pt \in Tables /\ KernelOwned(owner)
  BY Types
<1>2. /\ t # NoTables /\ ProcTree(mem, owner, t, p) /\ Trees(mem, owner, pt)
      /\ cr3 = kernel_pagetable /\ Five(t) /\ Tree(mem, t)
  BY OwnTables DEF MapPage
<1>3. n \in Pages /\ owner[n] = "free" /\ n \in Nat
  BY MinFree, Layout DEF MapPage
<1>4. /\ mem' = d.mem /\ owner' = [owner EXCEPT ![n] = p] /\ pt' = pt /\ cr3' = cr3
      /\ mode' = IF d.ret = 0 THEN "kernel" ELSE "panic"
  BY DEF MapPage
<1>5. v \in Addresses /\ v >= PROC_START
  BY Layout
<1>d. d = virtual_memory_map(mem, pt[p][0], v, n, 1, PWU) /\ PWU \in Perms /\ "P" \in PWU
  BY DEF PWU, PTE, Perms
<1>6. Foreign(t, n) /\ Change(PWU, p, p)
  BY <1>2, <1>3, Layout DEF ProcTree, Foreign, Change
<1>7. \A w \in High : Present(Leaf(mem, t, w)) => Leaf(mem, t, w).pa # n
  <2> SUFFICES ASSUME NEW w \in High, Present(Leaf(mem, t, w)) PROVE owner[Leaf(mem, t, w).pa] = p
    BY <1>3, Layout
  <2> QED BY <1>2, Zenon DEF ProcTree
<1> HIDE DEF n, d
<1>8. CASE v \in Reach
  <2>1. v \in High
    BY <1>5, <1>8, InReach
  <2>2. Only(mem, pt[p], v, n) /\ owner[n] \in {p, "free"} /\ p \in {p, "free"}
    BY <1>3, <1>7 DEF Only
  <2>3. /\ Trees(d.mem, owner', pt) /\ owner' \in Owners /\ KernelOwned(owner')
        /\ SameLeaves(mem, d.mem, pt, p) /\ d.ret = 0 /\ d.mem \in Memory
        /\ Leaf(d.mem, pt[p], v) = Entry(IF "P" \in PWU THEN n ELSE 0, PWU)
        /\ \A w \in Reach : w # v => Leaf(d.mem, pt[p], w) = Leaf(mem, pt[p], w)
    <3>1. CanChange(mem, owner, pt, p, v, n, p, PWU)
      BY <1>1, <1>2, <1>3, <1>d, <1>6, <2>1, <2>2 DEF CanChange
    <3>2. Changed(mem, pt, p, v, n, PWU, owner', d)
      BY <1>4, <1>d, <3>1, ChangeTrees
    <3> QED BY <3>2 DEF Changed
  <2>4. Inv'
    BY <1>1, <1>2, <1>4, <2>3, InKernel
  <2> QED BY <1>3, <1>4, <1>d, <2>1, <2>3, <2>4 DEF OneLeaf, n
<1>9. CASE v \notin Reach
  <2>1. d.mem = mem /\ d.ret = -1
    BY <1>2, <1>3, <1>5, <1>d, <1>9, MapHigh
  <2>2. owner' \in Owners /\ \A x \in Pages : x # n => owner'[x] = owner[x]
    BY <1>1, <1>3, <1>4 DEF Owners
  <2>3. KernelOwned(owner')
    BY <1>1, <1>3, <2>2, Layout DEF KernelOwned
  <2>4. ASSUME NEW q \in Procs, pt[q] # NoTables PROVE ProcTree(mem, owner', pt[q], q)
    <3>1. ProcTree(mem, owner, pt[q], q)
      BY <1>2, <2>4 DEF Trees
    <3>2. Spared(mem, mem, owner, owner', q)
      BY <1>3, <2>2, Layout DEF Spared
    <3> QED BY <1>1, <3>1, <3>2, ProcFrame
  <2>5. Trees(mem, owner', pt)
    BY <1>2, <2>4 DEF Trees
  <2>6. Inv'
    BY <1>1, <1>2, <1>4, <2>1, <2>2, <2>3, <2>5, InKernel
  <2> QED BY <1>4, <2>1, <2>6
<1> QED BY <1>8, <1>9

\* ReadOnly keeps the page and its owner.
LEMMA ReadOnlyOk ==
    ASSUME Inv, NEW p \in Procs, NEW v \in UserPages, ReadOnly(p, v)
    PROVE  /\ Inv' /\ pt' = pt /\ v \in High /\ OneLeaf(mem, mem', pt, p, v)
           /\ Present(Leaf(mem, pt[p], v))
           /\ Leaf(mem', pt[p], v) = Entry(Leaf(mem, pt[p], v).pa, PU)
<1> DEFINE t == pt[p]
           n == virtual_memory_lookup(mem, t[0], v).pn
           d == virtual_memory_map(mem, pt[p][0], v, n, 1, PU)
<1>1. mem \in Memory /\ owner \in Owners /\ pt \in Tables /\ KernelOwned(owner)
  BY Types
<1>2. /\ pt[p] # NoTables /\ ProcTree(mem, owner, t, p) /\ Trees(mem, owner, pt)
      /\ cr3 = kernel_pagetable
  BY OwnTables DEF ReadOnly
<1>3. n # -1 /\ mem' = d.mem /\ owner' = owner /\ pt' = pt /\ cr3' = cr3 /\ mode' = "kernel"
  BY DEF ReadOnly
<1>4. /\ v \in High /\ Present(Leaf(mem, t, v)) /\ n = Leaf(mem, t, v).pa /\ n \in Pages
      /\ owner[n] = p /\ Foreign(t, n) /\ Only(mem, t, v, n)
  BY <1>1, <1>2, <1>3, FoundPage
<1>5. PU \in Perms /\ "P" \in PU /\ Change(PU, p, p) /\ owner[n] \in {p, "free"} /\ p \in {p, "free"}
  BY <1>4 DEF PU, PTE, Perms, Change
<1>d. d = virtual_memory_map(mem, pt[p][0], v, n, 1, PU)
  OBVIOUS
<1> HIDE DEF n, d
<1>6. owner = [owner EXCEPT ![n] = p]
  BY <1>1, <1>4 DEF Owners
<1>7. Changed(mem, pt, p, v, n, PU, owner, d)
  <2>1. CanChange(mem, owner, pt, p, v, n, p, PU)
    BY <1>1, <1>2, <1>4, <1>5 DEF CanChange
  <2> QED BY <1>6, <1>d, <2>1, ChangeTrees
<1>8. /\ Trees(d.mem, owner, pt) /\ SameLeaves(mem, d.mem, pt, p) /\ d.mem \in Memory
      /\ Leaf(d.mem, pt[p], v) = Entry(IF "P" \in PU THEN n ELSE 0, PU)
      /\ \A w \in Reach : w # v => Leaf(d.mem, pt[p], w) = Leaf(mem, pt[p], w)
  BY <1>7 DEF Changed
<1>9. Inv'
  BY <1>1, <1>2, <1>3, <1>8, InKernel
<1> QED BY <1>3, <1>4, <1>5, <1>8, <1>9 DEF OneLeaf

\* UnmapPage frees the page, which is at no other place.
LEMMA UnmapOk ==
    ASSUME Inv, NEW p \in Procs, NEW v \in UserPages, UnmapPage(p, v)
    PROVE  /\ Inv' /\ pt' = pt /\ v \in High /\ OneLeaf(mem, mem', pt, p, v)
           /\ Leaf(mem', pt[p], v) = Entry(0, WU)
<1> DEFINE t == pt[p]
           n == virtual_memory_lookup(mem, t[0], v).pn
           d == virtual_memory_map(mem, pt[p][0], v, n, 1, WU)
<1>1. mem \in Memory /\ owner \in Owners /\ pt \in Tables /\ KernelOwned(owner)
  BY Types
<1>2. /\ pt[p] # NoTables /\ ProcTree(mem, owner, t, p) /\ Trees(mem, owner, pt)
      /\ cr3 = kernel_pagetable
  BY OwnTables DEF UnmapPage
<1>3. /\ n # -1 /\ mem' = d.mem /\ owner' = [owner EXCEPT ![n] = "free"]
      /\ pt' = pt /\ cr3' = cr3 /\ mode' = "kernel"
  BY DEF UnmapPage
<1>4. /\ v \in High /\ Present(Leaf(mem, t, v)) /\ n = Leaf(mem, t, v).pa /\ n \in Pages
      /\ owner[n] = p /\ Foreign(t, n) /\ Only(mem, t, v, n)
  BY <1>1, <1>2, <1>3, FoundPage
<1>5. /\ WU \in Perms /\ "P" \notin WU /\ Change(WU, "free", p)
      /\ owner[n] \in {p, "free"} /\ "free" \in {p, "free"}
  BY <1>4 DEF WU, PTE, Perms, Change
<1>d. d = virtual_memory_map(mem, pt[p][0], v, n, 1, WU)
  OBVIOUS
<1> HIDE DEF n, d
<1>6. Changed(mem, pt, p, v, n, WU, owner', d)
  <2>1. CanChange(mem, owner, pt, p, v, n, "free", WU)
    BY <1>1, <1>2, <1>4, <1>5 DEF CanChange
  <2> QED BY <1>3, <1>d, <2>1, ChangeTrees
<1>7. /\ Trees(d.mem, owner', pt) /\ SameLeaves(mem, d.mem, pt, p) /\ d.mem \in Memory
      /\ owner' \in Owners /\ KernelOwned(owner')
      /\ Leaf(d.mem, pt[p], v) = Entry(IF "P" \in WU THEN n ELSE 0, WU)
      /\ \A w \in Reach : w # v => Leaf(d.mem, pt[p], w) = Leaf(mem, pt[p], w)
  BY <1>6 DEF Changed
<1>8. Inv'
  BY <1>1, <1>2, <1>3, <1>7, InKernel
<1> QED BY <1>3, <1>4, <1>5, <1>7, <1>8 DEF OneLeaf

\* process_free takes the tables of one process and no page of another.
LEMMA FreeOk ==
    ASSUME Inv, NEW p \in Procs, Free(p)
    PROVE  Inv' /\ SameLeaves(mem, mem', pt', p) /\ pt' = [pt EXCEPT ![p] = NoTables]
<1>1. mem \in Memory /\ owner \in Owners /\ pt \in Tables /\ KernelOwned(owner)
  BY Types
<1>2. pt[p] # NoTables /\ Trees(mem, owner, pt) /\ cr3 = kernel_pagetable
  BY OwnTables DEF Free
<1>3. /\ owner' = Freed(mem, owner, pt[p])
      /\ mem' = Spoiled(mem, TablesOf(pt[p])) /\ pt' = [pt EXCEPT ![p] = NoTables]
      /\ cr3' = cr3 /\ mode' = "kernel"
  BY DEF Free, High, Given, Freed
<1>4. Trees(mem', owner', pt')
  BY <1>1, <1>2, <1>3, FreeTrees
<1>5. SameLeaves(mem, mem', pt', p)
  BY <1>1, <1>2, <1>3, FreeTrees
<1>6. KernelOwned(owner')
  BY <1>1, <1>2, <1>3, FreeTrees
<1>7. mem' \in Memory
  BY <1>1, <1>3, SpoiledType
<1>8. owner' \in Owners /\ pt' \in Tables
  BY <1>1, <1>3 DEF Owners, Tables, Freed
<1>9. Inv'
  BY <1>2, <1>3, <1>4, <1>6, <1>7, <1>8, InKernel
<1> QED BY <1>3, <1>5, <1>9

\* A return to a process loads its table and changes no mapping.
LEMMA RunOk == ASSUME Inv, NEW p \in Procs, Run(p) PROVE Inv' /\ UNCHANGED <<mem, pt>>
<1>1. mem \in Memory /\ owner \in Owners /\ pt \in Tables /\ KernelOwned(owner)
  BY Types
<1>2. pt[p] # NoTables /\ Trees(mem, owner, pt) /\ Five(pt[p])
  BY OwnTables DEF Run
<1>3. mem' = mem /\ owner' = owner /\ pt' = pt
  BY DEF Run
<1>4. set_pagetable_ok(mem', pt[p][0])
  BY <1>1, <1>2, <1>3, Installable
<1>5. cr3' = pt[p][0] /\ mode' = "user"
  BY <1>4 DEF Run, Install
<1>6. cr3' \in Pages
  BY <1>2, <1>5 DEF Five
<1>7. TypeOK'
  BY <1>1, <1>3, <1>5, <1>6 DEF TypeOK, Memory, Contents, Owners, Tables
<1>8. \E q \in Procs : pt'[q] # NoTables /\ cr3' = pt'[q][0]
  BY <1>2, <1>3, <1>5
<1> QED BY <1>1, <1>2, <1>3, <1>5, <1>7, <1>8 DEF Inv, KernelOwned

\* An exception goes back to the kernel table and changes no mapping.
LEMMA ExceptionOk == ASSUME Inv, Exception PROVE Inv' /\ UNCHANGED <<mem, pt>>
<1>1. mem \in Memory /\ owner \in Owners /\ pt \in Tables /\ KernelOwned(owner)
  BY Types
<1>2. Trees(mem, owner, pt)
  BY DEF Inv, Exception
<1>3. mem' = mem /\ owner' = owner /\ pt' = pt
  BY DEF Exception
<1>4. set_pagetable_ok(mem', kernel_pagetable)
  BY <1>1, <1>2, <1>3, Installable
<1>5. cr3' = kernel_pagetable /\ mode' = "kernel"
  BY <1>4 DEF Exception, Install
<1> QED BY <1>1, <1>2, <1>3, <1>5, InKernel

\* A soft reboot runs on the temporary table it has written.
LEMMA SoftRebootOk == ASSUME Inv, SoftReboot PROVE Inv'
<1>1. mem \in Memory
  BY Types
<1>2. mem' \in Memory /\ RebootTree(mem')
  BY <1>1, SpoiledType, RebootMade DEF SoftReboot
<1>3. owner' \in Owners /\ KernelOwned(owner')
  BY InitOwnerOk DEF SoftReboot
<1>4. pt' \in Tables /\ cr3' = RebootTable /\ mode' = "boot"
  BY DEF SoftReboot, Tables
<1>5. RebootTable \in Pages
  <2>1. RebootTable \in Nat /\ RebootTable .. RebootTable + 2 \subseteq Pages
    BY PageTableAssumption
  <2> QED BY <2>1
<1>6. TypeOK'
  BY <1>2, <1>3, <1>4, <1>5 DEF TypeOK, Memory, Contents, Owners, Tables
<1> QED BY <1>2, <1>3, <1>4, <1>6 DEF Inv, KernelOwned

\* A step that leaves everything as it is.
LEMMA StutterOk == ASSUME Inv, UNCHANGED vars PROVE Inv'
  BY DEF Inv, TypeOK, vars

\* Every step keeps the invariant.
LEMMA NextOk == ASSUME Inv, [Next]_vars PROVE Inv'
<1>1. CASE Boot
  BY <1>1, BootOk
<1>2. CASE Exception
  BY <1>2, ExceptionOk
<1>3. CASE SoftReboot
  BY <1>3, SoftRebootOk
<1>4. ASSUME NEW p \in Procs, ConfigTables(p) PROVE Inv'
  BY <1>4, ConfigOk
<1>5. ASSUME NEW p \in Procs, Free(p) PROVE Inv'
  BY <1>5, FreeOk
<1>6. ASSUME NEW p \in Procs, Run(p) PROVE Inv'
  BY <1>6, RunOk
<1>7. ASSUME NEW p \in Procs, NEW v \in UserPages, MapPage(p, v) PROVE Inv'
  BY <1>7, MapOk
<1>8. ASSUME NEW p \in Procs, NEW v \in UserPages, ReadOnly(p, v) PROVE Inv'
  BY <1>8, ReadOnlyOk
<1>9. ASSUME NEW p \in Procs, NEW v \in UserPages, UnmapPage(p, v) PROVE Inv'
  BY <1>9, UnmapOk
<1>10. CASE UNCHANGED vars
  BY <1>10, StutterOk
<1> QED BY <1>1, <1>2, <1>3, <1>4, <1>5, <1>6, <1>7, <1>8, <1>9, <1>10, Zenon DEF Next

-----------------------------------------------------------------------------
(* Theorems *)

\* The invariant holds in every reachable state: whatever is allocated, mapped,
\* freed and rebooted, every table in use has the form that virtual_memory_init
\* and process_config_tables gave it, and no page is at two places.
THEOREM InvHolds == Spec => []Inv
<1>1. Init => Inv
  BY InitOk
<1>2. Inv /\ [Next]_vars => Inv'
  BY NextOk
<1> QED BY <1>1, <1>2, PTL DEF Spec

\* Under the invariant a lookup in software finds what the processor finds.
LEMMA InvLookup == Inv => LookupExact
<1> SUFFICES ASSUME Inv PROVE LookupExact
  OBVIOUS
<1>1. TypeOK /\ mode # "assert"
  BY DEF Inv
<1>2. mem \in Memory
  BY Types
<1>3. ASSUME mode # "boot", NEW t \in {kernel_pagetable} \cup {pt[p][0] : p \in Live}, NEW v \in VPages
      PROVE  /\ virtual_memory_lookup(mem, t, v) = translate(mem, t, v)
             /\ rights_granted(mem, t, v, PWU)
  <2>1. v \in Addresses
    BY Layout
  <2>2. Trees(mem, owner, pt)
    BY <1>3 DEF Inv
  <2>3. CASE t = kernel_pagetable
    <3>1. Five(KERNEL) /\ Tree(mem, KERNEL) /\ t = KERNEL[0]
      BY <2>2, <2>3, KernelLayout DEF Trees, KernelTree
    <3>2. virtual_memory_lookup(mem, KERNEL[0], v) = translate(mem, KERNEL[0], v)
      BY <1>2, <2>1, <3>1, ViewExact
    <3>3. rights_granted(mem, KERNEL[0], v, PWU)
      BY <1>2, <2>1, <3>1, ViewExact
    <3> QED BY <3>1, <3>2, <3>3
  <2>4. ASSUME NEW p \in Live, t = pt[p][0]
        PROVE  virtual_memory_lookup(mem, t, v) = translate(mem, t, v) /\ rights_granted(mem, t, v, PWU)
    <3>1. Five(pt[p]) /\ Tree(mem, pt[p])
      BY <2>2 DEF Trees, ProcTree, Live
    <3>2. virtual_memory_lookup(mem, pt[p][0], v) = translate(mem, pt[p][0], v)
      BY <1>2, <2>1, <3>1, ViewExact
    <3>3. rights_granted(mem, pt[p][0], v, PWU)
      BY <1>2, <2>1, <3>1, ViewExact
    <3> QED BY <2>4, <3>2, <3>3
  <2> QED BY <1>3, <2>3, <2>4
<1> QED BY <1>1, <1>3 DEF LookupExact

\* Under the invariant the table loaded shows the kernel.
LEMMA InvKernel == Inv => KernelReachable
<1> SUFFICES ASSUME Inv, NEW n \in KernelPages
             PROVE  translate(mem, cr3, n).pn = n /\ "W" \in translate(mem, cr3, n).perm
  BY DEF KernelReachable
<1>1. mem \in Memory /\ n \in Pages /\ "W" \in PWU /\ "W" \in PW
  BY Types, Layout DEF PWU, PW
<1>2. CASE mode = "boot"
  BY <1>2, RebootWalk DEF Inv
<1>3. CASE mode \in {"kernel", "panic"}
  <2>1. cr3 = kernel_pagetable /\ KernelTree(mem)
    BY <1>3 DEF Inv, Trees
  <2>2. translate(mem, cr3, n) = [pn |-> n, perm |-> PWU]
    BY <1>1, <2>1, KernelView
  <2> QED BY <1>1, <2>2
<1>4. CASE mode = "user"
  <2>1. PICK p \in Procs : pt[p] # NoTables /\ cr3 = pt[p][0]
    BY <1>4 DEF Inv
  <2>2. ProcTree(mem, owner, pt[p], p)
    BY <1>4, <2>1 DEF Inv, Trees
  <2>3. translate(mem, pt[p][0], n) = [pn |-> n, perm |-> PW]
    BY <1>1, <2>2, ProcView
  <2> QED BY <1>1, <2>1, <2>3
<1> QED BY <1>2, <1>3, <1>4 DEF Inv, TypeOK

\* What a user reaches through the tables of p: the console and p's own pages.
LEMMA UserReach ==
    ASSUME NEW m \in Memory, NEW o, NEW t, NEW p, ProcTree(m, o, t, p), NEW v \in Addresses,
           "U" \in View(m, t, v).perm
    PROVE  \/ View(m, t, v).pn = ConsolePage
           \/ View(m, t, v).pn \in Pages /\ o[View(m, t, v).pn] = p /\ Foreign(t, View(m, t, v).pn)
<1> DEFINE e == Leaf(m, t, v)
<1>1. v \in Reach
  BY DEF View, Absent
<1>2. View(m, t, v) = found(e)
  BY <1>1 DEF View
<1>3. Present(e) /\ View(m, t, v) = [pn |-> e.pa, perm |-> e.flags]
  <2>1. CASE Present(e)
    BY <1>2, <2>1 DEF found, Present
  <2>2. CASE ~Present(e)
    <3>1. View(m, t, v) = [pn |-> -1, perm |-> {}]
      BY <1>2, <2>2 DEF found, Present
    <3> QED BY <3>1
  <2> QED BY <2>1, <2>2
<1>4. "U" \in e.flags /\ View(m, t, v).pn = e.pa
  BY <1>3
<1>5. CASE v \in 0 .. (PROC_START - 1)
  <2>1. e = LowLeaf(v)
    BY <1>5 DEF ProcTree
  <2>2. v = ConsolePage /\ e.pa = v
    BY <1>4, <2>1 DEF LowLeaf, Entry, PW
  <2> QED BY <1>4, <2>2
<1>6. CASE v \in High
  <2>1. Five(t)
    BY DEF ProcTree
  <2>2. o[e.pa] = p /\ \A k \in 0 .. 4 : e.pa # t[k]
    BY <1>3, <1>6, Zenon DEF ProcTree
  <2>3. e.pa \in Pages
    BY <1>1, <2>1, LeafType
  <2> QED BY <1>4, <2>2, <2>3 DEF Foreign
<1> QED BY <1>1, <1>5, <1>6, InReach

\* Under the invariant a user reaches the console and pages of its own.
LEMMA InvConfined == Inv => UserConfined
<1> SUFFICES ASSUME Inv, mode # "boot", NEW p \in Live, NEW v \in VPages,
                    "U" \in translate(mem, pt[p][0], v).perm
             PROVE  LET n == translate(mem, pt[p][0], v).pn
                    IN  \/ n = ConsolePage
                        \/ owner[n] = p /\ \A q \in Live : n \notin TablesOf(pt[q])
  BY DEF UserConfined
<1>1. mem \in Memory /\ v \in Addresses /\ Trees(mem, owner, pt)
  BY Types, Layout DEF Inv
<1>2. \A q \in Live : ProcTree(mem, owner, pt[q], q) /\ Five(pt[q])
  BY <1>1 DEF Trees, Live, ProcTree
<1>3. translate(mem, pt[p][0], v) = View(mem, pt[p], v)
  <2>1. Five(pt[p]) /\ Tree(mem, pt[p])
    BY <1>2 DEF ProcTree
  <2> QED BY <1>1, <2>1, ViewExact
<1> DEFINE n == View(mem, pt[p], v).pn
<1>4. n = ConsolePage \/ (n \in Pages /\ owner[n] = p /\ Foreign(pt[p], n))
  <2>1. "U" \in View(mem, pt[p], v).perm /\ ProcTree(mem, owner, pt[p], p)
    BY <1>2, <1>3
  <2> QED BY <1>1, <2>1, UserReach
<1> HIDE DEF n
<1>5. ASSUME owner[n] = p, Foreign(pt[p], n), NEW q \in Live PROVE n \notin TablesOf(pt[q])
  <2>1. TablesOf(pt[q]) = {pt[q][k] : k \in 0 .. 4}
    BY <1>2, FivePages
  <2>2. ASSUME NEW k \in 0 .. 4 PROVE n # pt[q][k]
    <3>1. owner[pt[q][k]] = q
      BY <1>2 DEF ProcTree
    <3> QED BY <1>5, <3>1 DEF Foreign
  <2> QED BY <2>1, <2>2
<1> QED BY <1>3, <1>4, <1>5 DEF n

\* What virtual_memory_lookup says is what the processor does, for every table in
\* use and every address, and no assertion on a table ever fails.
THEOREM LookupIsExact == Spec => []LookupExact
  BY InvHolds, InvLookup, PTL

\* The kernel is mapped to itself and writable through whatever table is in use.
THEOREM KernelStaysReachable == Spec => []KernelReachable
  BY InvHolds, InvKernel, PTL

\* A user reaches the console and the pages of its own process, tables excepted.
THEOREM UsersAreConfined == Spec => []UserConfined
  BY InvHolds, InvConfined, PTL

-----------------------------------------------------------------------------
(* Refinement *)

Low == 0 .. (PROC_START - 1)

\* the map of a process with tables t, and the maps of all processes
MapOf(m, t) == [v \in VPages |-> View(m, t, v)]
Shown(m, ts, booting) ==
    [p \in Procs |-> IF booting \/ ts[p] = NoTables THEN A!Nothing ELSE MapOf(m, ts[p])]

Space == [p \in Procs |-> IF mode = "boot" \/ p \notin Live THEN [v \in {} |-> 0]
                          ELSE [v \in VPages |-> translate(mem, pt[p][0], v)]]

\* The maps that PageTable shows to AddressSpace, in terms of leaves.
LEMMA TranslateMap ==
    ASSUME NEW m \in Memory, NEW o, NEW t, NEW p, ProcTree(m, o, t, p)
    PROVE  [v \in VPages |-> translate(m, t[0], v)] = MapOf(m, t)
<1>1. Five(t) /\ Tree(m, t)
  BY DEF ProcTree
<1>2. ASSUME NEW v \in VPages PROVE translate(m, t[0], v) = View(m, t, v)
  <2>1. v \in Addresses
    BY Layout
  <2> QED BY <1>1, <2>1, ViewExact
<1> QED BY <1>2 DEF MapOf

\* The abstract maps are those the closed form of the tables gives.
LEMMA SpaceShown == Inv => Space = Shown(mem, pt, mode = "boot")
<1> SUFFICES ASSUME Inv PROVE Space = Shown(mem, pt, mode = "boot")
  OBVIOUS
<1>1. mem \in Memory
  BY Types
<1>2. ASSUME NEW p \in Procs
      PROVE  (IF mode = "boot" \/ p \notin Live THEN [v \in {} |-> 0]
              ELSE [v \in VPages |-> translate(mem, pt[p][0], v)])
             = (IF mode = "boot" \/ pt[p] = NoTables THEN A!Nothing ELSE MapOf(mem, pt[p]))
  <2>1. p \notin Live <=> pt[p] = NoTables
    BY DEF Live
  <2>2. CASE mode = "boot" \/ pt[p] = NoTables
    BY <2>1, <2>2 DEF A!Nothing
  <2>3. CASE ~(mode = "boot" \/ pt[p] = NoTables)
    <3>1. ProcTree(mem, owner, pt[p], p)
      BY <2>3 DEF Inv, Trees
    <3>2. [v \in VPages |-> translate(mem, pt[p][0], v)] = MapOf(mem, pt[p])
      BY <1>1, <3>1, TranslateMap
    <3> QED BY <2>1, <2>3, <3>2
  <2> QED BY <2>2, <2>3
<1> QED BY <1>2, Zenon DEF Space, Shown

\* The same for the next state.
LEMMA SpaceShownNext == Inv' => Space' = Shown(mem', pt', mode' = "boot")
<1>1. Inv' => (Space = Shown(mem, pt, mode = "boot"))'
  BY SpaceShown, PTL
<1> QED BY <1>1

\* A map is not Nothing, and the maps of processes whose leaves stay are the same.
LEMMA MapIsThere == \A m, t : MapOf(m, t) # A!Nothing
<1> TAKE m, t
<1>1. DOMAIN MapOf(m, t) = VPages /\ DOMAIN A!Nothing = {} /\ VPages # {}
  BY Layout DEF MapOf, A!Nothing
<1> QED BY <1>1

\* Steps of AddressSpace
LEMMA ToNone == ASSUME NEW s PROVE A!Step(s, A!None)
  BY DEF A!Step

OthersSame(s, u, p) == \A q \in Procs \ {p} : u[q] = s[q]

\* Steps on the pages of p leave the maps of the other processes alone.
LEMMA OthersKept ==
    ASSUME NEW m, NEW n, NEW ts \in Tables, NEW us \in Tables, NEW p \in Procs, SameLeaves(m, n, us, p),
           NEW y, us = [ts EXCEPT ![p] = y]
    PROVE  OthersSame(Shown(m, ts, FALSE), Shown(n, us, FALSE), p)
<1> SUFFICES ASSUME NEW q \in Procs \ {p} PROVE Shown(n, us, FALSE)[q] = Shown(m, ts, FALSE)[q]
  BY DEF OthersSame
<1>1. us[q] = ts[q]
  BY DEF Tables
<1>2. CASE us[q] = NoTables
  BY <1>1, <1>2 DEF Shown
<1>3. CASE us[q] # NoTables
  <2>1. \A v : Leaf(n, us[q], v) = Leaf(m, us[q], v)
    BY <1>3 DEF SameLeaves
  <2>2. \A v : View(n, us[q], v) = View(m, us[q], v)
    BY <2>1 DEF View
  <2>3. MapOf(n, us[q]) = MapOf(m, us[q])
    BY <2>2 DEF MapOf
  <2> QED BY <1>1, <1>3, <2>3 DEF Shown
<1> QED BY <1>2, <1>3

\* A new process has the Fresh map.
LEMMA FreshMap ==
    ASSUME NEW m \in Memory, NEW t, Five(t)
    PROVE  MapOf(config_tables(m, t), t) = A!Fresh
<1> DEFINE n == config_tables(m, t)
<1>1. (\A v \in Low : Leaf(n, t, v) = LowLeaf(v)) /\ \A v \in High : Leaf(n, t, v) = Entry(0, {})
  BY ConfigMade DEF Low
<1> HIDE DEF n
<1>2. ASSUME NEW v \in VPages
      PROVE  View(n, t, v) = IF v = ConsolePage THEN A!Mapping(v, {"W", "U"})
                             ELSE IF v \in Low THEN A!Mapping(v, {"W"}) ELSE A!Absent
  <2>1. v \in Nat /\ ConsolePage \in Low
    BY Layout DEF Addresses, Low
  <2>2. CASE v \in Low
    <3>1. v \in Reach /\ View(n, t, v) = found(LowLeaf(v))
      BY <1>1, <2>2, InReach DEF View, Low
    <3>2. CASE v = ConsolePage
      <4>1. found(LowLeaf(v)) = [pn |-> v, perm |-> PWU]
        BY <3>2 DEF LowLeaf, Entry, found, PWU
      <4>2. {"W", "U"} \cup {"P"} = PWU
        BY DEF PWU
      <4> QED BY <3>1, <3>2, <4>1, <4>2 DEF A!Mapping
    <3>3. CASE v # ConsolePage
      <4>1. found(LowLeaf(v)) = [pn |-> v, perm |-> PW]
        BY <3>3 DEF LowLeaf, Entry, found, PW
      <4>2. {"W"} \cup {"P"} = PW
        BY DEF PW
      <4> QED BY <2>2, <3>1, <3>3, <4>1, <4>2 DEF A!Mapping
    <3> QED BY <3>2, <3>3
  <2>3. CASE v \notin Low
    <3>1. View(n, t, v) = [pn |-> -1, perm |-> {}]
      <4>1. CASE v \in Reach
        <5>1. v \in High
          BY <2>3, <4>1, InReach DEF Low
        <5>2. View(n, t, v) = found(Entry(0, {}))
          BY <1>1, <4>1, <5>1 DEF View
        <5> QED BY <5>2 DEF found, Entry
      <4>2. CASE v \notin Reach
        BY <4>2 DEF View, Absent
      <4> QED BY <4>1, <4>2
    <3>2. v # ConsolePage
      BY <2>1, <2>3
    <3> QED BY <2>3, <3>1, <3>2 DEF A!Absent
  <2> QED BY <2>2, <2>3
<1>3. A!Fresh = [v \in VPages |-> IF v = ConsolePage THEN A!Mapping(v, {"W", "U"})
                             ELSE IF v \in Low THEN A!Mapping(v, {"W"}) ELSE A!Absent]
  BY Zenon DEF A!Fresh, Low
<1>4. MapOf(n, t) = A!Fresh
  BY <1>2, <1>3, Zenon DEF MapOf
<1> QED BY <1>4 DEF n

\* Of the process whose map changes.
LEMMA OneProcess ==
    ASSUME NEW s, NEW u, NEW p \in Procs, OthersSame(s, u, p),
           A!Create(s, u, p) \/ A!Change(s, u, p) \/ A!Destroy(s, u, p)
    PROVE  A!Step(s, u)
  BY Zenon DEF A!Step, OthersSame

\* process_config_tables is the abstract Create.
LEMMA ConfigStep ==
    ASSUME Inv, Inv', NEW p \in Procs, ConfigTables(p)
    PROVE  A!Step(Space, Space')
<1>1. /\ SameLeaves(mem, mem', pt', p) /\ Five(palloc5)
      /\ pt' = [pt EXCEPT ![p] = palloc5] /\ mem' = config_tables(mem, palloc5)
  BY ConfigOk
<1>2. mode = "kernel" /\ mode' = "kernel" /\ p \notin Live
  BY DEF ConfigTables
<1>3. mem \in Memory /\ pt \in Tables /\ pt' \in Tables
  BY Types DEF Inv, TypeOK, Tables
<1>4. Space = Shown(mem, pt, FALSE) /\ Space' = Shown(mem', pt', FALSE)
  <2>1. (mode = "boot") = FALSE /\ (mode' = "boot") = FALSE
    BY <1>2
  <2> QED BY <2>1, SpaceShown, SpaceShownNext
<1>5. OthersSame(Space, Space', p)
  BY <1>1, <1>3, <1>4, OthersKept
<1>6. pt[p] = NoTables /\ pt'[p] = palloc5
  BY <1>1, <1>2, <1>3 DEF Live, Tables
<1>7. Space[p] = A!Nothing
  BY <1>4, <1>6 DEF Shown
<1>8. Space'[p] = A!Fresh
  <2>1. palloc5 # NoTables
    <3>1. DOMAIN palloc5 = 0 .. 4 /\ 0 \in 0 .. 4 /\ DOMAIN NoTables = {}
      BY DEF palloc5, NoTables
    <3> QED BY <3>1
  <2>2. Space'[p] = MapOf(mem', palloc5)
    BY <1>4, <1>6, <2>1 DEF Shown
  <2>3. MapOf(config_tables(mem, palloc5), palloc5) = A!Fresh
    BY <1>1, <1>3, FreshMap
  <2> QED BY <1>1, <2>2, <2>3
<1>9. A!Create(Space, Space', p)
  BY <1>7, <1>8 DEF A!Create
<1> QED BY <1>5, <1>9, OneProcess

\* process_free is the abstract Destroy.
LEMMA FreeStep ==
    ASSUME Inv, Inv', NEW p \in Procs, Free(p)
    PROVE  A!Step(Space, Space')
<1>1. SameLeaves(mem, mem', pt', p) /\ pt' = [pt EXCEPT ![p] = NoTables]
  BY FreeOk
<1>2. mode = "kernel" /\ mode' = "kernel" /\ p \in Live
  BY DEF Free
<1>3. pt \in Tables /\ pt' \in Tables
  BY DEF Inv, TypeOK, Tables
<1>4. Space = Shown(mem, pt, FALSE) /\ Space' = Shown(mem', pt', FALSE)
  <2>1. (mode = "boot") = FALSE /\ (mode' = "boot") = FALSE
    BY <1>2
  <2> QED BY <2>1, SpaceShown, SpaceShownNext
<1>5. OthersSame(Space, Space', p)
  BY <1>1, <1>3, <1>4, OthersKept
<1>6. pt[p] # NoTables /\ pt'[p] = NoTables
  BY <1>1, <1>2, <1>3 DEF Live, Tables
<1>7. Space[p] # A!Nothing
  BY <1>4, <1>6, MapIsThere DEF Shown
<1>8. Space'[p] = A!Nothing
  BY <1>4, <1>6 DEF Shown
<1>9. A!Destroy(Space, Space', p)
  BY <1>7, <1>8 DEF A!Destroy
<1> QED BY <1>5, <1>9, OneProcess

\* A change of one leaf is a change of one page of one map.
LEMMA LeafStep ==
    ASSUME Inv, Inv', NEW p \in Procs, p \in Live, NEW v \in UserPages, v \in High, pt' = pt,
           mode = "kernel", mode' # "boot", OneLeaf(mem, mem', pt, p, v),
           A!Successor(Space, found(Leaf(mem, pt[p], v)), found(Leaf(mem', pt[p], v)))
    PROVE  A!Step(Space, Space')
<1>1. pt \in Tables /\ pt[p] # NoTables /\ v \in VPages /\ v \in Reach /\ v \notin Low
  BY Types, Layout, InReach DEF Live, Low
<1>2. Space = Shown(mem, pt, FALSE) /\ Space' = Shown(mem', pt', FALSE)
  <2>1. (mode = "boot") = FALSE /\ (mode' = "boot") = FALSE
    OBVIOUS
  <2> QED BY <2>1, SpaceShown, SpaceShownNext
<1>3. pt' \in Tables /\ pt' = [pt EXCEPT ![p] = pt[p]] /\ SameLeaves(mem, mem', pt', p)
  BY <1>1 DEF Tables, OneLeaf
<1>4. OthersSame(Space, Space', p)
  BY <1>1, <1>2, <1>3, OthersKept
<1>5. Space[p] = MapOf(mem, pt[p]) /\ Space'[p] = MapOf(mem', pt[p])
  BY <1>1, <1>2 DEF Shown
<1>6. Space[p] # A!Nothing /\ Space'[p] # A!Nothing
  BY <1>5, MapIsThere
<1>7. Space[p][v] = found(Leaf(mem, pt[p], v)) /\ Space'[p][v] = found(Leaf(mem', pt[p], v))
  BY <1>1, <1>5 DEF MapOf, View
<1>8. Space'[p] = [Space[p] EXCEPT ![v] = Space'[p][v]]
  <2>1. ASSUME NEW w \in VPages, w # v PROVE View(mem', pt[p], w) = View(mem, pt[p], w)
    BY <2>1 DEF View, OneLeaf
  <2>2. \A w \in VPages : w # v => Space'[p][w] = Space[p][w]
    BY <1>5, <2>1 DEF MapOf
  <2>3. /\ Space[p] = [w \in VPages |-> Space[p][w]] /\ Space'[p] = [w \in VPages |-> Space'[p][w]]
    BY <1>5 DEF MapOf
  <2> DEFINE f == Space[p]
             g == Space'[p]
  <2>4. f = [w \in VPages |-> f[w]] /\ g = [w \in VPages |-> g[w]]
        /\ \A w \in VPages : w # v => g[w] = f[w]
    BY <2>2, <2>3
  <2> HIDE DEF f, g
  <2>5. g = [f EXCEPT ![v] = g[v]]
    BY <2>4
  <2> QED BY <2>5 DEF f, g
<1>9. \E w \in VPages \ Low : /\ Space'[p] = [Space[p] EXCEPT ![w] = Space'[p][w]]
                              /\ A!Successor(Space, Space[p][w], Space'[p][w])
  BY <1>1, <1>7, <1>8, Zenon
<1>10. A!Change(Space, Space', p)
  BY <1>6, <1>9, Zenon DEF A!Change, Low
<1> QED BY <1>4, <1>10, OneProcess

\* No user reaches a free page.
LEMMA FreeIsPrivate ==
    ASSUME Inv, mode # "boot", NEW n \in Pages, owner[n] = "free"
    PROVE  A!Private(Space, n)
<1>1. mem \in Memory /\ KernelOwned(owner) /\ Trees(mem, owner, pt)
  BY Types DEF Inv
<1>2. Space = Shown(mem, pt, FALSE)
  <2>1. (mode = "boot") = FALSE
    OBVIOUS
  <2> QED BY <2>1, SpaceShown
<1>3. ASSUME NEW q \in Procs, NEW v \in DOMAIN Space[q], Space[q][v].pn = n, "U" \in Space[q][v].perm
      PROVE  FALSE
  <2>1. pt[q] # NoTables
    <3>1. pt[q] = NoTables => DOMAIN Space[q] = {}
      BY <1>2 DEF Shown, A!Nothing
    <3> QED BY <1>3, <3>1
  <2>2. Space[q] = MapOf(mem, pt[q])
    BY <1>2, <2>1 DEF Shown
  <2>3. v \in VPages /\ Space[q][v] = View(mem, pt[q], v)
    BY <1>3, <2>2 DEF MapOf
  <2>4. v \in Addresses /\ ProcTree(mem, owner, pt[q], q)
    BY <1>1, <2>1, <2>3, Layout DEF Trees
  <2>5. n = ConsolePage \/ owner[n] = q
    <3>1. "U" \in View(mem, pt[q], v).perm /\ View(mem, pt[q], v).pn = n
      BY <1>3, <2>3
    <3> QED BY <1>1, <2>4, <3>1, UserReach
  <2> QED BY <1>1, <2>5, Layout DEF KernelOwned
<1> QED BY <1>3, Zenon DEF A!Private

\* A page mapped is the abstract Change, or nothing changes.
LEMMA MapStep ==
    ASSUME Inv, Inv', NEW p \in Procs, NEW v \in UserPages, MapPage(p, v)
    PROVE  A!Step(Space, Space') \/ Space' = Space
<1>1. mode = "kernel" /\ mode' # "boot" /\ p \in Live
  BY DEF MapPage
<1>2. pt' = pt
  BY MapOk
<1>3. CASE mem' = mem
  <2>1. (mode = "boot") = FALSE /\ (mode' = "boot") = FALSE
    BY <1>1
  <2> QED BY <1>2, <1>3, <2>1, SpaceShown, SpaceShownNext
<1>4. CASE mem' # mem
  <2> DEFINE n == Min(free)
  <2>1. /\ v \in High /\ OneLeaf(mem, mem', pt, p, v) /\ Leaf(mem', pt[p], v) = Entry(n, PWU)
        /\ n \in Pages /\ owner[n] = "free"
    BY <1>4, MapOk
  <2> HIDE DEF n
  <2>2. A!Private(Space, n)
    BY <1>1, <2>1, FreeIsPrivate
  <2>3. n \in Pages \ Kernels
    BY <2>1, Types DEF KernelOwned
  <2>4. found(Leaf(mem', pt[p], v)) = [pn |-> n, perm |-> PWU]
    BY <2>1 DEF found, Entry, PWU
  <2>5. A!Mapping(n, {"W", "U"}) = [pn |-> n, perm |-> PWU]
    <3>1. {"W", "U"} \cup {"P"} = PWU
      BY DEF PWU
    <3> QED BY <3>1 DEF A!Mapping
  <2> DEFINE new == found(Leaf(mem', pt[p], v))
  <2>6. new.pn = n /\ new = A!Mapping(new.pn, {"W", "U"})
    BY <2>4, <2>5
  <2> HIDE DEF new
  <2>7. A!Successor(Space, found(Leaf(mem, pt[p], v)), new)
    BY <2>2, <2>3, <2>6 DEF A!Successor, Kernels
  <2> QED BY <1>1, <1>2, <2>1, <2>7, LeafStep DEF new
<1> QED BY <1>3, <1>4

\* A page made read-only is the abstract Change.
LEMMA ReadOnlyStep ==
    ASSUME Inv, Inv', NEW p \in Procs, NEW v \in UserPages, ReadOnly(p, v)
    PROVE  A!Step(Space, Space')
<1>1. mode = "kernel" /\ mode' # "boot" /\ p \in Live
  BY DEF ReadOnly
<1>2. pt' = pt /\ v \in High /\ OneLeaf(mem, mem', pt, p, v) /\ Present(Leaf(mem, pt[p], v))
      /\ Leaf(mem', pt[p], v) = Entry(Leaf(mem, pt[p], v).pa, PU)
  BY ReadOnlyOk
<1> DEFINE old == found(Leaf(mem, pt[p], v))
           new == found(Leaf(mem', pt[p], v))
<1>3. old.pn = Leaf(mem, pt[p], v).pa
  BY <1>2 DEF found, Present
<1>4. new = [pn |-> Leaf(mem, pt[p], v).pa, perm |-> PU]
  BY <1>2 DEF found, Entry, PU
<1>5. {"U"} \cup {"P"} = PU
  BY DEF PU
<1> HIDE DEF old, new
<1>6. new = A!Mapping(old.pn, {"U"})
  BY <1>3, <1>4, <1>5 DEF A!Mapping
<1>7. A!Successor(Space, old, new)
  BY <1>6 DEF A!Successor
<1> QED BY <1>1, <1>2, <1>7, LeafStep DEF old, new

\* A page unmapped is the abstract Change.
LEMMA UnmapStep ==
    ASSUME Inv, Inv', NEW p \in Procs, NEW v \in UserPages, UnmapPage(p, v)
    PROVE  A!Step(Space, Space')
<1>1. mode = "kernel" /\ mode' # "boot" /\ p \in Live
  BY DEF UnmapPage
<1>2. pt' = pt /\ v \in High /\ OneLeaf(mem, mem', pt, p, v)
      /\ Leaf(mem', pt[p], v) = Entry(0, WU)
  BY UnmapOk
<1> DEFINE old == found(Leaf(mem, pt[p], v))
           new == found(Leaf(mem', pt[p], v))
<1>3. new = A!Absent
  BY <1>2 DEF found, Entry, WU, A!Absent
<1> HIDE DEF old, new
<1>4. A!Successor(Space, old, new)
  BY <1>3 DEF A!Successor
<1> QED BY <1>1, <1>2, <1>4, LeafStep DEF old, new

\* No process has a map while the kernel boots, nor right after.
LEMMA NoneShown ==
    /\ \A m, ts : Shown(m, ts, TRUE) = A!None
    /\ \A m, ts, b : (\A p \in Procs : ts[p] = NoTables) => Shown(m, ts, b) = A!None
  BY Zenon DEF Shown, A!None

\* Every step of the tables is a step of the maps or leaves them alone.
LEMMA StepRefines ==
    ASSUME Inv, Inv', [Next]_vars
    PROVE  A!Step(Space, Space') \/ Space' = Space
<1>1. CASE Boot
  <2>1. Space' = Shown(mem', pt', mode' = "boot") /\ \A p \in Procs : pt'[p] = NoTables
    BY <1>1, SpaceShownNext DEF Boot
  <2>2. Space' = A!None
    BY <2>1, NoneShown
  <2> QED BY <2>2, ToNone
<1>2. CASE Exception
  <2>1. mode = "user" /\ mem' = mem /\ pt' = pt
    BY <1>2 DEF Exception
  <2>2. mode' # "boot"
    BY <1>2 DEF Exception, Install
  <2>3. (mode = "boot") = FALSE /\ (mode' = "boot") = FALSE
    BY <2>1, <2>2
  <2> QED BY <2>1, <2>3, SpaceShown, SpaceShownNext
<1>3. CASE SoftReboot
  <2>1. Space' = Shown(mem', pt', mode' = "boot") /\ \A p \in Procs : pt'[p] = NoTables
    BY <1>3, SpaceShownNext DEF SoftReboot
  <2>2. Space' = A!None
    BY <2>1, NoneShown
  <2> QED BY <2>2, ToNone
<1>4. ASSUME NEW p \in Procs, ConfigTables(p) PROVE A!Step(Space, Space')
  BY <1>4, ConfigStep
<1>5. ASSUME NEW p \in Procs, Free(p) PROVE A!Step(Space, Space')
  BY <1>5, FreeStep
<1>6. ASSUME NEW p \in Procs, Run(p) PROVE Space' = Space
  <2>1. mode = "kernel" /\ mem' = mem /\ pt' = pt
    BY <1>6 DEF Run
  <2>2. mode' # "boot"
    BY <1>6 DEF Run, Install
  <2>3. (mode = "boot") = FALSE /\ (mode' = "boot") = FALSE
    BY <2>1, <2>2
  <2> QED BY <2>1, <2>3, SpaceShown, SpaceShownNext
<1>7. ASSUME NEW p \in Procs, NEW v \in UserPages, MapPage(p, v)
      PROVE  A!Step(Space, Space') \/ Space' = Space
  BY <1>7, MapStep
<1>8. ASSUME NEW p \in Procs, NEW v \in UserPages, ReadOnly(p, v) PROVE A!Step(Space, Space')
  BY <1>8, ReadOnlyStep
<1>9. ASSUME NEW p \in Procs, NEW v \in UserPages, UnmapPage(p, v) PROVE A!Step(Space, Space')
  BY <1>9, UnmapStep
<1>10. CASE UNCHANGED vars
  BY <1>10 DEF vars, Space, Live
<1> QED BY <1>1, <1>2, <1>3, <1>4, <1>5, <1>6, <1>7, <1>8, <1>9, <1>10, Zenon DEF Next

\* The tables implement flat maps: a process's map, read as the processor reads
\* its tables, starts fresh, changes one page at a time to what nobody else
\* reaches, and is not touched by what is done for other processes.
THEOREM TablesImplementMaps == Spec => Implements
<1>1. Init => A!SpaceInit
  <2> SUFFICES ASSUME Init PROVE A!SpaceInit
    OBVIOUS
  <2>1. Inv /\ mode = "boot"
    BY InitOk DEF Init
  <2>2. Space = A!None
    <3>1. (mode = "boot") = TRUE
      BY <2>1
    <3> QED BY <2>1, <3>1, SpaceShown, NoneShown
  <2> QED BY <2>2 DEF A!SpaceInit, Space
<1>2. Inv /\ Inv' /\ [Next]_vars => [A!SpaceNext]_Space
  <2> SUFFICES ASSUME Inv, Inv', [Next]_vars PROVE A!SpaceNext \/ Space' = Space
    OBVIOUS
  <2>1. A!Step(Space, Space') \/ Space' = Space
    BY StepRefines
  <2>2. A!Step(Space, Space') => A!SpaceNext
    BY Zenon DEF A!SpaceNext, Space
  <2> QED BY <2>1, <2>2
<1> QED BY <1>1, <1>2, InvHolds, PTL DEF Spec, Implements, A!SpaceSpec, Space

=============================================================================
