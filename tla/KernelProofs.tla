---------------------------- MODULE KernelProofs ----------------------------
(***************************************************************************)
(* Proofs about Kernel for any number of slots and pages, any page size,   *)
(* memory layout and program image: page counts are exact, processes are   *)
(* isolated, and the only assertion that can fail is the one on owners.    *)
(* For programs that move the break by whole pages, the pages of a process *)
(* match its break.                                                        *)
(*                                                                         *)
(* References(pr, n) counts over all processes at once; every step changes *)
(* one or two of them.  The first part therefore splits the count into the *)
(* part of one process and the rest.  The second shows for each operation  *)
(* on page tables that it keeps Sound, and the third puts the operations   *)
(* together into the steps of Next.  The last is about the break.          *)
(***************************************************************************)
EXTENDS Kernel, Arith, FiniteSetTheorems

\* The layout that KernelAssumption gives: where the program lies, and that all
\* the sets counted in are finite.
LEMMA Ranges ==
    /\ NPROC \in Nat \ {0, 1} /\ NPAGES \in Nat /\ PROC_START \in Nat
    /\ VIRT \in Nat /\ MAPTOP \in Nat /\ PROC_START < STACK /\ VIRT <= MAPTOP
    /\ STACK \in UserPages /\ UserPages \subseteq High /\ High \subseteq VPages
    /\ \A v \in VPages : v \in High <=> v >= PROC_START
    /\ IsFiniteSet(Pages) /\ IsFiniteSet(VPages) /\ IsFiniteSet(Pids) /\ IsFiniteSet(High)
    /\ Image \subseteq UserPages \ {STACK}
    /\ Reserved \subseteq Pages /\ KernelPages \subseteq Pages /\ KernelPages \subseteq VPages
    /\ \A n \in Reserved \cup KernelPages : n < PROC_START
<1>1. /\ NPROC \in Nat \ {0, 1} /\ NPAGES \in Nat /\ PROC_START \in Nat
      /\ VIRT \in Nat /\ MAPTOP \in Nat /\ VIRT <= MAPTOP /\ PROC_START <= NPAGES
      /\ Image \subseteq UserPages \ {STACK} /\ Image # {}
      /\ Reserved \subseteq 0 .. (PROC_START - 1)
      /\ KernelPages \subseteq (0 .. (PROC_START - 1)) \ Reserved
  BY KernelAssumption
<1>2. PICK i \in Image : i \in UserPages \ {STACK}
  BY <1>1
<1>3. PROC_START < STACK
  BY <1>1, <1>2 DEF UserPages, STACK
<1>4. IsFiniteSet(Pages) /\ IsFiniteSet(VPages) /\ IsFiniteSet(Pids)
  BY <1>1, FS_Interval DEF Pages, VPages, Pids
<1>5. IsFiniteSet(High)
  BY <1>4, FS_Difference DEF High
<1> QED BY <1>1, <1>3, <1>4, <1>5 DEF UserPages, STACK, High, VPages, Pages

-----------------------------------------------------------------------------
(* Counting references *)

\* the references of one slot: its pages and its tables
Mapped(d, n) == {v \in High : d.state # "free" /\ d.pt[v].pn = n}
TableOf(d, n) == {x \in {n} : d.state # "free" /\ n \in d.tables}
Part(d, n) == Cardinality(Mapped(d, n)) + Cardinality(TableOf(d, n))

\* the references of the other slots and of the kernel
OtherMaps(pr, p, n) ==
    {x \in (Pids \ {p}) \X High : pr[x[1]].state # "free" /\ pr[x[1]].pt[x[2]].pn = n}
OtherTables(pr, p, n) == {q \in Pids \ {p} : pr[q].state # "free" /\ n \in pr[q].tables}
Fixed(n) == {n} \cap (Reserved \cup KernelPages)
Others(pr, p, n) ==
    Cardinality(OtherMaps(pr, p, n)) + Cardinality(OtherTables(pr, p, n)) + Cardinality(Fixed(n))

\* All these sets are finite, so the counts are naturals.
LEMMA Finite ==
    ASSUME NEW pr, NEW p \in Pids, NEW d, NEW n
    PROVE  /\ IsFiniteSet(Mapped(d, n)) /\ IsFiniteSet(TableOf(d, n)) /\ Part(d, n) \in Nat
           /\ IsFiniteSet(OtherMaps(pr, p, n)) /\ IsFiniteSet(OtherTables(pr, p, n))
           /\ IsFiniteSet(Fixed(n)) /\ Others(pr, p, n) \in Nat
<1>1. IsFiniteSet(Pids \ {p}) /\ IsFiniteSet(High) /\ IsFiniteSet({n})
  BY Ranges, FS_Difference, FS_Singleton
<1>2. IsFiniteSet((Pids \ {p}) \X High)
  BY <1>1, FS_Product
<1>3. IsFiniteSet(Mapped(d, n))
  <2>1. Mapped(d, n) \in SUBSET High
    BY DEF Mapped
  <2> QED BY <1>1, <2>1, FS_Subset
<1>4. IsFiniteSet(TableOf(d, n))
  <2>1. TableOf(d, n) \in SUBSET {n}
    BY DEF TableOf
  <2> QED BY <1>1, <2>1, FS_Subset
<1>5. IsFiniteSet(OtherMaps(pr, p, n))
  <2>1. OtherMaps(pr, p, n) \in SUBSET ((Pids \ {p}) \X High)
    BY DEF OtherMaps
  <2> QED BY <1>2, <2>1, FS_Subset
<1>6. IsFiniteSet(OtherTables(pr, p, n))
  <2>1. OtherTables(pr, p, n) \in SUBSET (Pids \ {p})
    BY DEF OtherTables
  <2> QED BY <1>1, <2>1, FS_Subset
<1>7. IsFiniteSet(Fixed(n))
  <2>1. Fixed(n) \in SUBSET {n}
    BY DEF Fixed
  <2> QED BY <1>1, <2>1, FS_Subset
<1>8. Part(d, n) \in Nat
  BY <1>3, <1>4, FS_CardinalityType DEF Part
<1>9. Others(pr, p, n) \in Nat
  BY <1>5, <1>6, <1>7, FS_CardinalityType DEF Others
<1> QED BY <1>3, <1>4, <1>5, <1>6, <1>7, <1>8, <1>9

\* The references to a page are those of slot p and those of the others.
LEMMA RefSplit ==
    ASSUME NEW pr, NEW p \in Pids, NEW n
    PROVE  References(pr, n) = Others(pr, p, n) + Part(pr[p], n)
<1> DEFINE A == {x \in Active(pr) \X High : pr[x[1]].pt[x[2]].pn = n}
           B == {q \in Active(pr) : n \in pr[q].tables}
           M == Mapped(pr[p], n)
           X == {p} \X M
           Y == {q \in {p} : pr[p].state # "free" /\ n \in pr[p].tables}
           OM == OtherMaps(pr, p, n)
           OT == OtherTables(pr, p, n)
<1>1. /\ IsFiniteSet(M) /\ IsFiniteSet(OM) /\ IsFiniteSet(OT)
      /\ IsFiniteSet(TableOf(pr[p], n)) /\ IsFiniteSet({p}) /\ Cardinality({p}) = 1
      /\ Cardinality({n}) = 1
  BY Finite, FS_Singleton
<1>2. IsFiniteSet(X) /\ Cardinality(X) = Cardinality(M)
  <2>1. IsFiniteSet(X) /\ Cardinality(X) = 1 * Cardinality(M)
    BY <1>1, FS_Product
  <2>2. Cardinality(M) \in Nat
    BY <1>1, FS_CardinalityType
  <2> QED BY <2>1, <2>2
<1>3. A = OM \cup X /\ OM \cap X = {}
  BY DEF OtherMaps, Mapped, Active
<1>4. Cardinality(A) = Cardinality(OM) + Cardinality(M)
  <2>1. Cardinality(OM \cup X) = Cardinality(OM) + Cardinality(X) - Cardinality({})
    BY <1>1, <1>2, <1>3, FS_Union
  <2>2. Cardinality(OM) \in Nat /\ Cardinality(X) \in Nat
    BY <1>1, <1>2, FS_CardinalityType
  <2>3. Cardinality({}) = 0
    BY FS_EmptySet
  <2> HIDE DEF A, M, X, OM
  <2> QED BY <1>2, <1>3, <2>1, <2>2, <2>3
<1>5. B = OT \cup Y /\ OT \cap Y = {}
  BY DEF OtherTables, Active
<1>6. IsFiniteSet(Y) /\ Cardinality(Y) = Cardinality(TableOf(pr[p], n))
  <2>1. CASE pr[p].state # "free" /\ n \in pr[p].tables
    <3>1. Y = {p} /\ TableOf(pr[p], n) = {n}
      BY <2>1 DEF TableOf
    <3> QED BY <1>1, <3>1
  <2>2. CASE ~(pr[p].state # "free" /\ n \in pr[p].tables)
    <3>1. Y = {} /\ TableOf(pr[p], n) = {}
      BY <2>2 DEF TableOf
    <3> QED BY <3>1, FS_EmptySet
  <2> QED BY <2>1, <2>2
<1>7. Cardinality(B) = Cardinality(OT) + Cardinality(TableOf(pr[p], n))
  <2>1. IsFiniteSet(OT) /\ Cardinality(OT) \in Nat /\ IsFiniteSet(Y) /\ Cardinality(Y) \in Nat
    BY <1>1, <1>6, FS_CardinalityType
  <2>2. Cardinality({}) = 0
    BY FS_EmptySet
  <2> HIDE DEF B, Y, OT
  <2>3. Cardinality(OT \cup Y) = Cardinality(OT) + Cardinality(Y) - Cardinality(OT \cap Y)
    BY <2>1, FS_Union
  <2>4. Cardinality(B) = Cardinality(OT) + Cardinality(Y) - Cardinality({})
    BY <1>5, <2>3, Zenon
  <2> QED BY <1>6, <2>1, <2>2, <2>4
<1>8. References(pr, n) = Cardinality(A) + Cardinality(B) + Cardinality(Fixed(n))
  BY DEF References, Fixed
<1>9. /\ Cardinality(M) \in Nat /\ Cardinality(OM) \in Nat /\ Cardinality(OT) \in Nat
      /\ Cardinality(TableOf(pr[p], n)) \in Nat /\ Cardinality(Fixed(n)) \in Nat
  BY <1>1, Finite, FS_CardinalityType
<1> HIDE DEF A, B, M, X, Y, OM, OT
<1>10. References(pr, n)
         = (Cardinality(OM) + Cardinality(OT) + Cardinality(Fixed(n)))
           + (Cardinality(M) + Cardinality(TableOf(pr[p], n)))
  BY <1>4, <1>7, <1>8, <1>9
<1> QED BY <1>10 DEF Others, Part, OM, OT, M

\* When slot p becomes d, the references of the others stay.
LEMMA RefUpdate ==
    ASSUME NEW pr, NEW S, pr \in [Pids -> S], NEW p \in Pids, NEW d, NEW n
    PROVE  /\ References([pr EXCEPT ![p] = d], n) = Others(pr, p, n) + Part(d, n)
           /\ References(pr, n) = Others(pr, p, n) + Part(pr[p], n)
           /\ Others(pr, p, n) \in Nat /\ Part(d, n) \in Nat /\ Part(pr[p], n) \in Nat
<1> DEFINE qr == [pr EXCEPT ![p] = d]
<1>1. qr[p] = d /\ \A q \in Pids \ {p} : qr[q] = pr[q]
  OBVIOUS
<1>2. References(qr, n) = Others(qr, p, n) + Part(qr[p], n)
  BY RefSplit
<1> HIDE DEF qr
<1>3. OtherMaps(qr, p, n) = OtherMaps(pr, p, n)
  BY <1>1 DEF OtherMaps
<1>4. OtherTables(qr, p, n) = OtherTables(pr, p, n)
  BY <1>1 DEF OtherTables
<1>5. Others(qr, p, n) = Others(pr, p, n)
  BY <1>3, <1>4 DEF Others
<1> QED BY <1>1, <1>2, <1>5, RefSplit, Finite DEF qr

\* A set that is not empty counts for one at least, and a set that counts for one
\* has no second element.
LEMMA CountOne ==
    ASSUME NEW S, IsFiniteSet(S), NEW x \in S
    PROVE  Cardinality(S) \in Nat /\ Cardinality(S) >= 1 /\ (Cardinality(S) = 1 => S = {x})
<1>1. Cardinality(S) \in Nat /\ Cardinality(S) # 0
  BY FS_CardinalityType, FS_EmptySet
<1>2. Cardinality(S) = 1 => \E y : S = {y}
  BY FS_Singleton
<1> QED BY <1>1, <1>2

\* A page with at most one reference that process p maps at v is referenced from
\* nowhere else.
LEMMA SoleMapping ==
    ASSUME NEW pr, NEW n, References(pr, n) <= 1,
           NEW p \in Active(pr), NEW v \in High, pr[p].pt[v].pn = n
    PROVE  /\ References(pr, n) = 1 /\ n \notin Reserved \cup KernelPages
           /\ \A q \in Active(pr) : n \notin pr[q].tables
           /\ \A q \in Active(pr) : \A x \in High : pr[q].pt[x].pn = n => q = p /\ x = v
<1> DEFINE M == Mapped(pr[p], n)
           D == TableOf(pr[p], n)
           OM == OtherMaps(pr, p, n)
           OT == OtherTables(pr, p, n)
           K == Fixed(n)
<1>0. p \in Pids /\ pr[p].state # "free"
  BY DEF Active
<1>1. /\ IsFiniteSet(M) /\ IsFiniteSet(D) /\ IsFiniteSet(OM) /\ IsFiniteSet(OT) /\ IsFiniteSet(K)
  BY <1>0, Finite
<1>2. v \in M
  BY <1>0 DEF Mapped
<1>3. References(pr, n) = (Cardinality(OM) + Cardinality(OT) + Cardinality(K))
                          + (Cardinality(M) + Cardinality(D))
  BY <1>0, RefSplit DEF Others, Part
<1> HIDE DEF M, D, OM, OT, K
<1>4. /\ Cardinality(M) \in Nat /\ Cardinality(D) \in Nat /\ Cardinality(OM) \in Nat
      /\ Cardinality(OT) \in Nat /\ Cardinality(K) \in Nat
  BY <1>1, FS_CardinalityType
<1>5. Cardinality(M) >= 1 /\ (Cardinality(M) = 1 => M = {v})
  BY <1>1, <1>2, CountOne
<1>6. /\ Cardinality(M) = 1 /\ Cardinality(D) = 0 /\ Cardinality(OM) = 0
      /\ Cardinality(OT) = 0 /\ Cardinality(K) = 0 /\ References(pr, n) = 1
  BY <1>3, <1>4, <1>5
<1>7. M = {v} /\ D = {} /\ OM = {} /\ OT = {} /\ K = {}
  BY <1>1, <1>5, <1>6, FS_EmptySet
<1>8. n \notin Reserved \cup KernelPages
  BY <1>7 DEF K, Fixed
<1>9. ASSUME NEW q \in Active(pr)
      PROVE  n \notin pr[q].tables
  <2>1. CASE q = p
    BY <1>0, <1>7, <2>1 DEF D, TableOf
  <2>2. CASE q # p
    BY <1>7, <2>2 DEF OT, OtherTables, Active
  <2> QED BY <2>1, <2>2
<1>10. ASSUME NEW q \in Active(pr), NEW x \in High, pr[q].pt[x].pn = n
       PROVE  q = p /\ x = v
  <2>1. q = p
    <3> SUFFICES ASSUME q # p PROVE FALSE
      OBVIOUS
    <3>1. <<q, x>> \in OM
      BY <1>10 DEF OM, OtherMaps, Active
    <3> QED BY <1>7, <3>1
  <2>2. x \in M
    BY <1>0, <1>10, <2>1 DEF M, Mapped
  <2> QED BY <1>7, <2>1, <2>2
<1> QED BY <1>6, <1>8, <1>9, <1>10

\* A table page, a reserved page or one of the kernel that has one reference is
\* mapped by nobody, and it is not the table of a second process.
LEMMA SoleTable ==
    ASSUME NEW pr, NEW n, References(pr, n) <= 1
    PROVE  /\ n \in Reserved \cup KernelPages => \A q \in Active(pr) : n \notin pr[q].tables
           /\ \A p \in Active(pr) : n \in pr[p].tables =>
                  \A q \in Active(pr) : n \in pr[q].tables => q = p
           /\ (n \in Reserved \cup KernelPages \/ \E p \in Active(pr) : n \in pr[p].tables) =>
                  \A q \in Active(pr) : \A x \in High : pr[q].pt[x].pn # n
<1>1. ASSUME NEW q \in Active(pr), NEW x \in High, pr[q].pt[x].pn = n,
             n \in Reserved \cup KernelPages \/ \E p \in Active(pr) : n \in pr[p].tables
      PROVE  FALSE
  BY <1>1, SoleMapping
<1>2. ASSUME NEW p \in Active(pr), n \in pr[p].tables
      PROVE  Fixed(n) = {} /\ OtherTables(pr, p, n) = {}
  <2>0. p \in Pids /\ pr[p].state # "free"
    BY DEF Active
  <2> DEFINE M == Mapped(pr[p], n)
             D == TableOf(pr[p], n)
             OM == OtherMaps(pr, p, n)
             OT == OtherTables(pr, p, n)
             K == Fixed(n)
  <2>1. /\ IsFiniteSet(M) /\ IsFiniteSet(D) /\ IsFiniteSet(OM) /\ IsFiniteSet(OT)
        /\ IsFiniteSet(K)
    BY <2>0, Finite
  <2>2. n \in D
    BY <1>2, <2>0 DEF TableOf
  <2>3. References(pr, n) = (Cardinality(OM) + Cardinality(OT) + Cardinality(K))
                            + (Cardinality(M) + Cardinality(D))
    BY <2>0, RefSplit DEF Others, Part
  <2> HIDE DEF M, D, OM, OT, K
  <2>4. /\ Cardinality(M) \in Nat /\ Cardinality(OM) \in Nat
        /\ Cardinality(OT) \in Nat /\ Cardinality(K) \in Nat
    BY <2>1, FS_CardinalityType
  <2>5. Cardinality(D) \in Nat /\ Cardinality(D) >= 1
    BY <2>1, <2>2, CountOne
  <2>6. Cardinality(OT) = 0 /\ Cardinality(K) = 0
    BY <2>3, <2>4, <2>5
  <2>7. OT = {} /\ K = {}
    BY <2>1, <2>6, FS_EmptySet
  <2> QED BY <2>7 DEF OT, K
<1>3. ASSUME NEW p \in Active(pr), n \in pr[p].tables
      PROVE  /\ n \notin Reserved \cup KernelPages
             /\ \A q \in Active(pr) : n \in pr[q].tables => q = p
  BY <1>2, <1>3 DEF Fixed, OtherTables, Active
<1> QED BY <1>1, <1>3

\* A page without references is mapped nowhere and is no table, and it is neither
\* reserved nor the kernel's.
LEMMA NoReference ==
    ASSUME NEW pr, NEW n, References(pr, n) = 0
    PROVE  /\ n \notin Reserved \cup KernelPages
           /\ \A q \in Active(pr) : n \notin pr[q].tables
           /\ \A q \in Active(pr) : \A x \in High : pr[q].pt[x].pn # n
<1>1. ASSUME NEW q \in Active(pr), NEW x \in High, pr[q].pt[x].pn = n
      PROVE  FALSE
  BY <1>1, SoleMapping
<1>2. ASSUME NEW q \in Pids
      PROVE  Fixed(n) = {} /\ TableOf(pr[q], n) = {}
  <2>1. References(pr, n) = Others(pr, q, n) + Part(pr[q], n)
    BY RefSplit
  <2>2. Others(pr, q, n) = 0 /\ Part(pr[q], n) = 0
    BY <2>1, Finite
  <2> DEFINE M == Mapped(pr[q], n)
             D == TableOf(pr[q], n)
             OM == OtherMaps(pr, q, n)
             OT == OtherTables(pr, q, n)
             K == Fixed(n)
  <2>3. /\ IsFiniteSet(M) /\ IsFiniteSet(D) /\ IsFiniteSet(OM) /\ IsFiniteSet(OT)
        /\ IsFiniteSet(K)
    BY Finite
  <2>4. /\ Cardinality(OM) + Cardinality(OT) + Cardinality(K) = 0
        /\ Cardinality(M) + Cardinality(D) = 0
    BY <2>2 DEF Others, Part
  <2> HIDE DEF M, D, OM, OT, K
  <2>5. /\ Cardinality(M) \in Nat /\ Cardinality(D) \in Nat /\ Cardinality(OM) \in Nat
        /\ Cardinality(OT) \in Nat /\ Cardinality(K) \in Nat
    BY <2>3, FS_CardinalityType
  <2>6. Cardinality(K) = 0 /\ Cardinality(D) = 0
    BY <2>4, <2>5
  <2>7. K = {} /\ D = {}
    BY <2>3, <2>6, FS_EmptySet
  <2> QED BY <2>7 DEF K, D
<1>3. 1 \in Pids
  BY Ranges DEF Pids
<1>4. n \notin Reserved \cup KernelPages
  BY <1>2, <1>3 DEF Fixed
<1>5. ASSUME NEW q \in Active(pr)
      PROVE  n \notin pr[q].tables
  BY <1>2 DEF TableOf, Active
<1> QED BY <1>1, <1>4, <1>5

-----------------------------------------------------------------------------
(* What Sound says of the pages of one process *)

\* the pages filed under a process with one reference: tables and writable pages
Held(d) == d.tables \cup {d.pt[v].pn : v \in {x \in High : d.pt[x].w}}

\* A descriptor of pageinfo is made of its two fields.
LEMMA PageFields ==
    ASSUME NEW x \in PageInfoType
    PROVE  x = PageInfo(x.owner, x.refcount) /\ x.refcount \in Int
  BY DEF PageInfoType, PageInfo

\* PageInfo builds the descriptor with the two given fields.
LEMMA PageInfoIs ==
    ASSUME NEW o, NEW r
    PROVE  /\ PageInfo(o, r).owner = o /\ PageInfo(o, r).refcount = r
           /\ o \in {PO_FREE, PO_RESERVED, PO_KERNEL} \cup Pids /\ r \in Int
                => PageInfo(o, r) \in PageInfoType
  BY DEF PageInfoType, PageInfo

\* Owned says that the pages of Held are filed under p.
LEMMA OwnedIs ==
    ASSUME NEW pi, NEW p, NEW d
    PROVE  Owned(pi, p, d) <=> \A n \in Held(d) : pi[n] = PageInfo(p, 1)
  BY DEF Owned, Held

\* Counts are naturals, and a page that is counted as free has no references.
LEMMA CountCovers ==
    ASSUME NEW pi, NEW pr, Sound(pi, pr), NEW n \in Pages
    PROVE  /\ pi[n].refcount \in Nat /\ pi[n].refcount >= References(pr, n)
           /\ pi[n].refcount = 0 => References(pr, n) = 0
           /\ pi[n].refcount = 0 <=> pi[n].owner = PO_FREE
<1>1. /\ pi[n] \in PageInfoType /\ pi[n].refcount >= References(pr, n)
      /\ pi[n].refcount = 0 <=> pi[n].owner = PO_FREE
  BY DEF Sound, Covered
<1>2. 1 \in Pids
  BY Ranges DEF Pids
<1>3. References(pr, n) = Others(pr, 1, n) + Part(pr[1], n)
  BY <1>2, RefSplit
<1>4. Others(pr, 1, n) \in Nat /\ Part(pr[1], n) \in Nat
  BY <1>2, Finite
<1> QED BY <1>1, <1>3, <1>4, PageFields

\* A page that process p maps for the user holds no page table and belongs neither to
\* the kernel nor to the reserved ranges; it is in use.
LEMMA MappedPage ==
    ASSUME NEW pi, NEW pr, Sound(pi, pr), NEW p \in Active(pr), NEW v \in High,
           pr[p].pt[v].pn # -1
    PROVE  LET n == pr[p].pt[v].pn
           IN  /\ pr[p].pt[v].u /\ n \in Pages
               /\ References(pr, n) \in Nat /\ pi[n].refcount >= 1
               /\ n \notin Reserved \cup KernelPages
               /\ \A q \in Active(pr) : n \notin pr[q].tables
<1> DEFINE n == pr[p].pt[v].pn
<1>1. /\ p \in Pids /\ Shape(pr[p].pt) /\ Covered(pi, pr) /\ Permanent(pi)
      /\ \A q \in Active(pr) : Owned(pi, q, pr[q])
  BY DEF Sound, Active
<1>2. v \in VPages /\ ~(v < PROC_START)
  BY Ranges DEF VPages
<1>3. n \in Pages /\ pr[p].pt[v].u
  <2>1. pr[p].pt[v] # Absent
    BY DEF Absent
  <2> QED BY <1>1, <1>2, <2>1 DEF Shape
<1>4. References(pr, n) \in Nat
  BY <1>1, RefSplit, Finite
<1>5. pi[n].refcount >= References(pr, n) /\ pi[n].refcount \in Int
  BY <1>1, <1>3, PageFields DEF Covered, Sound
<1> HIDE DEF n
<1>6. pr[p].pt[v].pn = n
  BY DEF n
<1>7. References(pr, n) >= 1
  <2> SUFFICES ASSUME References(pr, n) = 0 PROVE FALSE
    BY <1>4
  <2> QED BY <1>6, NoReference
<1>8. n \notin Reserved \cup KernelPages
  <2> SUFFICES ASSUME n \in Reserved \cup KernelPages PROVE FALSE
    OBVIOUS
  <2>1. pi[n].refcount = 1
    BY <1>1, PageInfoIs DEF Permanent
  <2>2. References(pr, n) <= 1
    BY <1>4, <1>5, <2>1
  <2> QED BY <1>6, <2>2, SoleMapping
<1>9. ASSUME NEW q \in Active(pr), n \in pr[q].tables
      PROVE  FALSE
  <2>1. pi[n].refcount = 1
    BY <1>1, <1>9, PageInfoIs DEF Owned
  <2>2. References(pr, n) <= 1
    BY <1>4, <1>5, <2>1
  <2> QED BY <1>6, <1>9, <2>2, SoleMapping
<1> QED BY <1>3, <1>4, <1>5, <1>7, <1>8, <1>9 DEF n

\* A page that process q holds is used by no other process, and it is not free.
LEMMA HeldAlone ==
    ASSUME NEW pi, NEW pr, Sound(pi, pr), NEW q \in Active(pr), NEW n \in Held(pr[q])
    PROVE  /\ n \in Pages /\ pi[n] = PageInfo(q, 1) /\ n \notin FreePages(pi)
           /\ n \notin Reserved \cup KernelPages
           /\ \A p \in Active(pr) \ {q} : n \notin pr[p].tables
           /\ \A p \in Active(pr) : \A v \in High : pr[p].pt[v].pn = n =>
                 p = q /\ pr[p].pt[v].w /\ n \notin pr[q].tables
<1>1. /\ q \in Pids /\ pr[q] \in ProcType /\ Covered(pi, pr) /\ Shape(pr[q].pt)
      /\ Owned(pi, q, pr[q])
  BY DEF Sound, Active
<1>2. n \in Pages
  <2>1. CASE n \in pr[q].tables
    BY <1>1, <2>1 DEF ProcType
  <2>2. CASE \E v \in High : pr[q].pt[v].w /\ n = pr[q].pt[v].pn
    <3>1. PICK v \in High : pr[q].pt[v].w /\ n = pr[q].pt[v].pn
      BY <2>2
    <3>2. v \in VPages /\ ~(v < PROC_START)
      BY Ranges DEF VPages
    <3>3. pr[q].pt[v] # Absent
      BY <3>1 DEF Absent
    <3> QED BY <1>1, <3>1, <3>2, <3>3 DEF Shape
  <2> QED BY <2>1, <2>2 DEF Held
<1>3. pi[n] = PageInfo(q, 1)
  BY <1>1, OwnedIs
<1>4. pi[n].refcount = 1 /\ References(pr, n) <= 1
  BY <1>1, <1>2, <1>3, PageInfoIs DEF Covered
<1>5. n \notin FreePages(pi)
  BY <1>4 DEF FreePages
<1>6. CASE n \in pr[q].tables
  BY <1>2, <1>3, <1>4, <1>5, <1>6, SoleTable
<1>7. CASE \E v \in High : pr[q].pt[v].w /\ n = pr[q].pt[v].pn
  <2>1. PICK v \in High : pr[q].pt[v].w /\ n = pr[q].pt[v].pn
    BY <1>7
  <2>2. v \in High
    BY Ranges
  <2> QED BY <1>2, <1>3, <1>4, <1>5, <2>1, <2>2, SoleMapping
<1> QED BY <1>6, <1>7 DEF Held

\* A page that process q holds is mapped by nobody else, and writable.
LEMMA HeldWritable ==
    ASSUME NEW pi, NEW pr, Sound(pi, pr), NEW q \in Active(pr), NEW n \in Held(pr[q]),
           NEW p \in Active(pr), NEW v \in High, pr[p].pt[v].pn = n
    PROVE  p = q /\ pr[p].pt[v].w
<1>1. \A x \in Active(pr) : \A y \in High : pr[x].pt[y].pn = n =>
         x = q /\ pr[x].pt[y].w /\ n \notin pr[q].tables
  BY HeldAlone
<1> QED BY <1>1

\* A page that process q holds is mapped in one place.
LEMMA HeldOnce ==
    ASSUME NEW pi, NEW pr, Sound(pi, pr), NEW q \in Active(pr), NEW n \in Held(pr[q]),
           NEW x \in High, NEW y \in High, pr[q].pt[x].pn = n, pr[q].pt[y].pn = n
    PROVE  x = y
<1>1. n \in Pages /\ pi[n].refcount = 1
  BY HeldAlone, PageInfoIs
<1>2. References(pr, n) <= 1
  BY <1>1 DEF Sound, Covered
<1> QED BY <1>2, SoleMapping

\* The step from one sound state to the next: slot p becomes d, the counts follow
\* (exactly, unless some program calls page_alloc), and what others hold stays.
LEMMA SoundUpdate ==
    ASSUME NEW pi, NEW pr, Sound(pi, pr), NEW p \in Pids, NEW d \in ProcType,
           NEW pi2 \in [Pages -> PageInfoType],
           \A n \in Pages : /\ pi2[n].refcount >= pi[n].refcount - Part(pr[p], n) + Part(d, n)
                            /\ pi2[n].refcount = 0 <=> pi2[n].owner = PO_FREE,
           NoPageAlloc =>
              /\ \A n \in Pages : pi2[n].refcount = pi[n].refcount - Part(pr[p], n) + Part(d, n)
              /\ d.state # "free" => Confined(d.pt),
           \A n \in Reserved \cup KernelPages : pi2[n] = pi[n],
           \A q \in Active(pr) \ {p} : \A n \in Held(pr[q]) : pi2[n] = pi[n],
           Breaks(d),
           d.state # "free" => /\ Shape(d.pt) /\ (~d.forked => d.orig = ORIG)
                               /\ \A n \in Held(d) : pi2[n] = PageInfo(p, 1)
    PROVE  Sound(pi2, [pr EXCEPT ![p] = d])
<1> DEFINE qr == [pr EXCEPT ![p] = d]
<1>1. /\ pr \in [Pids -> ProcType] /\ pi \in [Pages -> PageInfoType]
      /\ Covered(pi, pr) /\ Permanent(pi) /\ (NoPageAlloc => Exact(pi, pr))
      /\ \A q \in Pids : Breaks(pr[q])
      /\ \A q \in Active(pr) : /\ Shape(pr[q].pt) /\ Owned(pi, q, pr[q])
                               /\ ~pr[q].forked => pr[q].orig = ORIG
  BY DEF Sound
<1>2. /\ qr \in [Pids -> ProcType] /\ qr[p] = d
      /\ \A q \in Pids \ {p} : qr[q] = pr[q]
  BY <1>1
<1>3. ASSUME NEW n \in Pages
      PROVE  /\ pi2[n].refcount >= References(qr, n)
             /\ NoPageAlloc => pi2[n].refcount = References(qr, n)
  <2>1. /\ References(qr, n) = Others(pr, p, n) + Part(d, n)
        /\ References(pr, n) = Others(pr, p, n) + Part(pr[p], n)
        /\ Others(pr, p, n) \in Nat /\ Part(d, n) \in Nat /\ Part(pr[p], n) \in Nat
    BY <1>1, RefUpdate
  <2>2. /\ pi[n].refcount >= References(pr, n) /\ pi[n].refcount \in Int /\ pi2[n].refcount \in Int
        /\ NoPageAlloc => pi[n].refcount = References(pr, n)
    BY <1>1, PageFields DEF Covered, Exact, Counted
  <2>3. /\ pi2[n].refcount >= pi[n].refcount - Part(pr[p], n) + Part(d, n)
        /\ NoPageAlloc => pi2[n].refcount = pi[n].refcount - Part(pr[p], n) + Part(d, n)
    OBVIOUS
  <2> HIDE DEF qr
  <2> QED BY <2>1, <2>2, <2>3
<1> HIDE DEF qr
<1>4. Permanent(pi2)
  BY <1>1 DEF Permanent
<1>5. \A q \in Pids : Breaks(qr[q])
  BY <1>1, <1>2
<1>6. ASSUME NEW q \in Active(qr)
      PROVE  /\ Shape(qr[q].pt) /\ Owned(pi2, q, qr[q])
             /\ ~qr[q].forked => qr[q].orig = ORIG
  <2>1. q \in Pids /\ qr[q].state # "free"
    BY DEF Active
  <2>2. CASE q = p
    BY <1>2, <2>1, <2>2, OwnedIs
  <2>3. CASE q # p
    <3>1. qr[q] = pr[q] /\ q \in Active(pr) \ {p}
      BY <1>2, <2>1, <2>3 DEF Active
    <3>2. \A n \in Held(pr[q]) : pi[n] = PageInfo(q, 1)
      BY <1>1, <3>1, OwnedIs
    <3>3. \A n \in Held(pr[q]) : pi2[n] = PageInfo(q, 1)
      BY <3>1, <3>2
    <3> QED BY <1>1, <3>1, <3>3, OwnedIs
  <2> QED BY <2>2, <2>3
<1>7. Covered(pi2, qr)
  BY <1>3 DEF Covered
<1>8. ASSUME NoPageAlloc
      PROVE  Exact(pi2, qr)
  <2>1. Counted(pi2, qr)
    BY <1>3, <1>8 DEF Counted
  <2>2. ASSUME NEW q \in Active(qr)
        PROVE  Confined(qr[q].pt)
    <3>1. q \in Pids /\ qr[q].state # "free"
      BY DEF Active
    <3>2. CASE q = p
      BY <1>2, <1>8, <3>1, <3>2
    <3>3. CASE q # p
      BY <1>1, <1>2, <1>8, <3>1, <3>3 DEF Exact, Active
    <3> QED BY <3>2, <3>3
  <2> QED BY <2>1, <2>2 DEF Exact
<1>9. Sound(pi2, qr)
  BY <1>2, <1>4, <1>5, <1>6, <1>7, <1>8 DEF Sound
<1> QED BY <1>9 DEF qr

-----------------------------------------------------------------------------
(* Giving up pages: process_free, and sbrk with a smaller break *)

\* A table maps page n a finite number of times, in a smaller range not more often.
LEMMA UsesNat ==
    ASSUME NEW m, NEW V, NEW W, V \subseteq W, W \subseteq High, NEW n
    PROVE  /\ IsFiniteSet({v \in V : m[v].pn = n})
           /\ Uses(m, V, n) \in Nat /\ Uses(m, W, n) \in Nat /\ Uses(m, V, n) <= Uses(m, W, n)
<1> DEFINE A == {v \in V : m[v].pn = n}
           B == {v \in W : m[v].pn = n}
<1>1. IsFiniteSet(B)
  <2>1. B \in SUBSET High
    OBVIOUS
  <2> QED BY <2>1, Ranges, FS_Subset
<1>2. A \in SUBSET B
  OBVIOUS
<1>3. IsFiniteSet(A) /\ Cardinality(A) <= Cardinality(B)
  BY <1>1, <1>2, FS_Subset
<1>4. Cardinality(A) \in Nat /\ Cardinality(B) \in Nat
  BY <1>1, <1>3, FS_CardinalityType
<1> QED BY <1>3, <1>4 DEF Uses

\* A range in which page n is not mapped counts for nothing.
LEMMA UsesNone ==
    ASSUME NEW m, NEW V, NEW n, \A v \in V : m[v].pn # n
    PROVE  Uses(m, V, n) = 0
<1>1. {v \in V : m[v].pn = n} = {}
  OBVIOUS
<1> QED BY <1>1, FS_EmptySet DEF Uses

\* A free slot has no references.
LEMMA PartFree ==
    ASSUME NEW d, d.state = "free", NEW n
    PROVE  Part(d, n) = 0
<1>1. Mapped(d, n) = {} /\ TableOf(d, n) = {}
  BY DEF Mapped, TableOf
<1> QED BY <1>1, FS_EmptySet DEF Part

\* The references of a process are the pages it maps and its tables.
LEMMA PartIs ==
    ASSUME NEW d, d.state # "free", NEW n \in Pages
    PROVE  /\ Part(d, n) = Uses(d.pt, High, n) + (IF n \in d.tables THEN 1 ELSE 0)
           /\ Uses(d.pt, High, n) \in Nat
<1>1. Mapped(d, n) = {v \in High : d.pt[v].pn = n}
  BY DEF Mapped
<1>2. Cardinality(TableOf(d, n)) = IF n \in d.tables THEN 1 ELSE 0
  <2>1. CASE n \in d.tables
    <3>1. TableOf(d, n) = {n}
      BY <2>1 DEF TableOf
    <3> QED BY <2>1, <3>1, FS_Singleton
  <2>2. CASE n \notin d.tables
    <3>1. TableOf(d, n) = {}
      BY <2>2 DEF TableOf
    <3> QED BY <2>2, <3>1, FS_EmptySet
  <2> QED BY <2>1, <2>2
<1>3. Uses(d.pt, High, n) \in Nat
  BY UsesNat, Ranges
<1> QED BY <1>1, <1>2, <1>3 DEF Part, Uses

\* A table that is confined to user pages maps nothing elsewhere.
LEMMA ConfinedUses ==
    ASSUME NEW m, Confined(m), NEW n \in Pages
    PROVE  Uses(m, High, n) = Uses(m, UserPages, n)
<1>1. n # -1 /\ UserPages \subseteq High
  BY Ranges DEF Pages
<1>2. \A v \in High : m[v].pn = n => v \in UserPages
  BY <1>1 DEF Confined, Absent
<1>3. {v \in High : m[v].pn = n} = {v \in UserPages : m[v].pn = n}
  BY <1>1, <1>2
<1> QED BY <1>3 DEF Uses

\* One reference less for each mapping in V: the counts stay naturals, and a page
\* is free when nothing is left.
LEMMA UnrefIs ==
    ASSUME NEW pi, NEW pr, Sound(pi, pr), NEW p \in Active(pr),
           NEW V, V \subseteq UserPages, NEW n \in Pages
    PROVE  LET U == Uses(pr[p].pt, V, n)
               q == unref(pi, pr[p].pt, V)
           IN  /\ U \in Nat /\ q[n] \in PageInfoType
               /\ q[n].refcount = pi[n].refcount - U
               /\ q[n].refcount = 0 <=> q[n].owner = PO_FREE
               /\ U = 0 => q[n] = pi[n]
<1> DEFINE U == Uses(pr[p].pt, V, n)
           W == Uses(pr[p].pt, High, n)
           q == unref(pi, pr[p].pt, V)
           r == pi[n].refcount
           o == pi[n].owner
<1>1. /\ p \in Pids /\ pr[p].state # "free" /\ Shape(pr[p].pt) /\ Covered(pi, pr)
      /\ pi[n] \in PageInfoType
  BY DEF Sound, Active
<1>2. U \in Nat /\ W \in Nat /\ U <= W
  BY UsesNat, Ranges
<1>3. r \in Nat /\ r >= W
  <2>1. r \in Int /\ r >= Others(pr, p, n) + Part(pr[p], n)
    BY <1>1, RefSplit, PageFields DEF Covered
  <2>2. Others(pr, p, n) \in Nat /\ Part(pr[p], n) \in Nat
    BY <1>1, Finite
  <2>3. Part(pr[p], n) = W + (IF n \in pr[p].tables THEN 1 ELSE 0)
    BY <1>1, PartIs
  <2> HIDE DEF r, W
  <2> QED BY <1>2, <2>1, <2>2, <2>3
<1>4. r = 0 <=> o = PO_FREE
  BY <1>1 DEF Covered
<1>5. q[n] = PageInfo(IF r \in 1 .. U THEN PO_FREE ELSE o, r - U)
  BY DEF unref
<1>6. pi[n] = PageInfo(o, r) /\ o \in {PO_FREE, PO_RESERVED, PO_KERNEL} \cup Pids
  BY <1>1, PageFields DEF PageInfoType
<1> HIDE DEF U, W, q, r, o
<1>7. CASE r \in 1 .. U
  <2>1. q[n] = PageInfo(PO_FREE, 0) /\ r - U = 0 /\ U # 0
    BY <1>2, <1>3, <1>5, <1>7
  <2> QED BY <1>2, <2>1, PageInfoIs DEF U, q, r
<1>8. CASE r \notin 1 .. U
  <2>1. q[n] = PageInfo(o, r - U) /\ r - U \in Int /\ (r - U = 0 <=> o = PO_FREE)
    BY <1>2, <1>3, <1>4, <1>5, <1>8
  <2>2. q[n].refcount = r - U /\ q[n].owner = o /\ q[n] \in PageInfoType
    BY <1>6, <2>1, PageInfoIs
  <2>3. U = 0 => q[n] = pi[n]
    BY <1>2, <1>3, <1>6, <2>1
  <2> QED BY <1>2, <2>1, <2>2, <2>3 DEF U, q, r
<1> QED BY <1>7, <1>8

\* process_free: its assertions on the tables hold, and everything the process
\* had is given back.
LEMMA ReleaseSound ==
    ASSUME NEW pi, NEW pr, Sound(pi, pr), NEW p \in Active(pr)
    PROVE  /\ tables_single(pi, pr[p].pt, pr[p].tables)
           /\ Sound(release(pi, pr[p].pt, pr[p].tables), [pr EXCEPT ![p] = freed(pr[p])])
<1> DEFINE m == pr[p].pt
           T == pr[p].tables
           d == freed(pr[p])
           q == unref(pi, m, UserPages)
           pi2 == release(pi, m, T)
<1>1. /\ p \in Pids /\ pr[p].state # "free" /\ Shape(m) /\ pr[p] \in ProcType
      /\ pi \in [Pages -> PageInfoType] /\ Owned(pi, p, pr[p]) /\ Breaks(pr[p])
  BY DEF Sound, Active
<1>2. d \in ProcType /\ d.state = "free" /\ d.brk = pr[p].brk /\ d.orig = pr[p].orig
  BY <1>1 DEF freed, Descriptor, ProcType, NoTable, Absent, EntryType
<1>3. \A n \in Pages : /\ Uses(m, UserPages, n) \in Nat /\ q[n] \in PageInfoType
                       /\ q[n].refcount = pi[n].refcount - Uses(m, UserPages, n)
                       /\ q[n].refcount = 0 <=> q[n].owner = PO_FREE
                       /\ Uses(m, UserPages, n) = 0 => q[n] = pi[n]
  BY UnrefIs
<1>4. ASSUME NEW n \in T
      PROVE  /\ n \in Pages /\ pi[n].refcount = 1 /\ Uses(m, UserPages, n) = 0
             /\ \A v \in High : m[v].pn # n
  <2>1. n \in Held(pr[p])
    BY DEF Held
  <2>2. n \in Pages /\ pi[n] = PageInfo(p, 1) /\ \A v \in High : m[v].pn # n
    BY <2>1, HeldAlone
  <2> QED BY <2>2, PageInfoIs, UsesNone, Ranges
<1>5. \A n \in Pages : pi2[n] = IF n \in T THEN PageInfo(PO_FREE, 0) ELSE q[n]
  BY DEF release
<1> HIDE DEF m, d, q, pi2
<1>6. tables_single(pi, m, T)
  BY <1>3, <1>4 DEF tables_single, q
<1>7. pi2 \in [Pages -> PageInfoType]
  <2>1. \A n \in Pages : pi2[n] \in PageInfoType
    BY <1>3, <1>5, PageInfoIs
  <2>2. pi2 = [n \in Pages |-> pi2[n]]
    BY DEF pi2, release
  <2> QED BY <2>1, <2>2
<1>8. ASSUME NEW n \in Pages
      PROVE  /\ pi2[n].refcount >= pi[n].refcount - Part(pr[p], n) + Part(d, n)
             /\ Confined(m) => pi2[n].refcount = pi[n].refcount - Part(pr[p], n) + Part(d, n)
             /\ pi2[n].refcount = 0 <=> pi2[n].owner = PO_FREE
  <2>1. Part(d, n) = 0
    BY <1>2, PartFree
  <2>2. Part(pr[p], n) = Uses(m, High, n) + (IF n \in T THEN 1 ELSE 0)
    BY <1>1, PartIs DEF m
  <2>3. /\ Uses(m, High, n) \in Nat /\ Uses(m, UserPages, n) <= Uses(m, High, n)
        /\ Confined(m) => Uses(m, High, n) = Uses(m, UserPages, n)
    BY UsesNat, ConfinedUses, Ranges
  <2>4. CASE n \in T
    <3>1. Uses(m, High, n) = 0
      BY <1>4, <2>4, UsesNone
    <3> QED BY <1>4, <1>5, <2>1, <2>2, <2>4, <3>1, PageInfoIs
  <2>5. CASE n \notin T
    <3>1. pi2[n] = q[n]
      BY <1>5, <2>5
    <3>2. pi[n].refcount \in Int
      BY <1>1, PageFields
    <3> QED BY <1>3, <2>1, <2>2, <2>3, <2>5, <3>1, <3>2
  <2> QED BY <2>4, <2>5
<1>9. ASSUME NEW n \in Pages, n \notin T, \A v \in High : m[v].pn # n
      PROVE  pi2[n] = pi[n]
  BY <1>3, <1>5, <1>9, UsesNone, Ranges
<1>10. ASSUME NEW n \in Reserved \cup KernelPages
       PROVE  pi2[n] = pi[n]
  <2>1. n \in Pages
    BY Ranges
  <2>2. n \notin T
    <3> SUFFICES ASSUME n \in T PROVE FALSE
      OBVIOUS
    <3> QED BY HeldAlone DEF Held
  <2>3. \A v \in High : m[v].pn # n
    <3> SUFFICES ASSUME NEW v \in High, m[v].pn = n PROVE FALSE
      OBVIOUS
    <3>1. n # -1
      BY <2>1, Ranges DEF Pages
    <3> QED BY <3>1, MappedPage DEF m
  <2> QED BY <1>9, <2>1, <2>2, <2>3
<1>11. ASSUME NEW x \in Active(pr) \ {p}, NEW n \in Held(pr[x])
       PROVE  pi2[n] = pi[n]
  <2>1. n \in Pages /\ n \notin T /\ \A v \in High : m[v].pn # n
    BY HeldAlone DEF m
  <2> QED BY <1>9, <2>1
<1>12. Breaks(d)
  BY <1>1, <1>2 DEF Breaks
<1>13. NoPageAlloc => Confined(m)
  BY DEF Sound, Exact, m
<1>14. Sound(pi2, [pr EXCEPT ![p] = d])
  BY <1>1, <1>2, <1>7, <1>8, <1>10, <1>11, <1>12, <1>13, SoundUpdate
<1> QED BY <1>6, <1>14 DEF m, d, pi2

\* a break that sbrk accepts
Fits(b) == b \in Nat /\ b >= ORIG /\ (b = ORIG \/ b < LIMIT)

\* sbrk with a smaller break: the pages of V are given up and unmapped.
LEMMA ShrinkSound ==
    ASSUME NEW pi, NEW pr, Sound(pi, pr), NEW p \in Active(pr),
           NEW V \in SUBSET UserPages, NEW b, Fits(b), pr[p].orig = ORIG
    PROVE  Sound(unref(pi, pr[p].pt, V),
                 [pr EXCEPT ![p] = [[pr[p] EXCEPT !.brk = b] EXCEPT !.pt = unmap(@, V)]])
<1> DEFINE m == pr[p].pt
           m2 == unmap(m, V)
           d == [[pr[p] EXCEPT !.brk = b] EXCEPT !.pt = unmap(@, V)]
           pi2 == unref(pi, m, V)
<1>1. /\ p \in Pids /\ pr[p].state # "free" /\ Shape(m) /\ pr[p] \in ProcType
      /\ pi \in [Pages -> PageInfoType] /\ Owned(pi, p, pr[p])
      /\ ~pr[p].forked => pr[p].orig = ORIG
  BY DEF Sound, Active
<1>2. m2 \in [VPages -> EntryType] /\ \A v \in VPages : m2[v] = IF v \in V THEN Absent ELSE m[v]
  BY <1>1 DEF unmap, Absent, EntryType, ProcType
<1>3. /\ d \in ProcType /\ d.state = pr[p].state /\ d.pt = m2 /\ d.tables = pr[p].tables
      /\ d.orig = pr[p].orig /\ d.forked = pr[p].forked /\ d.brk = b
  BY <1>1, <1>2 DEF ProcType, Fits
<1>4. Breaks(d)
  BY <1>3 DEF Breaks, Fits
<1> HIDE DEF d
<1>5. Shape(m2)
  <2>1. \A v \in V : ~(v < PROC_START)
    BY Ranges DEF UserPages
  <2> HIDE DEF m2
  <2> QED BY <1>1, <1>2, <2>1 DEF Shape
<1>6. \A n \in Pages : /\ Uses(m, V, n) \in Nat /\ pi2[n] \in PageInfoType
                       /\ pi2[n].refcount = pi[n].refcount - Uses(m, V, n)
                       /\ pi2[n].refcount = 0 <=> pi2[n].owner = PO_FREE
                       /\ Uses(m, V, n) = 0 => pi2[n] = pi[n]
  BY UnrefIs
<1>7. pi2 \in [Pages -> PageInfoType]
  <2>1. pi2 = [n \in Pages |-> pi2[n]]
    BY DEF unref
  <2> HIDE DEF pi2
  <2> QED BY <1>6, <2>1
<1> HIDE DEF m, m2, pi2
<1>8. Confined(m) => Confined(m2)
  BY <1>2, Ranges DEF Confined
<1>9. NoPageAlloc => Confined(m2)
  BY <1>8 DEF Sound, Exact, m
<1>10. ASSUME NEW n \in Pages
      PROVE  Uses(m, High, n) = Uses(m, V, n) + Uses(m2, High, n)
  <2> DEFINE A == {v \in V : m[v].pn = n}
             B == {v \in High : m2[v].pn = n}
             C == {v \in High : m[v].pn = n}
  <2>1. IsFiniteSet(A) /\ IsFiniteSet(B)
    <3>1. A \in SUBSET High /\ B \in SUBSET High /\ IsFiniteSet(High)
      BY Ranges
    <3> QED BY <3>1, FS_Subset
  <2>2. n # -1
    BY Ranges DEF Pages
  <2>3. V \subseteq High /\ High \subseteq VPages
    BY Ranges
  <2>4. C = A \cup B /\ A \cap B = {}
    BY <1>2, <2>2, <2>3 DEF Absent
  <2> HIDE DEF A, B, C
  <2>5. Cardinality(A \cup B) = Cardinality(A) + Cardinality(B) - Cardinality(A \cap B)
    BY <2>1, FS_Union
  <2>6. Cardinality(C) = Cardinality(A) + Cardinality(B) - Cardinality({})
    BY <2>4, <2>5, Zenon
  <2>7. Cardinality(A) \in Nat /\ Cardinality(B) \in Nat /\ Cardinality({}) = 0
    BY <2>1, FS_CardinalityType, FS_EmptySet
  <2>8. Cardinality(C) = Cardinality(A) + Cardinality(B)
    BY <2>6, <2>7
  <2> QED BY <2>8 DEF Uses, A, B, C
<1>11. ASSUME NEW n \in Pages
      PROVE  /\ pi2[n].refcount = pi[n].refcount - Part(pr[p], n) + Part(d, n)
             /\ pi2[n].refcount >= pi[n].refcount - Part(pr[p], n) + Part(d, n)
             /\ pi2[n].refcount = 0 <=> pi2[n].owner = PO_FREE
  <2>1. /\ Part(d, n) = Uses(m2, High, n) + (IF n \in pr[p].tables THEN 1 ELSE 0)
        /\ Uses(m2, High, n) \in Nat
    BY <1>1, <1>3, <1>5, PartIs
  <2>2. Part(pr[p], n) = Uses(m, High, n) + (IF n \in pr[p].tables THEN 1 ELSE 0)
    BY <1>1, PartIs DEF m
  <2>3. pi[n].refcount \in Int
    BY <1>1, PageFields
  <2> QED BY <1>6, <1>10, <2>1, <2>2, <2>3
<1>12. ASSUME NEW n \in Pages, \A v \in V : m[v].pn # n
       PROVE  pi2[n] = pi[n]
  BY <1>6, <1>12, UsesNone
<1>13. ASSUME NEW n \in Reserved \cup KernelPages
       PROVE  pi2[n] = pi[n]
  <2>1. n \in Pages
    BY Ranges
  <2>2. \A v \in V : m[v].pn # n
    <3> SUFFICES ASSUME NEW v \in V, m[v].pn = n PROVE FALSE
      OBVIOUS
    <3>1. n # -1 /\ v \in High
      BY <2>1, Ranges DEF Pages
    <3> QED BY <3>1, MappedPage DEF m
  <2> QED BY <1>12, <2>1, <2>2
<1>14. ASSUME NEW x \in Active(pr) \ {p}, NEW n \in Held(pr[x])
       PROVE  pi2[n] = pi[n]
  <2>1. n \in Pages
    BY HeldAlone
  <2>2. ASSUME NEW v \in High, m[v].pn = n PROVE FALSE
    BY <2>2, HeldAlone DEF m
  <2> QED BY <1>12, <2>1, <2>2, Ranges
<1>15. ASSUME NEW n \in Held(d)
       PROVE  pi2[n] = PageInfo(p, 1)
  <2>1. V \subseteq High /\ High \subseteq VPages
    BY Ranges
  <2>2. n \in Held(pr[p]) /\ \A v \in V : m[v].pn # n
    <3>1. CASE n \in d.tables
      <4>1. n \in pr[p].tables /\ n \in Held(pr[p])
        BY <1>3, <3>1 DEF Held
      <4>2. \A v \in High : m[v].pn # n
        BY <4>1, HeldAlone DEF m
      <4> QED BY <2>1, <4>1, <4>2
    <3>2. CASE \E v \in High : m2[v].w /\ n = m2[v].pn
      <4>1. PICK v \in High : m2[v].w /\ n = m2[v].pn
        BY <3>2
      <4>2. v \notin V /\ m[v].w /\ m[v].pn = n
        BY <1>2, <2>1, <4>1 DEF Absent
      <4>3. n \in Held(pr[p])
        BY <4>2 DEF Held, m
      <4>4. pr[p].pt[v].pn = n
        BY <4>2 DEF m
      <4>5. ASSUME NEW x \in High, m[x].pn = n PROVE x = v
        <5>1. pr[p].pt[x].pn = n
          BY <4>5 DEF m
        <5> QED BY <4>3, <4>4, <5>1, HeldOnce
      <4> QED BY <2>1, <4>2, <4>3, <4>5
    <3> QED BY <1>3, <3>1, <3>2 DEF Held
  <2>3. n \in Pages /\ pi[n] = PageInfo(p, 1)
    BY <2>2, HeldAlone
  <2> QED BY <1>12, <2>2, <2>3
<1>16. Sound(pi2, [pr EXCEPT ![p] = d])
  BY <1>1, <1>3, <1>4, <1>5, <1>7, <1>11, <1>13, <1>14, <1>15, <1>9, SoundUpdate
<1> QED BY <1>16 DEF d, pi2, m

-----------------------------------------------------------------------------
(* Taking pages: the break moves up, a page fault in the heap, a new process *)

\* A break moved up changes no page.
LEMMA BreakSound ==
    ASSUME NEW pi, NEW pr, Sound(pi, pr), NEW p \in Active(pr),
           NEW b, Fits(b), pr[p].orig = ORIG
    PROVE  Sound(pi, [pr EXCEPT ![p] = [pr[p] EXCEPT !.brk = b]])
<1> DEFINE d == [pr[p] EXCEPT !.brk = b]
<1>1. /\ p \in Pids /\ pr[p].state # "free" /\ Shape(pr[p].pt) /\ pr[p] \in ProcType
      /\ pi \in [Pages -> PageInfoType] /\ Owned(pi, p, pr[p]) /\ Covered(pi, pr)
      /\ ~pr[p].forked => pr[p].orig = ORIG
  BY DEF Sound, Active
<1>2. /\ d \in ProcType /\ d.state = pr[p].state /\ d.pt = pr[p].pt
      /\ d.tables = pr[p].tables /\ d.orig = pr[p].orig /\ d.forked = pr[p].forked
      /\ d.brk = b
  BY <1>1 DEF ProcType, Fits
<1> HIDE DEF d
<1>3. ASSUME NEW n \in Pages
      PROVE  /\ pi[n].refcount = pi[n].refcount - Part(pr[p], n) + Part(d, n)
             /\ pi[n].refcount >= pi[n].refcount - Part(pr[p], n) + Part(d, n)
             /\ pi[n].refcount = 0 <=> pi[n].owner = PO_FREE
  <2>1. Part(d, n) = Part(pr[p], n) /\ Part(d, n) \in Nat
    BY <1>1, <1>2, Finite DEF Part, Mapped, TableOf
  <2>2. pi[n].refcount \in Int
    BY <1>1, PageFields
  <2> QED BY <1>1, <2>1, <2>2 DEF Covered
<1>4. Held(d) = Held(pr[p])
  BY <1>2 DEF Held
<1>5. \A n \in Held(d) : pi[n] = PageInfo(p, 1)
  BY <1>1, <1>4, OwnedIs
<1>6. Breaks(d)
  BY <1>2 DEF Breaks, Fits
<1>7. NoPageAlloc => Confined(d.pt)
  BY <1>2 DEF Sound, Exact
<1>8. Sound(pi, [pr EXCEPT ![p] = d])
  BY <1>1, <1>2, <1>3, <1>5, <1>6, <1>7, SoundUpdate
<1> QED BY <1>8 DEF d

\* process d with page f mapped at v, as the page-fault handler leaves it
faulted(d, v, f) == [d EXCEPT !.pt = map_user(@, [x \in {v} |-> f], TRUE)]

\* A page that is taken and then mapped nowhere is only counted.
LEMMA LostSound ==
    ASSUME NEW pi, NEW pr, Sound(pi, pr), NEW p \in Active(pr), NEW f \in FreePages(pi),
           ~NoPageAlloc
    PROVE  Sound(palloc(pi, {f}, p), [pr EXCEPT ![p] = pr[p]])
<1> DEFINE pi2 == palloc(pi, {f}, p)
<1>1. /\ p \in Pids /\ pr[p].state # "free" /\ Shape(pr[p].pt) /\ pr[p] \in ProcType
      /\ pi \in [Pages -> PageInfoType] /\ Breaks(pr[p])
      /\ ~pr[p].forked => pr[p].orig = ORIG
  BY DEF Sound, Active
<1>2. f \in Pages /\ pi[f].refcount = 0 /\ References(pr, f) = 0
  BY CountCovers DEF FreePages
<1>3. \A n \in Pages : pi2[n] = IF n = f THEN PageInfo(p, 1) ELSE pi[n]
  BY <1>2 DEF palloc
<1>4. pi2 = [n \in Pages |-> pi2[n]]
  BY DEF palloc
<1> HIDE DEF pi2
<1>5. PageInfo(p, 1) \in PageInfoType /\ PageInfo(p, 1).refcount = 1 /\ PageInfo(p, 1).owner = p
  BY <1>1, PageInfoIs
<1>6. pi2 \in [Pages -> PageInfoType]
  BY <1>1, <1>3, <1>4, <1>5
<1>7. ASSUME NEW n \in Pages
      PROVE  /\ pi2[n].refcount >= pi[n].refcount - Part(pr[p], n) + Part(pr[p], n)
             /\ pi2[n].refcount = 0 <=> pi2[n].owner = PO_FREE
  <2>1. Part(pr[p], n) \in Nat /\ pi[n].refcount \in Nat /\ (pi[n].refcount = 0 <=> pi[n].owner = PO_FREE)
    BY <1>1, Finite, CountCovers
  <2>2. pi2[n].refcount \in Nat /\ pi2[n].refcount >= pi[n].refcount
    BY <1>2, <1>3, <1>5, <2>1
  <2>3. p # PO_FREE
    BY <1>1, Ranges DEF Pids, PO_FREE
  <2>4. pi2[n].refcount = 0 <=> pi2[n].owner = PO_FREE
    BY <1>3, <1>5, <2>1, <2>3
  <2> QED BY <2>1, <2>2, <2>4
<1>8. \A n \in Reserved \cup KernelPages : pi2[n] = pi[n]
  BY <1>2, <1>3, NoReference, Ranges
<1>9. ASSUME NEW x \in Active(pr), NEW n \in Held(pr[x])
      PROVE  pi2[n] = pi[n] /\ pi[n] = PageInfo(x, 1)
  BY <1>3, HeldAlone
<1>10. Sound(pi2, [pr EXCEPT ![p] = pr[p]])
  BY <1>1, <1>6, <1>7, <1>8, <1>9, SoundUpdate
<1> QED BY <1>10 DEF pi2

\* A free page is mapped at v.  The page-fault handler does so where nothing was; a
\* page that page_alloc maps over keeps its count.
LEMMA MapSound ==
    ASSUME NEW pi, NEW pr, Sound(pi, pr), NEW p \in Active(pr),
           NEW v \in High, NEW f \in FreePages(pi),
           NoPageAlloc => v \in UserPages /\ ~present(pr[p].pt, v)
    PROVE  Sound(palloc(pi, {f}, p), [pr EXCEPT ![p] = faulted(pr[p], v, f)])
<1> DEFINE m == pr[p].pt
           m2 == map_user(m, [x \in {v} |-> f], TRUE)
           d == [pr[p] EXCEPT !.pt = map_user(@, [x \in {v} |-> f], TRUE)]
           pi2 == palloc(pi, {f}, p)
<1>1. /\ p \in Pids /\ pr[p].state # "free" /\ Shape(m) /\ pr[p] \in ProcType
      /\ pi \in [Pages -> PageInfoType] /\ Owned(pi, p, pr[p])
      /\ Breaks(pr[p])
      /\ ~pr[p].forked => pr[p].orig = ORIG
  BY DEF Sound, Active
<1>2. /\ f \in Pages /\ pi[f].refcount = 0 /\ References(pr, f) = 0
      /\ v \in VPages /\ v >= PROC_START
  BY <1>1, CountCovers, Ranges DEF FreePages
<1>3. /\ m2 \in [VPages -> EntryType]
      /\ \A x \in VPages : m2[x] = IF x = v THEN Entry(f, TRUE, TRUE) ELSE m[x]
  BY <1>1, <1>2 DEF map_user, Entry, EntryType, ProcType
<1>4. /\ d \in ProcType /\ d.state = pr[p].state /\ d.pt = m2 /\ d.tables = pr[p].tables
      /\ d.orig = pr[p].orig /\ d.forked = pr[p].forked /\ d.brk = pr[p].brk
  BY <1>1, <1>3 DEF ProcType
<1>5. \A n \in Pages : pi2[n] = IF n = f THEN PageInfo(p, 1) ELSE pi[n]
  BY <1>2 DEF palloc
<1>6. pi2 \in [Pages -> PageInfoType]
  <2>1. \A n \in Pages : pi2[n] \in PageInfoType
    <3>1. PageInfo(p, 1) \in PageInfoType
      BY <1>1, PageInfoIs
    <3> HIDE DEF pi2
    <3> QED BY <1>1, <1>5, <3>1
  <2>2. pi2 = [n \in Pages |-> pi2[n]]
    BY DEF palloc
  <2> HIDE DEF pi2
  <2> QED BY <2>1, <2>2
<1>7. /\ f \notin Reserved \cup KernelPages
      /\ \A q \in Active(pr) : f \notin pr[q].tables /\ \A x \in High : pr[q].pt[x].pn # f
  BY <1>2, NoReference
<1> HIDE DEF m, m2, d, pi2
<1>8. Shape(m2)
  <2>1. ~(v < PROC_START)
    BY <1>2, Ranges DEF VPages
  <2>2. m2[v].pn = f /\ m2[v].u
    BY <1>2, <1>3 DEF Entry
  <2> QED BY <1>1, <1>2, <1>3, <2>1, <2>2 DEF Shape
<1>9. ASSUME NEW n \in Pages
      PROVE  /\ pi2[n].refcount >= pi[n].refcount - Part(pr[p], n) + Part(d, n)
             /\ m[v].pn = -1 => pi2[n].refcount = pi[n].refcount - Part(pr[p], n) + Part(d, n)
             /\ pi2[n].refcount = 0 <=> pi2[n].owner = PO_FREE
  <2>1. /\ Part(d, n) = Uses(m2, High, n) + (IF n \in pr[p].tables THEN 1 ELSE 0)
        /\ Uses(m2, High, n) \in Nat
    BY <1>1, <1>4, <1>8, PartIs
  <2>2. /\ Part(pr[p], n) = Uses(m, High, n) + (IF n \in pr[p].tables THEN 1 ELSE 0)
        /\ Uses(m, High, n) \in Nat
    BY <1>1, PartIs DEF m
  <2>3. \A x \in High : x \in VPages
    BY Ranges
  <2>4. CASE n = f
    <3>1. Uses(m, High, n) = 0
      BY <1>7, <2>3, <2>4, UsesNone DEF m
    <3>2. {x \in High : m2[x].pn = n} = {v}
      BY <1>3, <1>7, <2>3, <2>4 DEF Entry, m
    <3>3. Uses(m2, High, n) = 1
      BY <3>2, FS_Singleton DEF Uses
    <3>4. n \notin pr[p].tables
      BY <1>7, <2>4
    <3>5. pi2[n].refcount = 1 /\ pi2[n].owner = p /\ p # PO_FREE
      BY <1>1, <1>5, <2>4, PageInfoIs, Ranges DEF Pids, PO_FREE
    <3> QED BY <1>2, <2>1, <2>2, <2>4, <3>1, <3>3, <3>4, <3>5
  <2>5. CASE n # f
    <3>1. n # -1
      BY Ranges DEF Pages
    <3> DEFINE A == {x \in High : m[x].pn = n}
               B == {x \in High : m2[x].pn = n}
    <3>2. B \in SUBSET A /\ (m[v].pn = -1 => A = B)
      BY <1>2, <1>3, <2>3, <2>5, <3>1 DEF Entry
    <3>3. Uses(m2, High, n) <= Uses(m, High, n) /\ (m[v].pn = -1 => Uses(m2, High, n) = Uses(m, High, n))
      <4>1. IsFiniteSet(A)
        <5>1. A \in SUBSET High
          OBVIOUS
        <5> QED BY <5>1, Ranges, FS_Subset
      <4> HIDE DEF A, B
      <4>2. Cardinality(B) <= Cardinality(A)
        BY <3>2, <4>1, FS_Subset
      <4> QED BY <3>2, <4>2 DEF Uses, A, B
    <3>4. pi2[n] = pi[n] /\ pi[n].refcount \in Int
      BY <1>1, <1>5, <2>5, PageFields
    <3>5. pi[n].refcount = 0 <=> pi[n].owner = PO_FREE
      BY CountCovers
    <3> QED BY <2>1, <2>2, <3>3, <3>4, <3>5
  <2> QED BY <2>4, <2>5
<1>10. \A n \in Reserved \cup KernelPages : pi2[n] = pi[n]
  BY <1>5, <1>7, Ranges
<1>11. ASSUME NEW x \in Active(pr), NEW n \in Held(pr[x])
       PROVE  pi2[n] = pi[n]
  BY <1>5, HeldAlone
<1>12. ASSUME NEW n \in Held(d)
       PROVE  pi2[n] = PageInfo(p, 1)
  <2>1. \A x \in High : x \in VPages
    BY Ranges
  <2>2. CASE n = f
    BY <1>2, <1>5, <2>2
  <2>3. CASE n # f
    <3>1. n \in Held(pr[p])
      <4>1. CASE n \in d.tables
        BY <1>4, <4>1 DEF Held
      <4>2. CASE \E x \in High : m2[x].w /\ n = m2[x].pn
        <5>1. PICK x \in High : m2[x].w /\ n = m2[x].pn
          BY <4>2
        <5>2. m[x].w /\ n = m[x].pn
          BY <1>3, <2>1, <2>3, <5>1 DEF Entry
        <5> QED BY <5>2 DEF Held, m
      <4> QED BY <1>4, <4>1, <4>2 DEF Held
    <3>2. pi[n] = PageInfo(p, 1)
      BY <3>1, HeldAlone
    <3> QED BY <1>11, <3>1, <3>2
  <2> QED BY <2>2, <2>3
<1>13. Breaks(d)
  BY <1>1, <1>4 DEF Breaks
<1>14. NoPageAlloc => m[v].pn = -1 /\ Confined(m2)
  BY <1>2, <1>3, Ranges DEF Sound, Exact, Confined, present, m
<1>15. Sound(pi2, [pr EXCEPT ![p] = d])
  BY <1>1, <1>4, <1>6, <1>8, <1>9, <1>10, <1>11, <1>12, <1>13, <1>14, SoundUpdate
<1> QED BY <1>15 DEF d, pi2, faulted

\* the page table process_setup and process_fork build: fresh pages c, writable,
\* and over them the read-only pages ro
new_table(c, ro) == map_user(map_user(kernel_part, c, TRUE), ro, FALSE)

Pieces(c, ro) ==
    /\ DOMAIN c \subseteq UserPages /\ c \in [DOMAIN c -> Pages]
    /\ DOMAIN ro \subseteq UserPages /\ ro \in [DOMAIN ro -> Pages]

\* What such a table holds.
LEMMA NewTable ==
    ASSUME NEW c, NEW ro, Pieces(c, ro)
    PROVE  /\ new_table(c, ro) \in [VPages -> EntryType] /\ Shape(new_table(c, ro))
           /\ Confined(new_table(c, ro))
           /\ \A v \in UserPages :
                 /\ new_table(c, ro)[v].pn =
                       IF v \in DOMAIN ro THEN ro[v] ELSE IF v \in DOMAIN c THEN c[v] ELSE -1
                 /\ new_table(c, ro)[v].w <=> v \in DOMAIN c \ DOMAIN ro
                 /\ new_table(c, ro)[v].u <=> v \in DOMAIN c \cup DOMAIN ro
<1> DEFINE m == new_table(c, ro)
           D == DOMAIN c
           S == DOMAIN ro
<1>0. /\ D \subseteq UserPages /\ S \subseteq UserPages
      /\ c \in [D -> Pages] /\ ro \in [S -> Pages]
  BY DEF Pieces
<1>1. \A v \in VPages : m[v] =
         IF v \in S THEN Entry(ro[v], FALSE, TRUE)
         ELSE IF v \in D THEN Entry(c[v], TRUE, TRUE)
         ELSE IF v < PROC_START THEN Entry(v, TRUE, v = CONSOLE) ELSE Absent
  BY <1>0 DEF new_table, map_user, kernel_part
<1>2. m = [v \in VPages |-> m[v]]
  BY DEF new_table, map_user
<1> HIDE DEF m
<1>3. \A v \in UserPages : v \in VPages /\ ~(v < PROC_START)
  BY Ranges DEF UserPages
<1>4. \A v \in VPages : v < PROC_START => v \in Pages
  BY KernelAssumption DEF VPages, Pages
<1>5. ASSUME NEW v \in VPages
      PROVE  /\ m[v] \in EntryType
             /\ v < PROC_START => m[v] = Entry(v, TRUE, v = CONSOLE)
             /\ ~(v < PROC_START) /\ m[v] # Absent
                   => v \in UserPages /\ m[v].pn \in Pages /\ m[v].u
             /\ v \in UserPages =>
                   /\ m[v].pn = IF v \in S THEN ro[v] ELSE IF v \in D THEN c[v] ELSE -1
                   /\ m[v].w <=> v \in D \ S
                   /\ m[v].u <=> v \in D \cup S
  <2>1. CASE v \in S
    <3>1. m[v] = Entry(ro[v], FALSE, TRUE) /\ ro[v] \in Pages /\ v \in UserPages
      BY <1>0, <1>1, <2>1
    <3> QED BY <1>3, <2>1, <3>1 DEF Entry, EntryType
  <2>2. CASE v \notin S /\ v \in D
    <3>1. m[v] = Entry(c[v], TRUE, TRUE) /\ c[v] \in Pages /\ v \in UserPages
      BY <1>0, <1>1, <2>2
    <3> QED BY <1>3, <2>2, <3>1 DEF Entry, EntryType
  <2>3. CASE v \notin S /\ v \notin D /\ v < PROC_START
    <3>1. m[v] = Entry(v, TRUE, v = CONSOLE) /\ v \in Pages /\ v \notin UserPages
      BY <1>1, <1>3, <1>4, <2>3
    <3> QED BY <2>3, <3>1 DEF Entry, EntryType
  <2>4. CASE v \notin S /\ v \notin D /\ ~(v < PROC_START)
    <3>1. m[v] = Absent
      BY <1>1, <2>4
    <3>2. Absent \in EntryType /\ Absent.pn = -1 /\ ~Absent.w /\ ~Absent.u
      BY DEF Absent, EntryType
    <3> QED BY <2>4, <3>1, <3>2
  <2> QED BY <2>1, <2>2, <2>3, <2>4
<1>6. Shape(m) /\ Confined(m)
  <2>1. \A v \in High : v \in VPages /\ ~(v < PROC_START)
    BY Ranges DEF VPages
  <2> QED BY <1>5, <2>1 DEF Shape, Confined
<1>7. m \in [VPages -> EntryType]
  BY <1>2, <1>5
<1>8. \A v \in UserPages :
         /\ m[v].pn = IF v \in S THEN ro[v] ELSE IF v \in D THEN c[v] ELSE -1
         /\ m[v].w <=> v \in D \ S
         /\ m[v].u <=> v \in D \cup S
  BY <1>3, <1>5
<1> QED BY <1>6, <1>7, <1>8 DEF m

\* no page is taken twice; the read-only pages are taken or come from elsewhere
OneToOne(c) == \A x, y \in DOMAIN c : c[x] = c[y] => x = y
Apart(c, ro) ==
    \A v \in DOMAIN ro : IF v \in DOMAIN c THEN ro[v] = c[v] ELSE ro[v] \notin Taken(c)

\* How often such a table maps a page: a fresh one once, any other as often as its
\* read-only part does.
LEMMA NewUses ==
    ASSUME NEW c, NEW ro, Pieces(c, ro), OneToOne(c), Apart(c, ro), NEW n \in Pages
    PROVE  LET m == new_table(c, ro)
           IN  /\ n \in Taken(c) => Uses(m, UserPages, n) = 1
               /\ n \notin Taken(c) => Uses(m, UserPages, n) = Uses(m, DOMAIN ro, n)
               /\ DOMAIN ro \cap DOMAIN c = {} /\ n \in Taken(c) => Uses(m, DOMAIN ro, n) = 0
<1> DEFINE m == new_table(c, ro)
           D == DOMAIN c
           S == DOMAIN ro
<1>0. /\ D \subseteq UserPages /\ S \subseteq UserPages
      /\ c \in [D -> Pages] /\ ro \in [S -> Pages]
  BY DEF Pieces
<1>1. \A v \in UserPages : m[v].pn = IF v \in S THEN ro[v] ELSE IF v \in D THEN c[v] ELSE -1
  BY NewTable
<1>2. \A v \in UserPages : m[v].pn = IF v \in D THEN c[v] ELSE IF v \in S THEN ro[v] ELSE -1
  BY <1>1 DEF Apart
<1>3. n # -1
  BY Ranges DEF Pages
<1>4. /\ Taken(c) = {c[v] : v \in D} /\ \A x, y \in D : c[x] = c[y] => x = y
      /\ \A v \in S : IF v \in D THEN ro[v] = c[v] ELSE ro[v] \notin Taken(c)
  BY DEF Taken, OneToOne, Apart
<1> HIDE DEF m
<1>5. ASSUME n \in Taken(c)
      PROVE  Uses(m, UserPages, n) = 1
  <2>1. PICK x \in D : n = c[x]
    BY <1>4, <1>5
  <2>2. {v \in UserPages : m[v].pn = n} = {x}
    BY <1>0, <1>2, <1>3, <1>4, <1>5, <2>1
  <2> QED BY <2>2, FS_Singleton DEF Uses
<1>6. ASSUME n \notin Taken(c)
      PROVE  Uses(m, UserPages, n) = Uses(m, S, n)
  <2>1. {v \in UserPages : m[v].pn = n} = {v \in S : m[v].pn = n}
    BY <1>0, <1>2, <1>3, <1>4, <1>6
  <2> QED BY <2>1 DEF Uses
<1>7. ASSUME S \cap D = {}, n \in Taken(c)
      PROVE  Uses(m, S, n) = 0
  <2>1. \A v \in S : m[v].pn # n
    BY <1>0, <1>2, <1>4, <1>7
  <2> QED BY <2>1, UsesNone
<1> QED BY <1>5, <1>6, <1>7 DEF m

\* the read-only pages were just taken, or are in use and nobody's to write
Shares(pi, pr, c, ro) ==
    \A v \in DOMAIN ro :
        IF v \in DOMAIN c THEN ro[v] = c[v]
        ELSE /\ pi[ro[v]].refcount >= 1 /\ ro[v] \notin Reserved \cup KernelPages
             /\ \A q \in Active(pr) : ro[v] \notin Held(pr[q])

\* pi2 is pi with tables T and pages c given to p, and the other read-only pages shared
Grants(pi, p, T, c, ro, pi2) ==
    /\ pi2 = [n \in Pages |-> pi2[n]]
    /\ \A n \in T \cup Taken(c) : pi2[n] = PageInfo(p, 1)
    /\ \A n \in Pages \ (T \cup Taken(c)) :
          pi2[n] = PageInfo(pi[n].owner, pi[n].refcount + Uses(new_table(c, ro), DOMAIN ro, n))

\* A new process: its tables T and its pages c were free, and what it shares with
\* its parent is in use, read-only, and nobody's table.
LEMMA NewSound ==
    ASSUME NEW pi, NEW pr, Sound(pi, pr), NEW p \in Pids, pr[p].state = "free",
           NEW D \in SUBSET UserPages, NEW S \in SUBSET UserPages,
           NEW T \in SUBSET FreePages(pi), NEW c \in [D -> FreePages(pi) \ T],
           NEW ro \in [S -> Pages], OneToOne(c), Shares(pi, pr, c, ro),
           NEW pi2, Grants(pi, p, T, c, ro, pi2),
           NEW b \in Nat, NEW o \in Nat, NEW f \in BOOLEAN, ~f => o = ORIG,
           Breaks(Descriptor("runnable", b, o, new_table(c, ro), T, f))
    PROVE  Sound(pi2, [pr EXCEPT ![p] = Descriptor("runnable", b, o, new_table(c, ro), T, f)])
<1> DEFINE m == new_table(c, ro)
           d == Descriptor("runnable", b, o, m, T, f)
           X == T \cup Taken(c)
<1>1. pi \in [Pages -> PageInfoType] /\ Covered(pi, pr) /\ pr \in [Pids -> ProcType]
  BY DEF Sound
<1>2. FreePages(pi) \subseteq Pages /\ \A n \in FreePages(pi) : pi[n].refcount = 0
  BY DEF FreePages
<1>3. Taken(c) = {c[v] : v \in D} /\ Taken(c) \subseteq FreePages(pi) \ T
  BY DEF Taken
<1>4. Pieces(c, ro) /\ DOMAIN c = D /\ DOMAIN ro = S
  BY <1>2 DEF Pieces
<1>5. \A v \in S : IF v \in D THEN ro[v] = c[v] ELSE ro[v] \notin FreePages(pi)
  BY <1>2 DEF Shares
<1>6. Apart(c, ro)
  BY <1>3, <1>5 DEF Apart
<1>7. /\ m \in [VPages -> EntryType] /\ Shape(m) /\ Confined(m)
      /\ \A v \in UserPages :
            /\ m[v].pn = IF v \in S THEN ro[v] ELSE IF v \in D THEN c[v] ELSE -1
            /\ m[v].w <=> v \in D \ S
  BY <1>4, NewTable
<1>8. ASSUME NEW n \in Pages
      PROVE  /\ n \in Taken(c) => Uses(m, UserPages, n) = 1
             /\ n \notin Taken(c) => Uses(m, UserPages, n) = Uses(m, S, n)
  BY <1>4, <1>6, NewUses
<1>9. \A n \in Pages : Uses(m, S, n) \in Nat
  BY UsesNat, Ranges
<1>10. /\ d \in ProcType /\ d.state = "runnable" /\ d.pt = m /\ d.tables = T
       /\ d.forked = f /\ d.orig = o /\ d.brk = b
  BY <1>2, <1>7 DEF Descriptor, ProcType
<1>11. Breaks(d)
  OBVIOUS
<1> HIDE DEF m, d
<1>12. ASSUME NEW n \in Pages, Uses(m, S, n) # 0, n \notin Taken(c)
       PROVE  /\ pi[n].refcount >= 1 /\ n \notin Reserved \cup KernelPages
              /\ \A q \in Active(pr) : n \notin Held(pr[q])
  <2>1. PICK v \in S : m[v].pn = n
    BY <1>12, UsesNone
  <2>2. m[v].pn = ro[v]
    BY <1>7
  <2>3. v \notin D
    BY <1>3, <1>5, <1>12, <2>1, <2>2
  <2> QED BY <2>1, <2>2, <2>3 DEF Shares
<1>13. \A n \in T : n \notin Taken(c) /\ n \in Pages /\ pi[n].refcount = 0
  BY <1>2, <1>3
<1>14. pi2 \in [Pages -> PageInfoType]
  <2>1. PageInfo(p, 1) \in PageInfoType
    BY PageInfoIs
  <2>2. ASSUME NEW n \in Pages
        PROVE  pi2[n] \in PageInfoType
    <3>1. CASE n \in X
      BY <2>1, <3>1 DEF Grants
    <3>2. CASE n \notin X
      <4>1. pi2[n] = PageInfo(pi[n].owner, pi[n].refcount + Uses(m, S, n))
        BY <3>2 DEF Grants, m
      <4>2. /\ pi[n].owner \in {PO_FREE, PO_RESERVED, PO_KERNEL} \cup Pids
            /\ pi[n].refcount \in Int
        BY <1>1 DEF PageInfoType
      <4>3. pi[n].refcount + Uses(m, S, n) \in Int
        BY <1>9, <4>2
      <4> QED BY <4>1, <4>2, <4>3, PageInfoIs
    <3> QED BY <3>1, <3>2
  <2> QED BY <2>2 DEF Grants
<1>15. ASSUME NEW n \in Pages
       PROVE  /\ pi2[n].refcount = pi[n].refcount - Part(pr[p], n) + Part(d, n)
              /\ pi2[n].refcount >= pi[n].refcount - Part(pr[p], n) + Part(d, n)
              /\ pi2[n].refcount = 0 <=> pi2[n].owner = PO_FREE
  <2>1. Part(pr[p], n) = 0
    BY PartFree
  <2>2. Part(d, n) = Uses(m, UserPages, n) + (IF n \in T THEN 1 ELSE 0)
    <3>1. Uses(m, High, n) = Uses(m, UserPages, n)
      BY <1>7, ConfinedUses
    <3> QED BY <1>10, <3>1, PartIs
  <2>3. p # PO_FREE
    BY Ranges DEF Pids, PO_FREE
  <2>4. CASE n \in T
    <3>1. Uses(m, UserPages, n) = Uses(m, S, n) /\ Uses(m, S, n) = 0
      BY <1>8, <1>9, <1>12, <1>13, <2>4
    <3>2. pi2[n].refcount = 1 /\ pi2[n].owner = p
      <4>1. pi2[n] = PageInfo(p, 1)
        BY <2>4 DEF Grants
      <4> QED BY <4>1, PageInfoIs
    <3> QED BY <1>13, <2>1, <2>2, <2>3, <2>4, <3>1, <3>2
  <2>5. CASE n \in Taken(c)
    <3>1. n \notin T /\ pi[n].refcount = 0 /\ Uses(m, UserPages, n) = 1
      BY <1>2, <1>3, <1>8, <2>5
    <3>2. pi2[n].refcount = 1 /\ pi2[n].owner = p
      <4>1. pi2[n] = PageInfo(p, 1)
        BY <2>5 DEF Grants
      <4> QED BY <4>1, PageInfoIs
    <3> QED BY <2>1, <2>2, <2>3, <3>1, <3>2
  <2>6. CASE n \notin X
    <3>1. pi2[n] = PageInfo(pi[n].owner, pi[n].refcount + Uses(m, S, n))
      BY <2>6 DEF Grants, m
    <3>2. pi2[n].refcount = pi[n].refcount + Uses(m, S, n) /\ pi2[n].owner = pi[n].owner
      BY <3>1, PageInfoIs
    <3>3. Part(d, n) = Uses(m, S, n)
      BY <1>8, <1>9, <2>2, <2>6
    <3>4. pi[n].refcount \in Int /\ (pi[n].refcount = 0 <=> pi[n].owner = PO_FREE)
      BY <1>1, PageFields DEF Covered
    <3>5. Uses(m, S, n) # 0 => pi[n].refcount >= 1
      BY <1>12, <2>6
    <3> QED BY <1>9, <2>1, <3>2, <3>3, <3>4, <3>5
  <2> QED BY <2>4, <2>5, <2>6
<1>16. ASSUME NEW n \in Pages, n \notin X, Uses(m, S, n) = 0
       PROVE  pi2[n] = pi[n]
  <2>1. pi2[n] = PageInfo(pi[n].owner, pi[n].refcount + Uses(m, S, n))
    BY <1>16 DEF Grants, m
  <2>2. pi[n].refcount \in Int /\ pi[n] = PageInfo(pi[n].owner, pi[n].refcount)
    BY <1>1, PageFields
  <2>3. pi[n].refcount + Uses(m, S, n) = pi[n].refcount
    BY <1>16, <2>2
  <2> QED BY <2>1, <2>2, <2>3
<1>17. ASSUME NEW n \in Reserved \cup KernelPages
       PROVE  pi2[n] = pi[n]
  <2>1. n \in Pages
    BY Ranges
  <2>2. n \notin FreePages(pi)
    BY <1>2, <2>1, CountCovers, NoReference
  <2>3. n \notin X /\ Uses(m, S, n) = 0
    BY <1>3, <1>5, <1>12, <2>1, <2>2
  <2> QED BY <1>16, <2>1, <2>3
<1>18. ASSUME NEW q \in Active(pr) \ {p}, NEW n \in Held(pr[q])
       PROVE  pi2[n] = pi[n]
  <2>1. n \in Pages /\ n \notin FreePages(pi)
    BY HeldAlone
  <2>2. n \notin X /\ Uses(m, S, n) = 0
    BY <1>3, <1>12, <2>1
  <2> QED BY <1>16, <2>1, <2>2
<1>19. ASSUME NEW n \in Held(d)
       PROVE  pi2[n] = PageInfo(p, 1)
  <2>1. n \in X
    <3>1. CASE n \in d.tables
      BY <1>10, <3>1
    <3>2. CASE \E v \in High : m[v].w /\ n = m[v].pn
      <4>1. PICK v \in High : m[v].w /\ n = m[v].pn
        BY <3>2
      <4>2. v \in UserPages
        BY <1>7, <4>1 DEF Confined, Absent
      <4>3. v \in D /\ n = c[v]
        BY <1>7, <4>1, <4>2
      <4> QED BY <1>3, <4>3
    <3> QED BY <1>10, <3>1, <3>2 DEF Held
  <2> QED BY <2>1 DEF Grants
<1>20. Shape(d.pt) /\ Confined(d.pt) /\ (~d.forked => d.orig = ORIG)
  BY <1>7, <1>10
<1>21. Sound(pi2, [pr EXCEPT ![p] = d])
  BY <1>10, <1>11, <1>14, <1>15, <1>17, <1>18, <1>19, <1>20, SoundUpdate
<1> QED BY <1>21 DEF d, m

\* What palloc gives for the pages of W: distinct pages of F, for all of W unless F
\* is used up.
LEMMA ChoiceIs ==
    ASSUME NEW W \in SUBSET UserPages, NEW F \in SUBSET Pages, NEW c \in palloc_choices(W, F)
    PROVE  /\ DOMAIN c \subseteq W /\ c \in [DOMAIN c -> F] /\ OneToOne(c)
           /\ DOMAIN c = W \/ Cardinality(DOMAIN c) = Cardinality(F)
<1>1. PICK D \in SUBSET W :
         /\ D = W \/ Cardinality(D) = Cardinality(F)
         /\ c \in [D -> F] /\ \A x, y \in D : x < y => c[x] < c[y]
  BY DEF palloc_choices
<1>2. DOMAIN c = D
  BY <1>1
<1>3. ASSUME NEW x \in D, NEW y \in D, c[x] = c[y]
      PROVE  x = y
  <2>1. x \in Int /\ y \in Int /\ c[x] \in Int /\ c[y] \in Int
    <3>1. x \in UserPages /\ y \in UserPages /\ c[x] \in Pages /\ c[y] \in Pages
      BY <1>1
    <3> QED BY <3>1, Ranges DEF UserPages, Pages
  <2>2. x < y => c[x] < c[y]
    BY <1>1
  <2>3. y < x => c[y] < c[x]
    BY <1>1
  <2> QED BY <1>3, <2>1, <2>2, <2>3
<1> QED BY <1>1, <1>2, <1>3 DEF OneToOne

\* Pages that the parent maps read-only may be shared.
LEMMA ForkShares ==
    ASSUME NEW pi, NEW pr, Sound(pi, pr), NEW p \in Active(pr),
           NEW c, DOMAIN c \subseteq copied_pages(pr[p].pt),
           NEW S \in SUBSET shared_pages(pr[p].pt)
    PROVE  LET ro == [v \in S |-> pr[p].pt[v].pn]
           IN  /\ Shares(pi, pr, c, ro) /\ ro \in [S -> Pages]
               /\ S \subseteq UserPages /\ S \cap DOMAIN c = {}
<1> DEFINE m == pr[p].pt
           ro == [v \in S |-> m[v].pn]
<1>1. \A v \in S : v \in UserPages /\ v \in High /\ m[v].pn # -1 /\ ~m[v].w
  BY Ranges DEF shared_pages, present
<1>2. S \cap DOMAIN c = {}
  BY <1>1 DEF copied_pages
<1>3. ASSUME NEW v \in S
      PROVE  /\ ro[v] \in Pages /\ pi[ro[v]].refcount >= 1 /\ ro[v] \notin Reserved \cup KernelPages
             /\ \A q \in Active(pr) : ro[v] \notin Held(pr[q])
  <2>1. ro[v] = m[v].pn
    OBVIOUS
  <2>2. m[v].pn \in Pages /\ pi[m[v].pn].refcount >= 1 /\ m[v].pn \notin Reserved \cup KernelPages
    BY <1>1, MappedPage
  <2>3. ASSUME NEW q \in Active(pr), m[v].pn \in Held(pr[q])
        PROVE  FALSE
    <3> DEFINE n == m[v].pn
    <3>1. n \in Held(pr[q]) /\ pr[p].pt[v].pn = n /\ v \in High
      BY <1>1, <2>3
    <3> HIDE DEF n
    <3>2. pr[p].pt[v].w
      BY <3>1, HeldWritable
    <3> QED BY <1>1, <3>2
  <2> QED BY <2>1, <2>2, <2>3
<1>4. DOMAIN ro = S
  OBVIOUS
<1>5. ro \in [S -> Pages]
  BY <1>3
<1> HIDE DEF ro
<1>6. Shares(pi, pr, c, ro)
  BY <1>2, <1>3, <1>4 DEF Shares
<1> QED BY <1>1, <1>2, <1>5, <1>6 DEF ro

\* A fork that finds no page half way gives back exactly what it took.
LEMMA UndoFork ==
    ASSUME NEW pi, NEW pr, Sound(pi, pr), NEW p \in Pids,
           NEW T \in SUBSET FreePages(pi), NEW c, NEW ro,
           c \in [DOMAIN c -> FreePages(pi) \ T], Pieces(c, ro), OneToOne(c),
           Shares(pi, pr, c, ro), DOMAIN ro \cap DOMAIN c = {}
    PROVE  LET m == new_table(c, ro)
           IN  release(share(palloc(pi, T \cup Taken(c), p), m, DOMAIN ro), m, T) = pi
<1> DEFINE m == new_table(c, ro)
           S == DOMAIN ro
           A == palloc(pi, T \cup Taken(c), p)
           B == share(A, m, S)
           C == release(B, m, T)
<1>1. pi \in [Pages -> PageInfoType]
  BY DEF Sound
<1>2. /\ FreePages(pi) \subseteq Pages
      /\ \A n \in FreePages(pi) : pi[n].refcount = 0 /\ pi[n].owner = PO_FREE
  BY DEF FreePages
<1>3. Taken(c) \subseteq FreePages(pi) \ T
  BY DEF Taken
<1>4. \A v \in S : ro[v] \in Pages /\ ro[v] \notin FreePages(pi)
  BY <1>2 DEF Shares, Pieces
<1>5. Apart(c, ro)
  BY <1>3, <1>4 DEF Apart
<1>6. ASSUME NEW n \in Pages
      PROVE  /\ n \in Taken(c) => Uses(m, UserPages, n) = 1 /\ Uses(m, S, n) = 0
             /\ n \notin Taken(c) => Uses(m, UserPages, n) = Uses(m, S, n)
             /\ Uses(m, S, n) \in Nat
  <2>1. S \subseteq UserPages /\ UserPages \subseteq High
    BY Ranges DEF Pieces
  <2>2. Uses(m, S, n) \in Nat
    BY <2>1, UsesNat
  <2> QED BY <1>5, <2>2, NewUses
<1>7. ASSUME NEW n \in Pages, Uses(m, S, n) # 0
      PROVE  pi[n].refcount >= 1
  <2>1. PICK v \in S : m[v].pn = n
    BY <1>7, UsesNone
  <2>2. S \subseteq UserPages
    BY DEF Pieces
  <2>3. m[v].pn = ro[v]
    BY <2>2, NewTable
  <2> QED BY <2>1, <2>3 DEF Shares
<1>8. \A n \in Pages : A[n] = IF n \in T \cup Taken(c) THEN PageInfo(p, pi[n].refcount + 1) ELSE pi[n]
  BY DEF palloc
<1>9. \A n \in Pages : B[n] = PageInfo(A[n].owner, A[n].refcount + Uses(m, S, n))
  BY DEF share
<1>10. /\ C = [n \in Pages |-> C[n]]
       /\ \A n \in Pages : C[n] =
            IF n \in T THEN PageInfo(PO_FREE, 0)
            ELSE PageInfo(IF B[n].refcount \in 1 .. Uses(m, UserPages, n) THEN PO_FREE ELSE B[n].owner,
                          B[n].refcount - Uses(m, UserPages, n))
  BY DEF release, unref
<1> HIDE DEF A, B, C, m
<1>11. ASSUME NEW n \in Pages
       PROVE  C[n] = pi[n]
  <2>1. /\ pi[n] = PageInfo(pi[n].owner, pi[n].refcount) /\ pi[n].refcount \in Int
        /\ pi[n].refcount = 0 <=> pi[n].owner = PO_FREE
    BY <1>1, PageFields, CountCovers
  <2>2. CASE n \in T
    <3>1. pi[n] = PageInfo(PO_FREE, 0)
      BY <1>2, <2>1, <2>2
    <3> QED BY <1>10, <2>2, <3>1
  <2>3. CASE n \in Taken(c)
    <3>1. n \notin T /\ pi[n] = PageInfo(PO_FREE, 0) /\ pi[n].refcount = 0
      BY <1>2, <1>3, <2>1, <2>3
    <3>2. A[n] = PageInfo(p, 1)
      BY <1>8, <2>3, <3>1
    <3>3. B[n] = PageInfo(p, 1)
      BY <1>6, <1>9, <2>3, <3>2, PageInfoIs
    <3>4. Uses(m, UserPages, n) = 1 /\ B[n].refcount = 1
      BY <1>6, <2>3, <3>3, PageInfoIs
    <3>5. C[n] = PageInfo(PO_FREE, 0)
      BY <1>10, <3>1, <3>4
    <3> QED BY <3>1, <3>5
  <2>4. CASE n \notin T \cup Taken(c)
    <3> DEFINE U == Uses(m, S, n)
               r == pi[n].refcount
    <3>1. Uses(m, UserPages, n) = U /\ U \in Nat /\ (U # 0 => r >= 1)
      BY <1>6, <1>7, <2>4
    <3>2. B[n] = PageInfo(pi[n].owner, r + U)
      BY <1>8, <1>9, <2>4
    <3>3. B[n].refcount = r + U /\ B[n].owner = pi[n].owner
      BY <3>2, PageInfoIs
    <3>4. C[n] = PageInfo(IF r + U \in 1 .. U THEN PO_FREE ELSE pi[n].owner, (r + U) - U)
      BY <1>10, <2>4, <3>1, <3>3
    <3>5. r \in Nat
      BY CountCovers
    <3> HIDE DEF U, r
    <3>6. r + U \notin 1 .. U /\ (r + U) - U = r
      BY <3>1, <3>5
    <3>7. C[n] = PageInfo(pi[n].owner, r)
      BY <3>4, <3>6
    <3> QED BY <2>1, <3>7 DEF r
  <2> QED BY <2>2, <2>3, <2>4
<1>12. C = pi
  BY <1>1, <1>10, <1>11
<1> QED BY <1>12 DEF C, B, A, m

-----------------------------------------------------------------------------
(* Boot *)

\* A table of the right shape maps the kernel's pages: the assertions of
\* set_pagetable and check_page_table_mappings hold.
LEMMA KernelMapped ==
    ASSUME NEW m, Shape(m)
    PROVE  kernel_mapped(m)
<1>1. ASSUME NEW v \in KernelPages
      PROVE  m[v].pn = v /\ m[v].w
  <2>1. v \in VPages /\ v < PROC_START
    BY Ranges
  <2>2. m[v] = Entry(v, TRUE, v = CONSOLE)
    BY <2>1 DEF Shape
  <2> QED BY <2>2 DEF Entry
<1> QED BY <1>1 DEF kernel_mapped

\* run finds such a table in every process, so its assertions hold.
LEMMA RunIs ==
    ASSUME NEW pi, NEW pr, Sound(pi, pr), NEW p \in Active(pr), run(pr, p)
    PROVE  current' = p /\ mode' = "user"
<1>1. Shape(pr[p].pt)
  BY DEF Sound
<1> QED BY <1>1, KernelMapped DEF run

\* schedule goes on with a living process, or loops when there is none.
LEMMA ScheduleIs ==
    ASSUME NEW pi, NEW pr, Sound(pi, pr), schedule(pr)
    PROVE  \/ mode' = "spin" /\ current' = current
           \/ mode' = "user" /\ current' \in Active(pr)
<1>1. CASE Active(pr) = {} /\ mode' = "spin" /\ UNCHANGED current
  BY <1>1
<1>2. CASE \E p \in Active(pr) : run(pr, p)
  <2>1. PICK p \in Active(pr) : run(pr, p)
    BY <1>2
  <2> QED BY <2>1, RunIs
<1> QED BY <1>1, <1>2 DEF schedule

\* The state that pageinfo_init and kernel() leave before the first process.
LEMMA InitSound ==
    /\ Sound(InitPages, NoProcs) /\ Active(NoProcs) = {}
    /\ FreePages(InitPages) = Pages \ (Reserved \cup KernelPages)
<1>1. Reserved \cap KernelPages = {} /\ 0 \in Reserved
  BY KernelAssumption
<1>2. /\ \A n \in Reserved : InitPages[n] = PageInfo(PO_RESERVED, 1)
      /\ \A n \in KernelPages : InitPages[n] = PageInfo(PO_KERNEL, 1)
      /\ \A n \in Pages \ (Reserved \cup KernelPages) : InitPages[n] = PageInfo(PO_FREE, 0)
  BY <1>1, Ranges DEF InitPages
<1>3. InitPages \in [Pages -> PageInfoType]
  <2>1. /\ PageInfo(PO_RESERVED, 1) \in PageInfoType /\ PageInfo(PO_KERNEL, 1) \in PageInfoType
        /\ PageInfo(PO_FREE, 0) \in PageInfoType
    BY PageInfoIs
  <2> QED BY <2>1 DEF InitPages
<1>4. NoProcs \in [Pids -> ProcType]
  BY DEF NoProcs, Descriptor, NoTable, Absent, EntryType, ProcType
<1>5. \A p \in Pids : NoProcs[p].state = "free" /\ NoProcs[p].orig = 0 /\ NoProcs[p].brk = 0
  BY DEF NoProcs, Descriptor
<1>6. Active(NoProcs) = {}
  BY <1>5 DEF Active
<1>7. ASSUME NEW n \in Pages
      PROVE  References(NoProcs, n) = Cardinality(Fixed(n))
  <2>1. /\ {x \in Active(NoProcs) \X High : NoProcs[x[1]].pt[x[2]].pn = n} = {}
        /\ {p \in Active(NoProcs) : n \in NoProcs[p].tables} = {}
    BY <1>6
  <2>2. References(NoProcs, n) = 0 + 0 + Cardinality(Fixed(n))
    BY <2>1, FS_EmptySet DEF References, Fixed
  <2>3. Cardinality(Fixed(n)) \in Nat
    <3>1. 1 \in Pids
      BY Ranges DEF Pids
    <3> QED BY <3>1, Finite, FS_CardinalityType
  <2> QED BY <2>2, <2>3
<1>8. ASSUME NEW n \in Pages
      PROVE  /\ InitPages[n].refcount = References(NoProcs, n)
             /\ InitPages[n].refcount = 0 <=> InitPages[n].owner = PO_FREE
             /\ InitPages[n].refcount = 0 <=> n \notin Reserved \cup KernelPages
  <2>1. CASE n \in Reserved \cup KernelPages
    <3>1. Fixed(n) = {n}
      BY <2>1 DEF Fixed
    <3>2. Cardinality(Fixed(n)) = 1
      BY <3>1, FS_Singleton
    <3>3. InitPages[n].refcount = 1 /\ InitPages[n].owner \in {PO_RESERVED, PO_KERNEL}
      BY <1>2, <2>1, PageInfoIs
    <3> QED BY <1>7, <2>1, <3>2, <3>3 DEF PO_RESERVED, PO_KERNEL, PO_FREE
  <2>2. CASE n \notin Reserved \cup KernelPages
    <3>1. Fixed(n) = {}
      BY <2>2 DEF Fixed
    <3>2. InitPages[n].refcount = 0 /\ InitPages[n].owner = PO_FREE
      BY <1>2, <2>2, PageInfoIs
    <3> QED BY <1>7, <2>2, <3>1, <3>2, FS_EmptySet
  <2> QED BY <2>1, <2>2
<1>9. Covered(InitPages, NoProcs) /\ Exact(InitPages, NoProcs)
  <2>1. \A n \in Pages : InitPages[n].refcount \in Int
    BY <1>3, PageFields
  <2> QED BY <1>6, <1>8, <2>1 DEF Covered, Counted, Exact
<1>10. Permanent(InitPages)
  BY <1>2 DEF Permanent
<1>11. Sound(InitPages, NoProcs)
  BY <1>3, <1>4, <1>5, <1>6, <1>9, <1>10 DEF Sound, Breaks
<1>12. FreePages(InitPages) = Pages \ (Reserved \cup KernelPages)
  BY <1>1, <1>8 DEF FreePages
<1> QED BY <1>6, <1>11, <1>12

\* Sizes at boot.
LEMMA BootSizes ==
    /\ NTABLES \in Nat /\ IsFiniteSet(Image) /\ Cardinality(Image) \in Nat
    /\ Footprint \in Nat /\ Footprint = NTABLES + Cardinality(Image) + 1
    /\ IsFiniteSet(Image \cup {STACK}) /\ Cardinality(Image \cup {STACK}) = Cardinality(Image) + 1
    /\ Cardinality(Pages \ (Reserved \cup KernelPages)) \in Nat
    /\ \A n \in Commands : /\ n \in Pids /\ n \in Nat /\ n >= 1
                           /\ n * Footprint <= Cardinality(Pages \ (Reserved \cup KernelPages))
<1>1. NTABLES \in Nat /\ Commands \subseteq Pids
  BY KernelAssumption
<1>2. IsFiniteSet(Image) /\ STACK \notin Image
  <2>1. Image \in SUBSET High
    BY Ranges
  <2> QED BY <2>1, Ranges, FS_Subset
<1>3. Cardinality(Image) \in Nat
  BY <1>2, FS_CardinalityType
<1>4. IsFiniteSet(Image \cup {STACK}) /\ Cardinality(Image \cup {STACK}) = Cardinality(Image) + 1
  BY <1>2, FS_AddElement
<1>5. Cardinality(Pages \ (Reserved \cup KernelPages)) \in Nat
  BY Ranges, FS_Difference, FS_CardinalityType
<1>6. \A n \in Commands : n \in Pids /\ n \in Nat /\ n >= 1
  BY <1>1, Ranges DEF Pids
<1>7. \A n \in Commands : n * Footprint <= Cardinality(Pages \ (Reserved \cup KernelPages))
  BY BootAssumption DEF Footprint
<1>8. Footprint \in Nat /\ Footprint = NTABLES + Cardinality(Image) + 1
  BY <1>1, <1>3 DEF Footprint
<1> QED BY <1>1, <1>2, <1>3, <1>4, <1>5, <1>6, <1>7, <1>8

\* kernel() begins with nothing set up.
LEMMA BootBegins ==
    ASSUME NEW n \in Commands, pageinfo = InitPages, proc = NoProcs, todo = 1 .. n
    PROVE  Booting
<1>1. n \in Nat /\ n >= 1 /\ Footprint \in Nat
  BY BootSizes
<1>2. 1 \in 1 .. n /\ Active(proc) = 1 .. (1 - 1)
  BY <1>1, InitSound
<1>3. Cardinality(FreePages(pageinfo)) = Cardinality(Pages \ (Reserved \cup KernelPages))
  BY InitSound
<1>4. Cardinality(Pages \ (Reserved \cup KernelPages)) \in Nat
  BY BootSizes
<1>5. (1 - 1) * Footprint = 0
  BY <1>1
<1>6. Cardinality(FreePages(pageinfo)) + (1 - 1) * Footprint
        = Cardinality(Pages \ (Reserved \cup KernelPages))
  BY <1>3, <1>4, <1>5
<1> QED BY <1>2, <1>6 DEF Booting

\* The breaks of a loaded program: behind its image, at least a page above
\* PROC_START.
LEMMA OrigIs ==
    /\ PAGESIZE \in Nat \ {0} /\ Max(Image) \in Image /\ \A i \in Image : i <= Max(Image)
    /\ Max(Image) \in Nat /\ Max(Image) >= PROC_START /\ Max(Image) + 1 <= STACK
    /\ ORIG = (Max(Image) + 1) * PAGESIZE /\ ORIG \in Nat
<1>1. PAGESIZE \in Nat \ {0} /\ Image # {}
  BY KernelAssumption
<1>2. Image \in SUBSET Nat /\ \A i \in Image : i <= STACK /\ i # STACK /\ i >= PROC_START
  BY Ranges DEF UserPages, STACK
<1>3. STACK \in Nat
  BY Ranges DEF STACK
<1>4. \E x \in Image : \A y \in Image : y <= x
  BY <1>1, <1>2, <1>3, GreatestExists
<1>5. \E x \in Image : \A y \in Image : x >= y
  BY <1>2, <1>4
<1>6. Max(Image) \in Image /\ \A y \in Image : Max(Image) >= y
  BY <1>5 DEF Max
<1>7. Max(Image) \in Nat /\ Max(Image) >= PROC_START /\ Max(Image) + 1 <= STACK
  <2> DEFINE i == Max(Image)
  <2>1. i \in Nat /\ i <= STACK /\ i # STACK /\ i >= PROC_START
    BY <1>2, <1>6
  <2> HIDE DEF i
  <2>2. i + 1 <= STACK
    BY <1>3, <2>1
  <2> QED BY <2>1, <2>2 DEF i
<1>8. ORIG = (Max(Image) + 1) * PAGESIZE
  BY DEF ORIG
<1>9. (Max(Image) + 1) * PAGESIZE \in Nat
  BY <1>1, <1>7
<1> QED BY <1>1, <1>2, <1>6, <1>7, <1>8, <1>9

\* tables T and pages c are taken from F, each page once
Takes(F, T, c) ==
    /\ IsFiniteSet(F) /\ T \in SUBSET F
    /\ IsFiniteSet(DOMAIN c) /\ c \in [DOMAIN c -> F \ T] /\ OneToOne(c)

\* what is left of F
Left(F, T, c) == F \ (T \cup Taken(c))

\* How many pages a new process leaves free.
LEMMA LeftFree ==
    ASSUME NEW F, NEW T, NEW c, Takes(F, T, c)
    PROVE  /\ Cardinality(Left(F, T, c)) + Cardinality(T) + Cardinality(DOMAIN c) = Cardinality(F)
           /\ Cardinality(Left(F, T, c)) \in Nat
           /\ Cardinality(F \ T) = Cardinality(F) - Cardinality(T)
           /\ Cardinality(F) \in Nat /\ Cardinality(T) \in Nat /\ Cardinality(DOMAIN c) \in Nat
<1> DEFINE P == Taken(c)
           W == DOMAIN c
<1>0. /\ IsFiniteSet(F) /\ T \in SUBSET F
      /\ IsFiniteSet(W) /\ c \in [W -> F \ T] /\ OneToOne(c)
  BY DEF Takes
<1>1. IsFiniteSet(T) /\ P \subseteq F \ T /\ P = {c[v] : v \in W}
  BY <1>0, FS_Subset DEF Taken
<1>2. IsFiniteSet(P) /\ Cardinality(P) = Cardinality(W)
  <2>1. c \in Bijection(W, P)
    BY <1>0, <1>1 DEF OneToOne, Bijection, Injection, Surjection, IsInjective
  <2> QED BY <1>0, <2>1, FS_Bijection DEF ExistsBijection
<1>3. /\ Cardinality(F) \in Nat /\ Cardinality(T) \in Nat /\ Cardinality(W) \in Nat
      /\ Cardinality(P) \in Nat
  BY <1>0, <1>1, <1>2, FS_CardinalityType
<1> HIDE DEF P, W
<1>4. Cardinality(F \ T) = Cardinality(F) - Cardinality(T)
  <2>1. F \cap T = T
    BY <1>0
  <2> QED BY <1>0, <2>1, FS_Difference
<1>5. IsFiniteSet(F \ T) /\ (F \ T) \cap P = P /\ F \ (T \cup P) = (F \ T) \ P
  BY <1>0, <1>1, FS_Difference
<1>6. Cardinality((F \ T) \ P) = Cardinality(F \ T) - Cardinality(P)
  <2>1. Cardinality((F \ T) \ P) = Cardinality(F \ T) - Cardinality((F \ T) \cap P)
    BY <1>5, FS_Difference
  <2> QED BY <1>5, <2>1
<1>7. Cardinality(F \ (T \cup P)) = Cardinality(F) - (Cardinality(T) + Cardinality(W))
  <2>1. Cardinality(F \ (T \cup P)) = Cardinality((F \ T) \ P)
    BY <1>5, Zenon
  <2>2. Cardinality((F \ T) \ P) = (Cardinality(F) - Cardinality(T)) - Cardinality(W)
    BY <1>2, <1>4, <1>6, Zenon
  <2>3. (Cardinality(F) - Cardinality(T)) - Cardinality(W)
          = Cardinality(F) - (Cardinality(T) + Cardinality(W))
    BY <1>3
  <2> QED BY <2>1, <2>2, <2>3, Zenon
<1>8. Left(F, T, c) = F \ (T \cup P)
  BY DEF P, Left
<1>9. Cardinality(Left(F, T, c)) = Cardinality(F) - (Cardinality(T) + Cardinality(W))
  BY <1>7, <1>8, Zenon
<1>10. Cardinality(Left(F, T, c)) \in Nat
  BY <1>0, FS_Difference, FS_CardinalityType DEF Left
<1>11. Cardinality(Left(F, T, c)) + Cardinality(T) + Cardinality(W) = Cardinality(F)
  BY <1>3, <1>9, <1>10
<1> QED BY <1>3, <1>4, <1>10, <1>11 DEF W

\* the process that process_setup makes of tables T and pages c
loaded(T, c) ==
    Descriptor("runnable", ORIG, ORIG, new_table(c, [v \in Text |-> c[v]]), T, FALSE)

\* process_setup, when there is memory for the program: all of it is loaded.
LEMMA SetupSound ==
    ASSUME NEW pi, NEW pr, Sound(pi, pr), NEW p \in Pids, pr[p].state = "free",
           Cardinality(FreePages(pi)) >= Footprint,
           NEW T \in table_choices(FreePages(pi)),
           NEW c \in palloc_choices(Image \cup {STACK}, FreePages(pi) \ T)
    PROVE  LET pi2 == palloc(pi, T \cup Taken(c), p)
           IN  /\ DOMAIN c = Image \cup {STACK}
               /\ Sound(pi2, [pr EXCEPT ![p] = loaded(T, c)])
               /\ Cardinality(FreePages(pi2)) + Footprint = Cardinality(FreePages(pi))
               /\ Cardinality(FreePages(pi2)) \in Nat
<1> DEFINE F == FreePages(pi)
           W == Image \cup {STACK}
           ro == [v \in Text |-> c[v]]
           X == T \cup Taken(c)
           pi2 == palloc(pi, X, p)
           m == new_table(c, ro)
<1>0. pi \in [Pages -> PageInfoType]
  BY DEF Sound
<1>1. F \subseteq Pages /\ IsFiniteSet(F) /\ \A n \in F : pi[n].refcount = 0
  <2>1. F \in SUBSET Pages /\ \A n \in F : pi[n].refcount = 0
    BY DEF FreePages
  <2> QED BY <2>1, Ranges, FS_Subset
<1>2. T \in SUBSET F /\ Cardinality(T) = NTABLES
  BY DEF table_choices, kSubset
<1>3. W \in SUBSET UserPages /\ Text \subseteq W /\ Text \subseteq UserPages /\ IsFiniteSet(W)
  <2>1. Text \subseteq Image
    BY DEF Image
  <2> QED BY <2>1, Ranges, BootSizes
<1>4. /\ DOMAIN c \subseteq W /\ c \in [DOMAIN c -> F \ T] /\ OneToOne(c)
      /\ DOMAIN c = W \/ Cardinality(DOMAIN c) = Cardinality(F \ T)
  <2>1. F \ T \in SUBSET Pages
    BY <1>1
  <2> HIDE DEF F, W
  <2>2. c \in palloc_choices(W, F \ T)
    BY DEF F, W
  <2> QED BY <1>3, <2>1, <2>2, ChoiceIs
<1>5. IsFiniteSet(DOMAIN c) /\ Cardinality(DOMAIN c) <= Cardinality(W)
      /\ (Cardinality(W) = Cardinality(DOMAIN c) => W = DOMAIN c)
  <2>1. DOMAIN c \in SUBSET W
    BY <1>4
  <2> QED BY <1>3, <2>1, FS_Subset
<1>6. /\ Cardinality(Left(F, T, c)) + Cardinality(T) + Cardinality(DOMAIN c) = Cardinality(F)
      /\ Cardinality(Left(F, T, c)) \in Nat
      /\ Cardinality(F \ T) = Cardinality(F) - Cardinality(T)
      /\ Cardinality(F) \in Nat /\ Cardinality(DOMAIN c) \in Nat
  <2>1. Takes(F, T, c)
    BY <1>1, <1>2, <1>4, <1>5 DEF Takes
  <2> HIDE DEF F
  <2> QED BY <2>1, LeftFree
<1>7. DOMAIN c = W
  <2> SUFFICES ASSUME Cardinality(DOMAIN c) = Cardinality(F \ T) PROVE DOMAIN c = W
    BY <1>4
  <2>1. Cardinality(F) >= NTABLES + Cardinality(W) /\ Cardinality(W) \in Nat
    BY BootSizes
  <2> HIDE DEF F, W
  <2>2. Cardinality(DOMAIN c) = Cardinality(W)
    BY <1>2, <1>5, <1>6, <2>1, BootSizes
  <2> QED BY <1>5, <2>2
<1>8. DOMAIN ro = Text /\ \A v \in Text : v \in W /\ ro[v] = c[v] /\ c[v] \in F \ T
  BY <1>3, <1>4, <1>7
<1>9. ro \in [Text -> Pages] /\ Pieces(c, ro)
  BY <1>1, <1>3, <1>4, <1>7, <1>8 DEF Pieces
<1> HIDE DEF ro, F, W
<1>10. Shares(pi, pr, c, ro) /\ Apart(c, ro)
  BY <1>7, <1>8 DEF Shares, Apart
<1>11. \A n \in X : n \in F /\ n \in Pages
  BY <1>1, <1>2, <1>4 DEF Taken
<1>12. \A n \in Pages : pi2[n] = IF n \in X THEN PageInfo(p, 1) ELSE pi[n]
  BY <1>1, <1>11 DEF palloc
<1>13. pi2 = [n \in Pages |-> pi2[n]]
  BY DEF palloc
<1> HIDE DEF pi2, m
<1>14. Grants(pi, p, T, c, ro, pi2)
  <2>1. ASSUME NEW n \in Pages \ X
        PROVE  pi2[n] = PageInfo(pi[n].owner, pi[n].refcount + Uses(m, DOMAIN ro, n))
    <3>1. \A v \in DOMAIN ro : m[v].pn # n
      <4> SUFFICES ASSUME NEW v \in DOMAIN ro PROVE m[v].pn # n
        OBVIOUS
      <4>1. v \in UserPages /\ m[v].pn = ro[v]
        BY <1>3, <1>8, <1>9, NewTable DEF m
      <4>2. ro[v] \in Taken(c)
        BY <1>7, <1>8 DEF Taken
      <4> QED BY <4>1, <4>2
    <3>2. Uses(m, DOMAIN ro, n) = 0
      BY <3>1, UsesNone
    <3>3. pi[n] = PageInfo(pi[n].owner, pi[n].refcount) /\ pi[n].refcount \in Int
      BY <1>0, PageFields
    <3>4. pi[n].refcount + Uses(m, DOMAIN ro, n) = pi[n].refcount
      BY <3>2, <3>3
    <3> QED BY <1>12, <3>3, <3>4
  <2>2. \A n \in X : pi2[n] = PageInfo(p, 1)
    BY <1>11, <1>12
  <2> QED BY <1>13, <2>1, <2>2 DEF Grants, m
<1>15. Breaks(Descriptor("runnable", ORIG, ORIG, m, T, FALSE))
  BY OrigIs DEF Breaks, Descriptor
<1>16. Sound(pi2, [pr EXCEPT ![p] = Descriptor("runnable", ORIG, ORIG, m, T, FALSE)])
  <2>1. /\ c \in [W -> FreePages(pi) \ T] /\ T \in SUBSET FreePages(pi) /\ ORIG \in Nat
    BY <1>2, <1>4, <1>7, OrigIs DEF F
  <2> QED BY <1>3, <1>4, <1>9, <1>10, <1>14, <1>15, <2>1, NewSound DEF m
<1>17. FreePages(pi2) = Left(F, T, c)
  <2>1. p # PO_FREE
    BY Ranges DEF Pids, PO_FREE
  <2>2. \A n \in X : pi2[n].owner = p
    BY <1>11, <1>12, PageInfoIs
  <2> QED BY <1>12, <2>1, <2>2 DEF FreePages, F, Left
<1>18. Cardinality(FreePages(pi2)) + Footprint = Cardinality(F) /\ Cardinality(FreePages(pi2)) \in Nat
  BY <1>2, <1>6, <1>7, <1>17, BootSizes DEF W
<1> QED BY <1>7, <1>16, <1>18 DEF pi2, m, ro, F, W, loaded

-----------------------------------------------------------------------------
(* The steps *)

\* A step to a sound state after boot in which no assertion has failed.
LEMMA Settled ==
    ASSUME Sound(pageinfo', proc'), todo' \subseteq Pids, current' \in Pids,
           mode' \in Modes \ {"boot", "assert"}, mode' = "user" => current' \in Active(proc')
    PROVE  IndInv'
<1>1. pageinfo' \in [Pages -> PageInfoType] /\ proc' \in [Pids -> ProcType]
  BY DEF Sound
<1> QED BY <1>1 DEF IndInv, TypeOK, AssertOnlyOrphans

\* The kernel's first state, at power on and after a soft reboot.
LEMMA InitInv ==
    ASSUME Init
    PROVE  IndInv
<1>1. PICK n \in Commands : todo = 1 .. n
  BY DEF Init
<1>2. Sound(pageinfo, proc) /\ mode = "boot" /\ current = 1
  BY InitSound DEF Init
<1>3. Booting
  BY <1>1, BootBegins DEF Init
<1>4. todo \subseteq Pids /\ current \in Pids
  BY <1>1, <1>2, BootSizes, Ranges DEF Pids
<1>5. pageinfo \in [Pages -> PageInfoType] /\ proc \in [Pids -> ProcType]
  BY <1>2 DEF Sound
<1> QED BY <1>2, <1>3, <1>4, <1>5 DEF IndInv, TypeOK, AssertOnlyOrphans, Modes

\* The least element of a set of naturals is one of its elements.
LEMMA MinIs ==
    ASSUME NEW S \in SUBSET Nat, S # {}
    PROVE  Min(S) \in S /\ \A y \in S : Min(S) <= y
<1>1. \E x \in S : \A y \in S : x <= y
  BY LeastExists
<1> QED BY <1>1 DEF Min

\* process k of n is next to be set up, and there is memory for it
Turn(n, k) ==
    /\ n \in Nat /\ n \in Pids /\ k \in Nat /\ k >= 1 /\ k <= n /\ k \in Pids
    /\ todo = k .. n /\ Active(proc) = 1 .. (k - 1)
    /\ Min(todo) = k /\ proc[k].state = "free"
    /\ Cardinality(FreePages(pageinfo)) >= Footprint
    /\ Cardinality(FreePages(pageinfo)) + (k - 1) * Footprint
         = Cardinality(Pages \ (Reserved \cup KernelPages))

\* During boot there is a next process, and memory for all of its program.
LEMMA NextTurn ==
    ASSUME IndInv, mode = "boot"
    PROVE  \E n \in Commands : \E k \in 1 .. n : Turn(n, k)
<1> DEFINE F == FreePages(pageinfo)
           K == Cardinality(Pages \ (Reserved \cup KernelPages))
<1>1. mode = "boot" /\ Booting /\ Sound(pageinfo, proc) /\ current \in Pids
  BY DEF IndInv, TypeOK
<1>0. PICK n \in Commands : \E k \in 1 .. n :
         todo = k .. n /\ Active(proc) = 1 .. (k - 1) /\ Cardinality(F) + (k - 1) * Footprint = K
  BY <1>1 DEF Booting
<1>2. PICK k \in 1 .. n :
         todo = k .. n /\ Active(proc) = 1 .. (k - 1) /\ Cardinality(F) + (k - 1) * Footprint = K
  BY <1>0
<1>3. /\ n \in Nat /\ n \in Pids /\ k \in Nat /\ k >= 1 /\ k <= n /\ Footprint \in Nat
      /\ K \in Nat /\ n * Footprint <= K
  <2>1. n \in Nat /\ n \in Pids /\ Footprint \in Nat /\ K \in Nat /\ n * Footprint <= K
    BY BootSizes
  <2>2. k \in Nat /\ k >= 1 /\ k <= n
    BY <2>1
  <2> QED BY <2>1, <2>2
<1>4. k \in Pids /\ k \in todo /\ todo \in SUBSET Nat
  <2>1. k \in Pids
    BY <1>3, Ranges DEF Pids
  <2> QED BY <1>2, <1>3, <2>1
<1>5. Min(todo) = k
  <2>1. Min(todo) \in todo /\ Min(todo) <= k
    BY <1>4, MinIs
  <2> QED BY <1>2, <1>3, <2>1
<1>6. proc[k].state = "free"
  <2>1. k \notin Active(proc)
    BY <1>2, <1>3
  <2> QED BY <1>4, <2>1 DEF Active
<1>7. Cardinality(F) >= Footprint
  <2>1. Cardinality(F) \in Nat
    <3>1. F \in SUBSET Pages
      BY DEF FreePages
    <3> QED BY <3>1, Ranges, FS_Subset, FS_CardinalityType
  <2>2. Footprint * k <= Footprint * n
    BY <1>3, MulMono
  <2>3. Footprint * k = k * Footprint /\ Footprint * n = n * Footprint
    BY <1>3
  <2>4. k * Footprint = (k - 1) * Footprint + Footprint
    BY <1>3
  <2>5. (k - 1) * Footprint \in Nat /\ k * Footprint \in Nat /\ n * Footprint \in Nat
    BY <1>3
  <2> HIDE DEF F, K
  <2> QED BY <1>2, <1>3, <2>1, <2>2, <2>3, <2>4, <2>5
<1>8. Turn(n, k)
  <2> HIDE DEF F, K
  <2> QED BY <1>2, <1>3, <1>4, <1>5, <1>6, <1>7 DEF Turn, F, K
<1> QED BY <1>8

\* process_setup of process k gets the table pages T and the pages c
Loads(k, T, c) ==
    /\ pageinfo' = palloc(pageinfo, T \cup Taken(c), k)
    /\ proc' = [proc EXCEPT ![k] = loaded(T, c)]
    /\ todo' = todo \ {k}

\* process_setup loads the whole of a program.
LEMMA SetupIs ==
    ASSUME IndInv, Setup, NEW n, NEW k, Turn(n, k)
    PROVE  \E T \in table_choices(FreePages(pageinfo)) :
             \E c \in palloc_choices(Image \cup {STACK}, FreePages(pageinfo) \ T) :
                Loads(k, T, c) /\ DOMAIN c = Image \cup {STACK}
<1> DEFINE F == FreePages(pageinfo)
<1>1. /\ Sound(pageinfo, proc) /\ k \in Pids /\ proc[k].state = "free" /\ Min(todo) = k
      /\ Cardinality(F) >= Footprint
  BY DEF IndInv, Turn
<1>2. PICK T \in table_choices(F) : \E c \in palloc_choices(Image \cup {STACK}, F \ T) :
         Loads(k, T, c)
  BY <1>1 DEF Setup, new_table, loaded, Loads
<1>3. PICK c \in palloc_choices(Image \cup {STACK}, F \ T) : Loads(k, T, c)
  BY <1>2
<1>4. DOMAIN c = Image \cup {STACK}
  BY <1>1, SetupSound
<1> QED BY <1>3, <1>4

\* process_setup finds memory for all of a program, and leaves enough for the rest.
LEMMA SetupInv ==
    ASSUME IndInv, Setup
    PROVE  IndInv'
<1> DEFINE F == FreePages(pageinfo)
           K == Cardinality(Pages \ (Reserved \cup KernelPages))
<1>1. mode = "boot" /\ Sound(pageinfo, proc) /\ current \in Pids
  BY DEF Setup, IndInv, TypeOK
<1>2. PICK n \in Commands : \E k \in 1 .. n : Turn(n, k)
  BY <1>1, NextTurn
<1>3. PICK k \in 1 .. n : Turn(n, k)
  BY <1>2
<1>4. /\ n \in Nat /\ n \in Pids /\ k \in Nat /\ k >= 1 /\ k <= n /\ k \in Pids
      /\ todo = k .. n /\ Active(proc) = 1 .. (k - 1)
      /\ Min(todo) = k /\ proc[k].state = "free"
      /\ Cardinality(F) >= Footprint /\ Cardinality(F) + (k - 1) * Footprint = K
  BY <1>3 DEF Turn
<1>5. Footprint \in Nat /\ K \in Nat
  BY BootSizes
<1>6. PICK T \in table_choices(F) : \E c \in palloc_choices(Image \cup {STACK}, F \ T) :
         Loads(k, T, c) /\ DOMAIN c = Image \cup {STACK}
  BY <1>3, SetupIs
<1>7. PICK c \in palloc_choices(Image \cup {STACK}, F \ T) : Loads(k, T, c)
  BY <1>6
<1>8. IF todo' = {} THEN run(proc', 1) ELSE UNCHANGED <<current, mode>>
  BY DEF Setup
<1>9. /\ Sound(pageinfo', proc') /\ Cardinality(FreePages(pageinfo')) \in Nat
      /\ Cardinality(FreePages(pageinfo')) + Footprint = Cardinality(F)
  <2> DEFINE pi2 == palloc(pageinfo, T \cup Taken(c), k)
             pr2 == [proc EXCEPT ![k] = loaded(T, c)]
  <2>0. k \in Pids /\ proc[k].state = "free" /\ Cardinality(F) >= Footprint
    BY <1>4
  <2>1. /\ Sound(pi2, pr2) /\ Cardinality(FreePages(pi2)) \in Nat
        /\ Cardinality(FreePages(pi2)) + Footprint = Cardinality(F)
    BY <1>1, <2>0, SetupSound
  <2>2. pageinfo' = pi2 /\ proc' = pr2
    BY <1>7 DEF Loads
  <2> HIDE DEF pi2, pr2
  <2> QED BY <2>1, <2>2
<1>10. Active(proc') = 1 .. k
  <2>1. proc \in [Pids -> ProcType]
    BY <1>1 DEF Sound
  <2>2. /\ proc'[k].state = "runnable"
        /\ \A p \in Pids \ {k} : proc'[p] = proc[p]
    BY <1>4, <1>7, <2>1 DEF Descriptor, loaded, Loads
  <2>3. Active(proc') = Active(proc) \cup {k}
    BY <1>4, <2>2 DEF Active
  <2> QED BY <1>4, <2>3
<1>11. todo' = (k + 1) .. n /\ todo' \subseteq Pids
  <2>1. todo' = (k + 1) .. n
    BY <1>4, <1>7 DEF Loads
  <2> QED BY <1>4, <2>1, Ranges DEF Pids
<1>12. CASE todo' = {}
  <2>1. 1 \in Active(proc') /\ 1 \in Pids
    BY <1>4, <1>10, Ranges DEF Pids
  <2>2. current' = 1 /\ mode' = "user"
    BY <1>8, <1>9, <1>12, <2>1, RunIs
  <2>3. /\ Sound(pageinfo', proc') /\ todo' \subseteq Pids /\ current' \in Pids
        /\ mode' \in Modes \ {"boot", "assert"} /\ current' \in Active(proc')
    BY <1>9, <1>11, <2>1, <2>2 DEF Modes
  <2> QED BY <2>3, Settled
<1>13. CASE todo' # {}
  <2>1. current' = current /\ mode' = "boot"
    BY <1>1, <1>8, <1>13
  <2>2. k + 1 \in 1 .. n
    BY <1>4, <1>11, <1>13
  <2>3. Cardinality(FreePages(pageinfo')) + k * Footprint = K
    <3>1. Cardinality(F) \in Nat /\ (k - 1) * Footprint \in Nat
      <4>1. F \in SUBSET Pages
        BY DEF FreePages
      <4> QED BY <1>4, <1>5, <4>1, Ranges, FS_Subset, FS_CardinalityType
    <3>2. k * Footprint = (k - 1) * Footprint + Footprint
      BY <1>4, <1>5
    <3> HIDE DEF F, K
    <3> QED BY <1>4, <1>5, <1>9, <3>1, <3>2
  <2>4. (k + 1) - 1 = k
    BY <1>4
  <2>5. Booting'
    BY <1>10, <1>11, <2>2, <2>3, <2>4 DEF Booting
  <2>6. pageinfo' \in [Pages -> PageInfoType] /\ proc' \in [Pids -> ProcType]
    BY <1>9 DEF Sound
  <2> QED BY <1>1, <1>9, <1>11, <2>1, <2>5, <2>6 DEF IndInv, TypeOK, AssertOnlyOrphans, Modes
<1> QED BY <1>12, <1>13

\* A soft reboot starts over; after poweroff nothing runs.
LEMMA RestartInv ==
    ASSUME NEW n, \/ n \in Commands /\ Restart("boot", n)
                  \/ n = 0 /\ Restart("off", n)
    PROVE  IndInv'
<1>1. /\ Sound(pageinfo', proc') /\ current' = 1 /\ todo' = 1 .. n
      /\ pageinfo' = InitPages /\ proc' = NoProcs
  BY InitSound DEF Restart
<1>2. current' \in Pids /\ 1 \in Pids
  BY <1>1, Ranges DEF Pids
<1>3. CASE n \in Commands /\ Restart("boot", n)
  <2>1. mode' = "boot"
    BY <1>3 DEF Restart
  <2>2. todo' \subseteq Pids
    BY <1>1, <1>3, BootSizes, Ranges DEF Pids
  <2>3. Booting'
    <3>1. n \in Nat /\ n >= 1 /\ Footprint \in Nat
      BY <1>3, BootSizes
    <3>2. 1 \in 1 .. n /\ Active(proc') = 1 .. (1 - 1)
      BY <1>1, <3>1, InitSound
    <3>3. Cardinality(FreePages(pageinfo')) = Cardinality(Pages \ (Reserved \cup KernelPages))
      BY <1>1, InitSound
    <3>4. (1 - 1) * Footprint = 0 /\ Cardinality(Pages \ (Reserved \cup KernelPages)) \in Nat
      BY <3>1, BootSizes
    <3>5. Cardinality(FreePages(pageinfo')) + (1 - 1) * Footprint
            = Cardinality(Pages \ (Reserved \cup KernelPages))
      BY <3>3, <3>4
    <3> QED BY <1>1, <1>3, <3>2, <3>5 DEF Booting
  <2>4. pageinfo' \in [Pages -> PageInfoType] /\ proc' \in [Pids -> ProcType]
    BY <1>1 DEF Sound
  <2> QED BY <1>1, <1>2, <2>1, <2>2, <2>3, <2>4 DEF IndInv, TypeOK, AssertOnlyOrphans, Modes
<1>4. CASE n = 0 /\ Restart("off", n)
  <2>1. mode' = "off" /\ todo' \subseteq Pids
    BY <1>1, <1>4 DEF Restart
  <2> QED BY <1>1, <1>2, <2>1, Settled DEF Modes
<1> QED BY <1>3, <1>4

\* A page with references is mapped, a table, or the kernel's.
LEMMA Referenced ==
    ASSUME NEW pr, NEW n, References(pr, n) # 0
    PROVE  \/ n \in Reserved \cup KernelPages
           \/ \E p \in Active(pr) : n \in pr[p].tables
           \/ \E p \in Active(pr) : \E v \in High : pr[p].pt[v].pn = n
<1> SUFFICES ASSUME n \notin Reserved \cup KernelPages,
                    \A p \in Active(pr) : n \notin pr[p].tables,
                    \A p \in Active(pr) : \A v \in High : pr[p].pt[v].pn # n
             PROVE  References(pr, n) = 0
  OBVIOUS
<1>1. {x \in Active(pr) \X High : pr[x[1]].pt[x[2]].pn = n} = {}
  OBVIOUS
<1>2. {p \in Active(pr) : n \in pr[p].tables} = {}
  OBVIOUS
<1>3. {n} \cap (Reserved \cup KernelPages) = {}
  OBVIOUS
<1>4. References(pr, n) = 0 + 0 + 0
  BY <1>1, <1>2, <1>3, FS_EmptySet DEF References
<1> QED BY <1>4

\* check_virtual_memory fails only for a page that its owner left to others.
LEMMA CheckFailsInv ==
    ASSUME IndInv, CheckFails
    PROVE  IndInv'
<1>1. /\ Sound(pageinfo, proc) /\ mode' = "assert" /\ TypeOK
      /\ pageinfo' = pageinfo /\ proc' = proc /\ current' = current /\ todo' = todo
      /\ ~check_virtual_memory
  BY DEF CheckFails, Stop, IndInv
<1>2. ASSUME NoPageAlloc
      PROVE  AssertOnlyOrphans'
  <2>1. /\ Permanent(pageinfo) /\ Exact(pageinfo, proc)
        /\ \A p \in Active(proc) : Shape(proc[p].pt) /\ Owned(pageinfo, p, proc[p])
        /\ pageinfo \in [Pages -> PageInfoType]
    BY <1>1, <1>2 DEF Sound
  <2>2. \A p \in Active(proc) : kernel_mapped(proc[p].pt)
    BY <2>1, KernelMapped
  <2>3. PICK n \in Pages : /\ pageinfo[n].refcount > 0 /\ pageinfo[n].owner >= 0
                           /\ pageinfo[n].owner \notin Active(proc)
    BY <1>1, <2>1, <2>2 DEF check_virtual_memory, Permanent, Owned
  <2>4. /\ References(proc, n) = pageinfo[n].refcount /\ pageinfo[n].owner # PO_FREE
        /\ pageinfo[n].owner \in {PO_FREE, PO_RESERVED, PO_KERNEL} \cup Pids
    BY <2>1, <2>3 DEF Exact, Counted, PageInfoType
  <2>5. pageinfo[n].owner \in Pids
    BY <2>3, <2>4 DEF PO_RESERVED, PO_KERNEL
  <2>6. n \notin Reserved \cup KernelPages
    <3> SUFFICES ASSUME n \in Reserved \cup KernelPages PROVE FALSE
      OBVIOUS
    <3>1. pageinfo[n].owner \in {PO_RESERVED, PO_KERNEL}
      BY <2>1, PageInfoIs DEF Permanent
    <3> QED BY <2>3, <3>1 DEF PO_RESERVED, PO_KERNEL
  <2>7. ASSUME NEW p \in Active(proc), n \in Held(proc[p])
        PROVE  FALSE
    <3>1. pageinfo[n].owner = p
      BY <2>1, <2>7, OwnedIs, PageInfoIs
    <3> QED BY <2>3, <3>1
  <2>8. \A p \in Active(proc) : n \notin proc[p].tables
    BY <2>7 DEF Held
  <2>9. PICK p \in Active(proc), v \in High : proc[p].pt[v].pn = n
    BY <2>3, <2>4, <2>6, <2>8, Referenced
  <2>10. n # -1
    BY Ranges DEF Pages
  <2>11. v \in UserPages
    BY <2>1, <2>9, <2>10 DEF Exact, Confined, Absent
  <2>12. ~proc[p].pt[v].w
    BY <2>7, <2>9 DEF Held
  <2> QED BY <1>1, <2>3, <2>5, <2>9, <2>11, <2>12 DEF AssertOnlyOrphans
<1> QED BY <1>1, <1>2 DEF IndInv, TypeOK, Modes

\* An exception that only stops the machine: a panic, or an endless loop.
LEMMA StopInv ==
    ASSUME IndInv, mode = "user", NEW m \in {"panic", "hang"}, Stop(m)
    PROVE  IndInv'
<1>1. /\ Sound(pageinfo', proc') /\ todo' \subseteq Pids /\ current' \in Pids
      /\ mode' \in Modes \ {"boot", "assert"} /\ mode' # "user"
  BY DEF Stop, IndInv, TypeOK, Modes
<1> QED BY <1>1, Settled

\* yield and the timer only change to another process.
LEMMA SwitchInv ==
    ASSUME IndInv, mode = "user", Switch
    PROVE  IndInv'
<1>1. /\ Sound(pageinfo, proc) /\ pageinfo' = pageinfo /\ proc' = proc /\ todo' = todo
      /\ todo \subseteq Pids /\ current \in Pids /\ schedule(proc)
  BY DEF Switch, IndInv, TypeOK
<1>2. \/ mode' = "spin" /\ current' = current
      \/ mode' = "user" /\ current' \in Active(proc)
  BY <1>1, ScheduleIs
<1>3. /\ mode' \in Modes \ {"boot", "assert"} /\ current' \in Pids
      /\ mode' = "user" => current' \in Active(proc')
  BY <1>1, <1>2 DEF Modes, Active
<1> QED BY <1>1, <1>3, Settled

\* The handler returns to the process it came from, in a sound state.
LEMMA ResumeInv ==
    ASSUME IndInv, mode = "user", NEW pi, NEW d, Resume(pi, d), d.state # "free",
           Sound(pi, [proc EXCEPT ![current] = d])
    PROVE  IndInv' /\ current' = current /\ mode' = "user"
<1>1. /\ Sound(pageinfo', proc') /\ todo' = todo /\ todo \subseteq Pids /\ current \in Pids
      /\ proc \in [Pids -> ProcType] /\ proc' = [proc EXCEPT ![current] = d]
      /\ run(proc', current)
  BY DEF Resume, IndInv, TypeOK
<1>2. current \in Active(proc')
  BY <1>1 DEF Active
<1>3. current' = current /\ mode' = "user"
  BY <1>1, <1>2, RunIs
<1>4. mode' \in Modes \ {"boot", "assert"}
  BY <1>3 DEF Modes
<1> QED BY <1>1, <1>2, <1>3, <1>4, Settled

\* A call that fails and returns changes nothing.
LEMMA ResumeSame ==
    ASSUME IndInv, mode = "user", Resume(pageinfo, me)
    PROVE  IndInv' /\ proc' = proc /\ pageinfo' = pageinfo
<1>1. /\ proc \in [Pids -> ProcType] /\ current \in Active(proc) /\ current \in Pids
      /\ Sound(pageinfo, proc)
  BY DEF IndInv, TypeOK
<1>2. [proc EXCEPT ![current] = me] = proc /\ me.state # "free"
  BY <1>1 DEF me, Active
<1>3. proc' = proc /\ pageinfo' = pageinfo
  BY <1>2 DEF Resume
<1> QED BY <1>1, <1>2, <1>3, ResumeInv

\* syscall_exit and what the page-fault handler does to a process it kills.
LEMMA LeaveInv ==
    ASSUME IndInv, mode = "user", Leave
    PROVE  IndInv'
<1>1. /\ Sound(pageinfo, proc) /\ current \in Active(proc) /\ current \in Pids
      /\ todo \subseteq Pids /\ me = proc[current]
  BY DEF IndInv, TypeOK, me
<1>2. /\ tables_single(pageinfo, me.pt, me.tables)
      /\ Sound(release(pageinfo, me.pt, me.tables), [proc EXCEPT ![current] = freed(me)])
  BY <1>1, ReleaseSound
<1>3. Sound(pageinfo', proc') /\ schedule(proc') /\ todo' = todo
  BY <1>2 DEF Leave
<1>4. \/ mode' = "spin" /\ current' = current
      \/ mode' = "user" /\ current' \in Active(proc')
  BY <1>3, ScheduleIs
<1>5. mode' \in Modes \ {"boot", "assert"} /\ current' \in Pids
  BY <1>1, <1>4 DEF Modes, Active
<1>6. mode' = "user" => current' \in Active(proc')
  BY <1>4
<1> QED BY <1>1, <1>3, <1>5, <1>6, Settled

\* The page number of an address between two page boundaries.
LEMMA PageNumber ==
    ASSUME NEW x \in Nat, NEW n \in Nat \ {0}, NEW i \in Nat
    PROVE  /\ x \div n \in Nat
           /\ x >= i * n => x \div n >= i
           /\ x < i * n => x \div n < i
<1> DEFINE q == x \div n
           r == x % n
<1>1. q \in Nat /\ r \in 0 .. (n - 1) /\ x = n * q + r
  BY DivMod
<1> HIDE DEF q, r
<1>2. ASSUME x >= i * n, q < i
      PROVE  FALSE
  <2>1. q + 1 \in Nat /\ q + 1 <= i
    BY <1>1, <1>2
  <2>2. n * (q + 1) <= n * i
    BY <2>1, MulMono
  <2>3. n * (q + 1) = n * q + n /\ n * i = i * n /\ n * q \in Int /\ n * i \in Int
    BY <1>1
  <2> QED BY <1>1, <1>2, <2>2, <2>3
<1>3. ASSUME x < i * n, q >= i
      PROVE  FALSE
  <2>1. n * i <= n * q
    BY <1>1, <1>3, MulMono
  <2>2. n * i = i * n /\ n * q \in Int /\ n * i \in Int
    BY <1>1
  <2> QED BY <1>1, <1>3, <2>1, <2>2
<1>4. x >= i * n => q >= i
  BY <1>1, <1>2
<1>5. x < i * n => q < i
  BY <1>1, <1>3
<1> QED BY <1>1, <1>4, <1>5 DEF q

\* A heap address is on a user page behind the image.
LEMMA HeapPage ==
    ASSUME NEW d, Breaks(d), NEW a \in Nat, a < d.brk, a >= d.orig, a < VIRT * PAGESIZE
    PROVE  a \div PAGESIZE \in UserPages /\ d.orig = ORIG
<1>1. d.orig = ORIG
  <2> SUFFICES ASSUME d.orig = 0, d.brk = 0 PROVE FALSE
    BY DEF Breaks
  <2> QED OBVIOUS
<1>2. /\ PAGESIZE \in Nat \ {0} /\ Max(Image) + 1 \in Nat /\ Max(Image) >= PROC_START
      /\ a >= (Max(Image) + 1) * PAGESIZE /\ VIRT \in Nat /\ PROC_START \in Nat
      /\ Max(Image) \in Nat
  BY <1>1, OrigIs, Ranges
<1>3. a \div PAGESIZE \in Nat /\ a \div PAGESIZE < VIRT
  BY <1>2, PageNumber
<1>4. a \div PAGESIZE >= Max(Image) + 1
  BY <1>2, PageNumber
<1>5. a \div PAGESIZE >= PROC_START
  BY <1>2, <1>3, <1>4
<1> QED BY <1>1, <1>2, <1>3, <1>5 DEF UserPages

\* A page fault maps a page in the heap or ends the process.
LEMMA PageFaultInv ==
    ASSUME IndInv, NEW a \in 0 .. (VIRT * PAGESIZE - 1), NEW write \in BOOLEAN,
           PageFault(a, write)
    PROVE  IndInv'
<1> DEFINE v == a \div PAGESIZE
           F == FreePages(pageinfo)
           c == [x \in {v} |-> Min(F)]
<1>1. /\ mode = "user" /\ Sound(pageinfo, proc) /\ current \in Active(proc)
      /\ me = proc[current] /\ Breaks(me) /\ me.state # "free" /\ proc \in [Pids -> ProcType]
  BY DEF PageFault, Enter, IndInv, TypeOK, me, Sound, Active
<1>2. CASE Leave
  BY <1>1, <1>2, LeaveInv
<1>3. CASE /\ ~present(me.pt, v) /\ InHeap(a) /\ F # {}
           /\ Resume(palloc(pageinfo, {Min(F)}, current), [me EXCEPT !.pt = map_user(@, c, TRUE)])
  <2>1. a \in Nat /\ a < VIRT * PAGESIZE
    <3>1. VIRT * PAGESIZE \in Int
      BY Ranges, OrigIs
    <3> QED BY <3>1
  <2>2. v \in UserPages /\ v \in High /\ ~present(proc[current].pt, v)
    BY <1>1, <1>3, <2>1, HeapPage, Ranges DEF InHeap
  <2>3. Min(F) \in F
    <3>1. F \in SUBSET Nat
      BY Ranges DEF FreePages, Pages
    <3> QED BY <1>3, <3>1, MinIs
  <2> DEFINE f == Min(F)
             d == faulted(me, v, f)
  <2>4. Sound(palloc(pageinfo, {f}, current), [proc EXCEPT ![current] = d])
    BY <1>1, <1>3, <2>2, <2>3, MapSound
  <2>5. d.state # "free" /\ Resume(palloc(pageinfo, {f}, current), d)
    <3>1. me \in ProcType
      BY <1>1 DEF Active
    <3>2. d.state = me.state
      BY <3>1 DEF ProcType, faulted
    <3> QED BY <1>1, <1>3, <3>2 DEF faulted
  <2> HIDE DEF d, f
  <2> QED BY <1>1, <2>4, <2>5, ResumeInv
<1> QED BY <1>2, <1>3 DEF PageFault

\* page_alloc maps a page for the user, over whatever was there, or loses one.
LEMMA PageAllocInv ==
    ASSUME IndInv, NEW a \in Nat, PageAlloc(a)
    PROVE  IndInv'
<1> DEFINE v == a \div PAGESIZE
           F == FreePages(pageinfo)
           pi == palloc(pageinfo, {Min(F)}, current)
           c == [x \in {v} |-> Min(F)]
<1>1. /\ mode = "user" /\ Sound(pageinfo, proc) /\ current \in Active(proc) /\ TypeOK
      /\ me = proc[current] /\ me.state # "free" /\ me \in ProcType /\ ~NoPageAlloc
  BY DEF PageAlloc, Enter, May, NoPageAlloc, IndInv, TypeOK, me, Sound, Active
<1>2. CASE Resume(pageinfo, me)
  BY <1>1, <1>2, ResumeSame
<1>3. CASE Stop("assert")
  BY <1>1, <1>3 DEF Stop, IndInv, TypeOK, Modes
<1>4. ASSUME F # {}
      PROVE  Min(F) \in F
  <2>1. F \in SUBSET Nat
    BY Ranges DEF FreePages, Pages
  <2> QED BY <1>4, <2>1, MinIs
<1>5. CASE F # {} /\ Resume(pi, me)
  <2>1. Min(F) \in F
    BY <1>4, <1>5
  <2>2. Sound(pi, [proc EXCEPT ![current] = me])
    BY <1>1, <2>1, LostSound
  <2> HIDE DEF pi
  <2> QED BY <1>1, <1>5, <2>2, ResumeInv
<1>6. CASE /\ F # {} /\ v >= PROC_START /\ ~(v >= MAPTOP)
           /\ Resume(pi, [me EXCEPT !.pt = map_user(@, c, TRUE)])
  <2>1. Min(F) \in F
    BY <1>4, <1>6
  <2>2. v \in High
    <3>1. v \in Nat
      BY PageNumber, Ranges, OrigIs
    <3>2. v \in VPages
      BY <1>6, <3>1, Ranges DEF VPages
    <3> HIDE DEF v
    <3> QED BY <1>6, <3>2, Ranges
  <2> DEFINE f == Min(F)
             d == faulted(me, v, f)
  <2>3. Sound(pi, [proc EXCEPT ![current] = d])
    BY <1>1, <2>1, <2>2, MapSound
  <2>4. d.state # "free" /\ Resume(pi, d)
    <3>1. d.state = me.state
      BY <1>1 DEF ProcType, faulted
    <3> QED BY <1>1, <1>6, <3>1 DEF faulted
  <2> HIDE DEF d, f, pi
  <2> QED BY <1>1, <2>3, <2>4, ResumeInv
<1> QED BY <1>2, <1>3, <1>5, <1>6 DEF PageAlloc

\* The pages a shrinking break gives up are user pages.
LEMMA ShrunkPages ==
    ASSUME NEW old, Fits(old), NEW new, Fits(new), new < old
    PROVE  shrink_pages(old, new) \in SUBSET UserPages
<1>1. /\ PAGESIZE \in Nat \ {0} /\ Max(Image) + 1 \in Nat /\ Max(Image) >= PROC_START
      /\ ORIG = (Max(Image) + 1) * PAGESIZE /\ VIRT \in Nat /\ PROC_START \in Nat
      /\ Max(Image) \in Nat /\ STACK \in Nat /\ STACK = VIRT - 1 /\ ORIG \in Nat
  BY OrigIs, Ranges DEF STACK
<1>2. old \in Nat /\ new \in Nat /\ new >= ORIG /\ old < LIMIT
  BY <1>1 DEF Fits
<1>3. new \div PAGESIZE \in Nat /\ new \div PAGESIZE >= Max(Image) + 1
  BY <1>1, <1>2, PageNumber
<1>4. /\ old + PAGESIZE - 1 \in Nat /\ (old + PAGESIZE - 1) \div PAGESIZE \in Nat
      /\ (old + PAGESIZE - 1) \div PAGESIZE < VIRT
  <2>1. STACK * PAGESIZE \in Nat /\ LIMIT = STACK * PAGESIZE
    BY <1>1 DEF LIMIT
  <2>2. VIRT * PAGESIZE = STACK * PAGESIZE + PAGESIZE
    BY <1>1
  <2>3. old + PAGESIZE - 1 \in Nat /\ old + PAGESIZE - 1 < VIRT * PAGESIZE
    BY <1>1, <1>2, <2>1, <2>2
  <2> QED BY <1>1, <2>3, PageNumber
<1>5. ASSUME NEW v \in shrink_pages(old, new)
      PROVE  v \in UserPages
  <2>1. v \in Int /\ v >= new \div PAGESIZE /\ v <= (old + PAGESIZE - 1) \div PAGESIZE
    BY <1>3, <1>4 DEF shrink_pages
  <2>2. v >= PROC_START /\ v < VIRT
    BY <1>1, <1>3, <1>4, <2>1
  <2> QED BY <1>1, <2>1, <2>2 DEF UserPages
<1> QED BY <1>5

\* sbrk of a loaded program, for any difference.
LEMMA SbrkInv ==
    ASSUME IndInv, mode = "user", ~me.forked, NEW difference \in Int, sbrk(difference)
    PROVE  IndInv'
<1> DEFINE new == me.brk + difference
           V == shrink_pages(me.brk, new)
           moved == [me EXCEPT !.brk = new]
<1>1. /\ Sound(pageinfo, proc) /\ current \in Active(proc) /\ me = proc[current]
      /\ me \in ProcType /\ me.state # "free" /\ me.orig = ORIG /\ Breaks(me)
  BY DEF IndInv, TypeOK, me, Sound, Active
<1>2. me.brk \in Nat /\ ORIG \in Nat /\ Fits(me.brk) /\ LIMIT \in Int
  <2>1. me.brk \in Nat /\ ORIG \in Nat
    BY <1>1, OrigIs DEF ProcType
  <2>2. ORIG # 0
    <3>1. (Max(Image) + 1) * PAGESIZE # 0
      BY OrigIs
    <3> QED BY <3>1, OrigIs
  <2>3. LIMIT \in Int
    BY Ranges, OrigIs DEF LIMIT, STACK
  <2> QED BY <1>1, <2>1, <2>2, <2>3 DEF Breaks, Fits
<1>3. CASE (new >= LIMIT \/ new < me.orig) /\ Resume(pageinfo, me)
  BY <1>3, ResumeSame
<1>4. ASSUME ~(new >= LIMIT \/ new < me.orig)
      PROVE  Fits(new)
  BY <1>1, <1>2, <1>4 DEF Fits
<1>5. CASE ~(new >= LIMIT \/ new < me.orig) /\ difference >= 0 /\ Resume(pageinfo, moved)
  <2>1. Fits(new)
    BY <1>4, <1>5
  <2>2. moved.state # "free"
    BY <1>1 DEF ProcType
  <2> HIDE DEF new
  <2>3. Sound(pageinfo, [proc EXCEPT ![current] = moved])
    BY <1>1, <2>1, BreakSound
  <2> HIDE DEF moved
  <2> QED BY <1>5, <2>2, <2>3, ResumeInv
<1>6. CASE Stop("hang")
  BY <1>6, StopInv
<1>7. CASE /\ ~(new >= LIMIT \/ new < me.orig) /\ ~(difference >= 0)
           /\ Resume(unref(pageinfo, me.pt, V), [moved EXCEPT !.pt = unmap(@, V)])
  <2>1. Fits(new) /\ new < me.brk
    BY <1>2, <1>4, <1>7
  <2>2. V \in SUBSET UserPages
    BY <1>2, <2>1, ShrunkPages
  <2> DEFINE d == [moved EXCEPT !.pt = unmap(@, V)]
  <2>3. d.state # "free"
    BY <1>1 DEF ProcType
  <2> HIDE DEF new, V
  <2>4. Sound(unref(pageinfo, me.pt, V), [proc EXCEPT ![current] = d])
    BY <1>1, <2>1, <2>2, ShrinkSound
  <2> HIDE DEF d
  <2>5. Resume(unref(pageinfo, me.pt, V), d)
    BY <1>7 DEF d
  <2> QED BY <2>3, <2>4, <2>5, ResumeInv
<1> QED BY <1>3, <1>5, <1>6, <1>7 DEF sbrk

\* what fork builds: the child's page table, its descriptor in slot d, and pageinfo
\* before a failure is found
child_table(m, c, S) == new_table(c, [v \in S |-> m[v].pn])
child_of(d, m, T) == Descriptor("runnable", d.brk, d.orig, m, T, TRUE)
forked_pages(pi, m, c, S, T, child) ==
    share(palloc(pi, T \cup Taken(c), child), child_table(m, c, S), S)

\* p forks: the slot, the table pages, the copies and the shared pages so far
Forking(pi, pr, p, child, T, c, S) ==
    /\ Sound(pi, pr) /\ p \in Active(pr) /\ child \in Pids /\ pr[child].state = "free"
    /\ T \in table_choices(FreePages(pi))
    /\ c \in palloc_choices(copied_pages(pr[p].pt), FreePages(pi) \ T)
    /\ S \in SUBSET shared_pages(pr[p].pt)

\* process_free of what fork built
Undone(pi, m, c, S, T, child) ==
    release(forked_pages(pi, m, c, S, T, child), child_table(m, c, S), T) = pi

\* process_fork: as far as it gets, what it built is sound; and process_free undoes it.
LEMMA ForkSound ==
    ASSUME NEW pi, NEW pr, NEW p, NEW child, NEW T, NEW c, NEW S,
           Forking(pi, pr, p, child, T, c, S)
    PROVE  /\ Sound(forked_pages(pi, pr[p].pt, c, S, T, child),
                    [pr EXCEPT ![child] = child_of(pr[child], child_table(pr[p].pt, c, S), T)])
           /\ Undone(pi, pr[p].pt, c, S, T, child)
<1> /\ Sound(pi, pr) /\ p \in Active(pr) /\ child \in Pids /\ pr[child].state = "free"
    /\ T \in table_choices(FreePages(pi))
    /\ c \in palloc_choices(copied_pages(pr[p].pt), FreePages(pi) \ T)
    /\ S \in SUBSET shared_pages(pr[p].pt)
  BY DEF Forking
<1> DEFINE F == FreePages(pi)
           W == copied_pages(pr[p].pt)
           ro == [v \in S |-> pr[p].pt[v].pn]
           m == new_table(c, ro)
           X == T \cup Taken(c)
           pi2 == share(palloc(pi, X, child), m, S)
           d == child_of(pr[child], m, T)
<1>0. /\ pi \in [Pages -> PageInfoType] /\ pr[child] \in ProcType /\ Breaks(pr[child])
  BY DEF Sound
<1>1. F \subseteq Pages /\ \A n \in F : pi[n].refcount = 0
  BY DEF FreePages
<1>2. T \in SUBSET F
  BY DEF table_choices, kSubset
<1>3. W \in SUBSET UserPages
  BY DEF copied_pages
<1>4. DOMAIN c \subseteq W /\ c \in [DOMAIN c -> F \ T] /\ OneToOne(c)
  <2>1. F \ T \in SUBSET Pages
    BY <1>1
  <2> HIDE DEF F, W
  <2>2. c \in palloc_choices(W, F \ T)
    BY DEF F, W
  <2> QED BY <1>3, <2>1, <2>2, ChoiceIs
<1>5. Shares(pi, pr, c, ro) /\ ro \in [S -> Pages] /\ S \subseteq UserPages /\ S \cap DOMAIN c = {}
  BY <1>4, ForkShares
<1>6. DOMAIN ro = S
  OBVIOUS
<1> HIDE DEF ro
<1>7. Pieces(c, ro)
  BY <1>1, <1>3, <1>4, <1>5, <1>6 DEF Pieces
<1>8. Apart(c, ro)
  <2>1. \A v \in S : pi[ro[v]].refcount >= 1
    BY <1>5, <1>6 DEF Shares
  <2>2. \A n \in Taken(c) : pi[n].refcount = 0
    BY <1>1, <1>4 DEF Taken
  <2> QED BY <1>5, <1>6, <2>1, <2>2 DEF Apart
<1> HIDE DEF m
<1>9. \A n \in Pages : n \in Taken(c) => Uses(m, S, n) = 0
  <2> SUFFICES ASSUME NEW n \in Pages, n \in Taken(c) PROVE Uses(m, S, n) = 0
    OBVIOUS
  <2> QED BY <1>4, <1>5, <1>6, <1>7, <1>8, NewUses DEF m
<1>10. \A n \in T : n \in Pages /\ Uses(m, S, n) = 0
  <2> SUFFICES ASSUME NEW n \in T PROVE n \in Pages /\ Uses(m, S, n) = 0
    OBVIOUS
  <2>1. n \in Pages /\ pi[n].refcount = 0
    BY <1>1, <1>2
  <2>2. ASSUME NEW v \in S, m[v].pn = n
        PROVE  FALSE
    <3>1. m[v].pn = ro[v]
      BY <1>5, <1>6, <1>7, NewTable DEF m
    <3>2. pi[ro[v]].refcount >= 1
      BY <1>5, <1>6 DEF Shares
    <3> QED BY <2>1, <2>2, <3>1, <3>2
  <2> QED BY <2>1, <2>2, UsesNone
<1>11. \A n \in X : n \in Pages /\ pi[n].refcount = 0 /\ Uses(m, S, n) = 0
  BY <1>1, <1>2, <1>4, <1>9, <1>10 DEF Taken
<1>12. \A n \in Pages : pi2[n] =
          IF n \in X THEN PageInfo(child, (pi[n].refcount + 1) + Uses(m, S, n))
          ELSE PageInfo(pi[n].owner, pi[n].refcount + Uses(m, S, n))
  BY DEF share, palloc, PageInfo
<1>13. pi2 = [n \in Pages |-> pi2[n]]
  BY DEF share
<1> HIDE DEF pi2
<1>14. Grants(pi, child, T, c, ro, pi2)
  <2>1. \A n \in X : pi2[n] = PageInfo(child, 1)
    BY <1>11, <1>12
  <2>2. \A n \in Pages \ X : pi2[n] = PageInfo(pi[n].owner, pi[n].refcount + Uses(m, DOMAIN ro, n))
    BY <1>6, <1>12
  <2> QED BY <1>13, <2>1, <2>2 DEF Grants, m
<1>15. d = Descriptor("runnable", pr[child].brk, pr[child].orig, m, T, TRUE)
  BY DEF child_of
<1>16. Breaks(d)
  BY <1>0, <1>15 DEF Breaks, Descriptor
<1>17. pr[child].brk \in Nat /\ pr[child].orig \in Nat
  BY <1>0 DEF ProcType
<1> HIDE DEF d
<1>18. Sound(pi2, [pr EXCEPT ![child] = d])
  <2>1. c \in [DOMAIN c -> FreePages(pi) \ T] /\ DOMAIN c \in SUBSET UserPages
        /\ T \in SUBSET FreePages(pi) /\ S \in SUBSET UserPages
    BY <1>2, <1>3, <1>4, <1>5
  <2>2. Breaks(Descriptor("runnable", pr[child].brk, pr[child].orig, new_table(c, ro), T, TRUE))
    BY <1>15, <1>16 DEF m
  <2>3. Sound(pi2, [pr EXCEPT ![child] =
            Descriptor("runnable", pr[child].brk, pr[child].orig, new_table(c, ro), T, TRUE)])
    BY <1>4, <1>5, <1>14, <1>17, <2>1, <2>2, NewSound
  <2> QED BY <1>15, <2>3 DEF m
<1>19. release(pi2, m, T) = pi
  <2>1. c \in [DOMAIN c -> FreePages(pi) \ T] /\ T \in SUBSET FreePages(pi)
        /\ DOMAIN ro \cap DOMAIN c = {}
    BY <1>2, <1>4, <1>5, <1>6
  <2>2. release(share(palloc(pi, T \cup Taken(c), child), m, DOMAIN ro), m, T) = pi
    BY <1>4, <1>5, <1>7, <2>1, UndoFork DEF m
  <2> QED BY <1>6, <2>2 DEF pi2
<1> QED BY <1>18, <1>19 DEF Undone, forked_pages, child_table, pi2, m, ro, d

\* fork succeeds: all writable pages have a copy, and the rest is shared
Forks(child, T, c) ==
    LET W == copied_pages(me.pt)
        R == shared_pages(me.pt)
    IN  /\ proc[child].state = "free" /\ DOMAIN c = W
        /\ pageinfo' = forked_pages(pageinfo, me.pt, c, R, T, child)
        /\ proc' = [proc EXCEPT ![child] = child_of(proc[child], child_table(me.pt, c, R), T)]
        /\ UNCHANGED todo
        /\ run(proc', current)

\* process_fork either builds a whole child or, after undoing what it did, returns
\* with nothing changed.
LEMMA ForkIs ==
    ASSUME IndInv, Fork
    PROVE  \/ Resume(pageinfo, me)
           \/ \E child \in Pids, T \in table_choices(FreePages(pageinfo)) :
                \E c \in palloc_choices(copied_pages(me.pt), FreePages(pageinfo) \ T) :
                   Forks(child, T, c)
<1> DEFINE F == FreePages(pageinfo)
           slots == {p \in Pids : proc[p].state = "free"}
           child == Min(slots)
           W == copied_pages(me.pt)
           R == shared_pages(me.pt)
           SoFar(c) == {v \in R : \A w \in W \ DOMAIN c : v < w}
           ro(c) == [v \in SoFar(c) |-> me.pt[v].pn]
           Table(c) == map_user(map_user(kernel_part, c, TRUE), ro(c), FALSE)
           Books(T, c) == share(palloc(pageinfo, T \cup Taken(c), child), Table(c), SoFar(c))
<1>1. /\ mode = "user" /\ Sound(pageinfo, proc) /\ current \in Active(proc)
      /\ me = proc[current]
  BY DEF Fork, Enter, IndInv, TypeOK, me
<1>2. CASE Resume(pageinfo, me)
  BY <1>2
<1>3. ASSUME ~(slots = {} \/ table_choices(F) = {}),
             NEW T \in table_choices(F), NEW c \in palloc_choices(W, F \ T),
             IF DOMAIN c = W
             THEN /\ pageinfo' = Books(T, c)
                  /\ proc' = [proc EXCEPT ![child] =
                       Descriptor("runnable", proc[child].brk, proc[child].orig, Table(c), T, TRUE)]
                  /\ UNCHANGED todo
                  /\ run(proc', current)
             ELSE Resume(release(Books(T, c), Table(c), T), me)
      PROVE  \/ Resume(pageinfo, me)
             \/ Forks(child, T, c) /\ child \in Pids
  <2>1. child \in Pids /\ proc[child].state = "free"
    <3>1. slots \in SUBSET Nat /\ slots # {}
      BY <1>3 DEF Pids
    <3>2. child \in slots
      BY <3>1, MinIs
    <3> QED BY <3>2
  <2> HIDE DEF child, slots
  <2>2. Table(c) = child_table(me.pt, c, SoFar(c)) /\ SoFar(c) \in SUBSET shared_pages(me.pt)
    BY DEF child_table, new_table
  <2>3. Books(T, c) = forked_pages(pageinfo, me.pt, c, SoFar(c), T, child)
    BY DEF child_table, new_table, forked_pages
  <2>4. release(forked_pages(pageinfo, me.pt, c, SoFar(c), T, child), child_table(me.pt, c, SoFar(c)), T)
          = pageinfo
    <3>1. /\ SoFar(c) \in SUBSET shared_pages(proc[current].pt)
          /\ T \in table_choices(FreePages(pageinfo))
          /\ c \in palloc_choices(copied_pages(proc[current].pt), FreePages(pageinfo) \ T)
      BY <1>1
    <3> HIDE DEF F, W, R, SoFar
    <3>2. child \in Pids /\ proc[child].state = "free"
      BY <2>1
    <3>3. Forking(pageinfo, proc, current, child, T, c, SoFar(c))
      BY <1>1, <3>1, <3>2 DEF Forking
    <3> HIDE DEF child
    <3>4. Undone(pageinfo, proc[current].pt, c, SoFar(c), T, child)
      BY <3>3, ForkSound
    <3> QED BY <1>1, <3>4 DEF Undone
  <2>5. CASE DOMAIN c = W
    <3>1. SoFar(c) = R
      BY <2>5
    <3>2. /\ pageinfo' = Books(T, c) /\ UNCHANGED todo /\ run(proc', current)
          /\ proc' = [proc EXCEPT ![child] = child_of(proc[child], Table(c), T)]
      BY <1>3, <2>5 DEF child_of
    <3> HIDE DEF Table, Books, SoFar
    <3>3. /\ pageinfo' = forked_pages(pageinfo, me.pt, c, R, T, child)
          /\ proc' = [proc EXCEPT ![child] = child_of(proc[child], child_table(me.pt, c, R), T)]
      BY <2>2, <2>3, <3>1, <3>2
    <3> QED BY <2>1, <2>5, <3>2, <3>3 DEF Forks
  <2>6. CASE DOMAIN c # W
    <3>1. Resume(release(Books(T, c), Table(c), T), me)
      BY <1>3, <2>6
    <3> HIDE DEF Table, Books, SoFar
    <3>2. release(Books(T, c), Table(c), T) = pageinfo
      BY <2>2, <2>3, <2>4
    <3> QED BY <3>1, <3>2
  <2> QED BY <2>5, <2>6
<1>4. \/ Resume(pageinfo, me)
      \/ /\ ~(slots = {} \/ table_choices(F) = {})
         /\ \E T \in table_choices(F) : \E c \in palloc_choices(W, F \ T) :
              IF DOMAIN c = W
              THEN /\ pageinfo' = Books(T, c)
                   /\ proc' = [proc EXCEPT ![child] =
                        Descriptor("runnable", proc[child].brk, proc[child].orig, Table(c), T, TRUE)]
                   /\ UNCHANGED todo
                   /\ run(proc', current)
              ELSE Resume(release(Books(T, c), Table(c), T), me)
  BY DEF Fork
<1>5. ASSUME ~Resume(pageinfo, me)
      PROVE  \E T \in table_choices(F) : \E c \in palloc_choices(W, F \ T) :
                Forks(child, T, c) /\ child \in Pids
  <2> HIDE DEF F, W, slots, child, Table, Books
  <2> QED BY <1>3, <1>4, <1>5
<1> HIDE DEF child
<1> QED BY <1>5

\* fork keeps the books: the copies belong to the child and the shared pages are
\* counted once more.
LEMMA ForkInv ==
    ASSUME IndInv, Fork
    PROVE  IndInv'
<1>1. /\ mode = "user" /\ Sound(pageinfo, proc) /\ current \in Active(proc)
      /\ me = proc[current] /\ todo \subseteq Pids
  BY DEF Fork, Enter, IndInv, TypeOK, me
<1>2. CASE Resume(pageinfo, me)
  BY <1>1, <1>2, ResumeSame
<1>3. ASSUME NEW child \in Pids, NEW T \in table_choices(FreePages(pageinfo)),
             NEW c \in palloc_choices(copied_pages(me.pt), FreePages(pageinfo) \ T),
             Forks(child, T, c)
      PROVE  IndInv'
  <2> DEFINE R == shared_pages(me.pt)
             m2 == child_table(me.pt, c, R)
             d == child_of(proc[child], m2, T)
  <2>1. /\ pageinfo' = forked_pages(pageinfo, me.pt, c, R, T, child)
        /\ proc' = [proc EXCEPT ![child] = d]
        /\ todo' = todo /\ run(proc', current) /\ proc[child].state = "free"
    BY <1>3 DEF Forks
  <2>2. Sound(pageinfo', proc')
    <3>1. Forking(pageinfo, proc, current, child, T, c, R)
      BY <1>1, <2>1 DEF Forking
    <3> HIDE DEF R
    <3> QED BY <1>1, <2>1, <3>1, ForkSound
  <2>3. current \in Active(proc')
    <3>1. child # current
      BY <1>1, <2>1 DEF Active
    <3> HIDE DEF d
    <3> QED BY <1>1, <2>1, <3>1 DEF Active
  <2>4. current' = current /\ mode' = "user"
    BY <2>1, <2>2, <2>3, RunIs
  <2> QED BY <1>1, <2>1, <2>2, <2>3, <2>4, Settled DEF Modes, Active
<1> QED BY <1>2, <1>3, ForkIs

\* Every step of the kernel keeps the invariant.
LEMMA StepInv ==
    ASSUME ForkedKeepBreak, IndInv, [Next]_vars
    PROVE  IndInv'
<1>1. CASE Setup
  BY <1>1, SetupInv
<1>2. CASE CheckFails
  BY <1>2, CheckFailsInv
<1>3. CASE Timer \/ Yield
  BY <1>3, SwitchInv DEF Timer, Yield, Enter
<1>4. CASE Exit
  BY <1>4, LeaveInv DEF Exit, Enter
<1>5. CASE Fork
  BY <1>5, ForkInv
<1>6. CASE Panic
  BY <1>6, StopInv DEF Panic, Enter
<1>7. ASSUME mode = "user", May("sbrk") \/ May("brk"), NEW d \in Int, sbrk(d)
      PROVE  IndInv'
  <2>1. ~me.forked
    BY <1>7 DEF May, ForkedKeepBreak
  <2> QED BY <1>7, <2>1, SbrkInv
<1>8. ASSUME NEW d \in Increments, Sbrk(d)
      PROVE  IndInv'
  BY <1>7, <1>8, KernelAssumption DEF Sbrk, Enter
<1>9. ASSUME NEW a \in Targets, Brk(a)
      PROVE  IndInv'
  <2>1. a - me.brk \in Int
    <3>1. me.brk \in Nat
      BY DEF IndInv, TypeOK, me, ProcType
    <3> QED BY <3>1, KernelAssumption
  <2> QED BY <1>7, <1>9, <2>1 DEF Brk, Enter
<1>10. ASSUME NEW a \in Targets, PageAlloc(a)
       PROVE  IndInv'
  BY <1>10, PageAllocInv, KernelAssumption
<1>11. ASSUME NEW a \in 0 .. (VIRT * PAGESIZE - 1), NEW write \in BOOLEAN, PageFault(a, write)
       PROVE  IndInv'
  BY <1>11, PageFaultInv
<1>12. ASSUME NEW n \in Commands, Reboot(n)
       PROVE  IndInv'
  BY <1>12, RestartInv DEF Reboot
<1>13. ASSUME PowerOff
       PROVE  IndInv'
  <2>1. 0 = 0 /\ Restart("off", 0)
    BY <1>13 DEF PowerOff
  <2> QED BY <2>1, RestartInv, Zenon
<1>14. CASE UNCHANGED vars
  BY <1>14 DEF vars, IndInv, TypeOK, Booting, AssertOnlyOrphans
<1> QED BY <1>1, <1>2, <1>3, <1>4, <1>5, <1>6, <1>8, <1>9, <1>10, <1>11, <1>12, <1>13, <1>14
        DEF Next

-----------------------------------------------------------------------------
(* The theorems.  They hold for programs whose forked processes do not move their  *)
(* break; those on exact counts also need programs that do not call page_alloc.    *)
(* The README says what goes wrong otherwise.                                      *)

\* IndInv holds in every state that kernel.c reaches, for any number of processes and
\* pages, any program image, and any arguments of sbrk, brk and page_alloc.
THEOREM Inductive ==
    ASSUME ForkedKeepBreak
    PROVE  Spec => []IndInv
<1>1. Init => IndInv
  BY InitInv
<1>2. IndInv /\ [Next]_vars => IndInv'
  BY StepInv
<1> QED BY <1>1, <1>2, PTL DEF Spec

\* The page counts agree with the page tables, and assertions fail for orphans only.
LEMMA BooksExact ==
    ASSUME NoPageAlloc, IndInv
    PROVE  RefcountExact /\ AssertOnlyOrphans
BY DEF IndInv, Sound, Exact, RefcountExact

\* Types, and the assertion of run that the process it starts is runnable.
THEOREM TypeCorrect ==
    ASSUME ForkedKeepBreak
    PROVE  Spec => []TypeOK
<1>1. IndInv => TypeOK
  BY DEF IndInv
<1> QED BY <1>1, Inductive, PTL

\* A page in use is never counted as free, so palloc never hands it out again:
\* whatever page_alloc maps over, and wherever.
THEOREM NeverHandedTwice ==
    ASSUME ForkedKeepBreak
    PROVE  Spec => []NeverUndercounted
<1>1. IndInv => NeverUndercounted
  BY DEF IndInv, Sound, Covered, NeverUndercounted
<1> QED BY <1>1, Inductive, PTL

\* pageinfo[pn].refcount is the number of references to page pn, and a page is free
\* exactly when there are none: no page leaks, and none is handed out twice.
THEOREM CountsExact ==
    ASSUME NoPageAlloc, ForkedKeepBreak
    PROVE  Spec => []RefcountExact
<1>1. IndInv => RefcountExact
  BY BooksExact
<1> QED BY <1>1, Inductive, PTL

\* Of the assertions in kernel.c, vm.c and k-vm that the model reaches, only the one
\* on owners in check_virtual_memory can fail, for a page that outlived its owner.
THEOREM OnlyOwnersAssert ==
    ASSUME NoPageAlloc, ForkedKeepBreak
    PROVE  Spec => []AssertOnlyOrphans
<1>1. IndInv => AssertOnlyOrphans
  BY BooksExact
<1> QED BY <1>1, Inductive, PTL

\* A page that one process can write is in nobody else's tables.
LEMMA WritableAlone ==
    ASSUME IndInv
    PROVE  WritableExclusive
<1>1. Sound(pageinfo, proc)
  BY DEF IndInv
<1> SUFFICES ASSUME NEW p \in Active(proc), NEW v \in High, proc[p].pt[v].w
             PROVE  LET n == proc[p].pt[v].pn
                    IN  /\ pageinfo[n] = PageInfo(p, 1)
                        /\ \A q \in Active(proc) : n \notin proc[q].tables
                        /\ \A q \in Active(proc) : \A x \in High :
                               proc[q].pt[x].pn = n => q = p /\ x = v
  BY DEF WritableExclusive
<1> DEFINE n == proc[p].pt[v].pn
<1>2. n \in Held(proc[p])
  BY DEF Held
<1> HIDE DEF n
<1>3. /\ pageinfo[n] = PageInfo(p, 1)
      /\ \A q \in Active(proc) \ {p} : n \notin proc[q].tables
      /\ \A q \in Active(proc) : \A x \in High : proc[q].pt[x].pn = n =>
            q = p /\ n \notin proc[p].tables
  BY <1>1, <1>2, HeldAlone
<1>4. proc[p].pt[v].pn = n
  BY DEF n
<1>5. \A q \in Active(proc) : n \notin proc[q].tables
  BY <1>3, <1>4
<1>6. ASSUME NEW q \in Active(proc), NEW x \in High, proc[q].pt[x].pn = n
      PROVE  q = p /\ x = v
  <2>1. q = p
    BY <1>3, <1>6
  <2> QED BY <1>1, <1>2, <1>4, <1>6, <2>1, HeldOnce
<1> QED BY <1>3, <1>4, <1>5, <1>6

\* Isolation: no process writes a page that another one, the kernel or a page table
\* uses, after any sequence of forks, faults, breaks and exits.
THEOREM Isolated ==
    ASSUME ForkedKeepBreak
    PROVE  Spec => []WritableExclusive
<1>1. IndInv => WritableExclusive
  BY WritableAlone
<1> QED BY <1>1, Inductive, PTL

\* The kernel's checks of page tables hold: in every state the tables of every process
\* map the kernel and are filed under it, once.
THEOREM TablesAreChecked ==
    ASSUME ForkedKeepBreak
    PROVE  Spec => []TablesChecked
<1>1. IndInv => TablesChecked
  <2> SUFFICES ASSUME IndInv PROVE TablesChecked
    OBVIOUS
  <2>1. Sound(pageinfo, proc)
    BY DEF IndInv
  <2>2. \A n \in KernelPages : pageinfo[n] = PageInfo(PO_KERNEL, 1)
    BY <2>1 DEF Sound, Permanent
  <2>3. ASSUME NEW p \in Active(proc)
        PROVE  /\ kernel_mapped(proc[p].pt)
               /\ \A n \in proc[p].tables : pageinfo[n] = PageInfo(p, 1)
               /\ tables_single(pageinfo, proc[p].pt, proc[p].tables)
    <3>1. Shape(proc[p].pt) /\ Owned(pageinfo, p, proc[p])
      BY <2>1 DEF Sound
    <3>2. tables_single(pageinfo, proc[p].pt, proc[p].tables)
      BY <2>1, ReleaseSound
    <3> QED BY <3>1, <3>2, KernelMapped DEF Owned
  <2> QED BY <2>2, <2>3 DEF TablesChecked
<1> QED BY <1>1, Inductive, PTL

\* The lookup of mapping() finds a page that is writable for the user: it is the
\* console or the caller's alone.
LEMMA MappingAlone ==
    ASSUME IndInv
    PROVE  MappingOwn
<1> SUFFICES ASSUME mode = "user", NEW a \in 0 .. (VIRT * PAGESIZE - 1),
                    NEW ptr \in 0 .. (VIRT * PAGESIZE - 1),
                    a \div PAGESIZE = (a + VAMSIZE - 1) \div PAGESIZE,
                    NEW n \in mapping_writes(current, a, ptr)
             PROVE  n = CONSOLE \/ pageinfo[n] = PageInfo(current, 1)
  BY DEF MappingOwn
<1> DEFINE first == a \div PAGESIZE
           m == proc[current].pt
<1>1. /\ Sound(pageinfo, proc) /\ current \in Active(proc)
      /\ m \in [VPages -> EntryType]
  BY DEF IndInv, TypeOK, ProcType
<1>2. first \in Nat /\ first < VIRT
  <2>1. PAGESIZE \in Nat \ {0} /\ VIRT \in Nat
    BY KernelAssumption
  <2>2. VIRT * PAGESIZE \in Nat
    BY <2>1
  <2>3. a \in Nat /\ a < VIRT * PAGESIZE
    BY <2>2
  <2> QED BY <2>1, <2>3, PageNumber
<1>3. m[first].w /\ m[first].u /\ n \in m[first].pn .. (m[first].pn + first - first)
  BY DEF mapping_writes, mapping_write
<1> HIDE DEF first, m
<1>4. first \in VPages
  BY <1>2, Ranges DEF VPages
<1>5. Shape(m)
  BY <1>1 DEF Sound, m
<1>6. n = m[first].pn
  <2>1. m[first].pn \in Int
    BY <1>1, <1>4, Ranges DEF EntryType, Pages
  <2> QED BY <1>2, <1>3, <2>1
<1>7. CASE first < PROC_START
  <2>1. m[first] = Entry(first, TRUE, first = CONSOLE)
    BY <1>4, <1>5, <1>7 DEF Shape
  <2>2. m[first].u = (first = CONSOLE) /\ m[first].pn = first
    BY <2>1 DEF Entry
  <2> QED BY <1>3, <1>6, <2>2
<1>8. CASE ~(first < PROC_START)
  <2>1. first \in High
    BY <1>2, <1>4, <1>8, Ranges
  <2> QED BY <1>1, <1>3, <1>6, <2>1 DEF Sound, Owned, m
<1> QED BY <1>7, <1>8

\* mapping() writes to the console or into the caller's own page for every buffer
\* within a page, whatever address it is asked about.
THEOREM MappingIsolated ==
    ASSUME ForkedKeepBreak
    PROVE  Spec => []MappingOwn
<1>1. IndInv => MappingOwn
  BY MappingAlone
<1> QED BY <1>1, Inductive, PTL

-----------------------------------------------------------------------------
(* What single steps do *)

\* Only fork makes a process once programs run.
LEMMA OnlyForkAdds ==
    ASSUME IndInv, mode = "user", [Next]_vars
    PROVE  Fork \/ Active(proc') \subseteq Active(proc)
<1>1. proc \in [Pids -> ProcType] /\ current \in Active(proc) /\ current \in Pids
  BY DEF IndInv, TypeOK
<1>2. ASSUME NEW pi, NEW d, Resume(pi, d)
      PROVE  Active(proc') \subseteq Active(proc)
  <2>1. proc' = [proc EXCEPT ![current] = d]
    BY <1>2 DEF Resume
  <2> QED BY <1>1, <2>1 DEF Active
<1>3. ASSUME proc' = proc
      PROVE  Active(proc') \subseteq Active(proc)
  BY <1>3 DEF Active
<1>4. ASSUME Leave
      PROVE  Active(proc') \subseteq Active(proc)
  <2>1. proc' = proc \/ proc' = [proc EXCEPT ![current] = freed(me)]
    BY <1>4 DEF Leave, Stop
  <2>2. [proc EXCEPT ![current] = freed(me)][current].state = "free"
    BY <1>1 DEF freed, Descriptor
  <2> HIDE DEF Active
  <2>3. CASE proc' = [proc EXCEPT ![current] = freed(me)]
    BY <1>1, <2>2, <2>3 DEF Active
  <2> QED BY <1>3, <2>1, <2>3
<1>5. ASSUME NEW d, sbrk(d)
      PROVE  Active(proc') \subseteq Active(proc)
  BY <1>2, <1>3, <1>5 DEF sbrk, Stop
<1>6. ASSUME NEW m, NEW n, Restart(m, n)
      PROVE  Active(proc') \subseteq Active(proc)
  BY <1>6 DEF Restart, NoProcs, Descriptor, Active
<1>7. CASE CheckFails \/ Timer \/ Yield \/ Panic \/ UNCHANGED vars
  BY <1>3, <1>7 DEF CheckFails, Timer, Yield, Panic, Switch, Stop, vars
<1>8. CASE Exit
  BY <1>4, <1>8 DEF Exit
<1>9. CASE (\E d \in Increments : Sbrk(d)) \/ (\E a \in Targets : Brk(a))
  BY <1>5, <1>9 DEF Sbrk, Brk
<1>10. CASE \E a \in Targets : PageAlloc(a)
  BY <1>2, <1>3, <1>10 DEF PageAlloc, Stop
<1>11. CASE \E a \in 0 .. (VIRT * PAGESIZE - 1), write \in BOOLEAN : PageFault(a, write)
  BY <1>2, <1>4, <1>11 DEF PageFault
<1>12. CASE (\E n \in Commands : Reboot(n)) \/ PowerOff
  BY <1>6, <1>12 DEF Reboot, PowerOff
<1>13. ~Setup
  BY DEF Setup
<1> QED BY <1>7, <1>8, <1>9, <1>10, <1>11, <1>12, <1>13 DEF Next

\* The page table that fork gives the child, entry by entry.
LEMMA ChildEntry ==
    ASSUME IndInv, mode = "user", NEW T,
           NEW c \in palloc_choices(copied_pages(me.pt), FreePages(pageinfo) \ T),
           DOMAIN c = copied_pages(me.pt), NEW v \in UserPages
    PROVE  LET a == me.pt[v]
               b == child_table(me.pt, c, shared_pages(me.pt))[v]
           IN  /\ b.w = a.w /\ b.u = a.u
               /\ ~a.w => b.pn = a.pn
               /\ a.w => b.pn \in FreePages(pageinfo)
<1> DEFINE a == me.pt[v]
           W == copied_pages(me.pt)
           R == shared_pages(me.pt)
           ro == [x \in R |-> me.pt[x].pn]
           b == new_table(c, ro)[v]
           F == FreePages(pageinfo) \ T
<1>1. /\ me.pt \in [VPages -> EntryType] /\ Shape(me.pt) /\ v \in VPages
      /\ UserPages \subseteq VPages
  BY Ranges DEF IndInv, TypeOK, me, Sound, ProcType
<1>2. /\ W \in SUBSET UserPages /\ R \in SUBSET UserPages /\ W \cap R = {}
      /\ F \in SUBSET Pages /\ F \subseteq FreePages(pageinfo)
  BY DEF copied_pages, shared_pages, FreePages
<1>3. c \in [W -> F]
  BY <1>2, ChoiceIs
<1>4. \A x \in R : me.pt[x].pn \in Pages
  BY <1>1, <1>2 DEF shared_pages, present, EntryType
<1>5. DOMAIN ro = R /\ DOMAIN c = W
  OBVIOUS
<1>6. Pieces(c, ro)
  BY <1>2, <1>3, <1>4 DEF Pieces
<1>7. a = Absent \/ (a.pn \in Pages /\ a.u)
  <2>1. ~(v < PROC_START)
    BY Ranges DEF UserPages
  <2> QED BY <1>1, <2>1 DEF Shape
<1>8. /\ v \in W <=> a.pn # -1 /\ a.w /\ a.u
      /\ v \in R <=> a.pn # -1 /\ ~a.w /\ a.u
  BY DEF copied_pages, shared_pages, present
<1>9. a \in EntryType
  BY <1>1
<1>10. /\ b.pn = IF v \in R THEN a.pn ELSE IF v \in W THEN c[v] ELSE -1
       /\ b.w <=> v \in W \ R
       /\ b.u <=> v \in W \cup R
       /\ b \in EntryType
  <2>1. \A x \in R : ro[x] = me.pt[x].pn
    OBVIOUS
  <2> HIDE DEF ro, W, R
  <2> QED BY <1>1, <1>5, <1>6, <2>1, NewTable
<1> HIDE DEF a, b, W, R
<1>11. Absent.pn = -1 /\ ~Absent.w /\ ~Absent.u
  BY DEF Absent
<1>12. \A n \in Pages : n # -1
  BY Ranges DEF Pages
<1>13. (b.w <=> a.w) /\ (b.u <=> a.u)
  BY <1>2, <1>7, <1>8, <1>10, <1>11, <1>12
<1>14. b.w = a.w /\ b.u = a.u
  BY <1>9, <1>10, <1>13 DEF EntryType
<1>15. /\ ~a.w => b.pn = a.pn
       /\ a.w => b.pn \in FreePages(pageinfo)
  BY <1>2, <1>3, <1>7, <1>8, <1>10, <1>11, <1>12
<1> QED BY <1>14, <1>15 DEF a, b, R, child_table

\* fork gives the child its parent's memory, and nothing else makes processes: the
\* same pages and permissions, the writable ones on pages that were free.
THEOREM ForkExact ==
    ASSUME ForkedKeepBreak
    PROVE  Spec => ForkMirrors
<1>1. ASSUME IndInv, [Next]_vars
      PROVE  [mode = "user" =>
                \A p \in Active(proc') \ Active(proc) : \A v \in UserPages :
                  LET a == me.pt[v]
                      b == proc'[p].pt[v]
                  IN  /\ b.w = a.w /\ b.u = a.u
                      /\ ~a.w => b.pn = a.pn
                      /\ a.w => b.pn \in FreePages(pageinfo)]_vars
  <2> SUFFICES ASSUME mode = "user", NEW p \in Active(proc') \ Active(proc), NEW v \in UserPages
               PROVE  LET a == me.pt[v]
                          b == proc'[p].pt[v]
                      IN  /\ b.w = a.w /\ b.u = a.u
                          /\ ~a.w => b.pn = a.pn
                          /\ a.w => b.pn \in FreePages(pageinfo)
    OBVIOUS
  <2>1. Fork /\ proc \in [Pids -> ProcType]
    BY <1>1, OnlyForkAdds DEF IndInv, TypeOK
  <2>2. ~Resume(pageinfo, me)
    BY <1>1, ResumeSame
  <2>3. PICK child \in Pids, T \in table_choices(FreePages(pageinfo)) :
          \E c \in palloc_choices(copied_pages(me.pt), FreePages(pageinfo) \ T) :
             Forks(child, T, c)
    BY <1>1, <2>1, <2>2, ForkIs
  <2>4. PICK c \in palloc_choices(copied_pages(me.pt), FreePages(pageinfo) \ T) :
             Forks(child, T, c)
    BY <2>3
  <2> DEFINE m == child_table(me.pt, c, shared_pages(me.pt))
  <2>5. /\ proc' = [proc EXCEPT ![child] = child_of(proc[child], m, T)]
        /\ DOMAIN c = copied_pages(me.pt)
    BY <2>4 DEF Forks
  <2> HIDE DEF m
  <2>6. p = child
    BY <2>1, <2>5 DEF Active
  <2>7. proc'[p].pt = m
    BY <2>1, <2>5, <2>6 DEF child_of, Descriptor
  <2>8. LET a == me.pt[v]
            b == m[v]
        IN  /\ b.w = a.w /\ b.u = a.u
            /\ ~a.w => b.pn = a.pn
            /\ a.w => b.pn \in FreePages(pageinfo)
    BY <1>1, <2>5, ChildEntry DEF m
  <2> QED BY <2>7, <2>8
<1> QED BY <1>1, Inductive, PTL DEF Spec, ForkMirrors

-----------------------------------------------------------------------------
(* The break: besides its image and its stack, a loaded process has only     *)
(* pages that hold bytes below the break, and a step takes away only what    *)
(* does not lie wholly below the break it leaves.  Breaks inside pages       *)
(* included: sbrk then unmaps the page of the new break with its live bytes  *)
(* and, when the old break was in the page below the stack, the stack.       *)

\* the pages a loaded program may have
Allowed(d, v) ==
    \/ v \in Image \cup {STACK}
    \/ v \in UserPages /\ v * PAGESIZE >= d.orig /\ v * PAGESIZE < d.brk

\* a loaded program has no other page than it may
Slot(d) ==
    d.state # "free" /\ ~d.forked => \A v \in High : present(d.pt, v) => Allowed(d, v)

Slots(pr) == \A p \in Pids : Slot(pr[p])

\* what a step that leads from d to e must not take away
Safe(d, e, v) ==
    \/ (v + 1) * PAGESIZE <= e.brk
    \/ d.brk <= e.brk
    \/ v = STACK /\ d.brk <= (STACK - 1) * PAGESIZE

Kept(d, e) == \A v \in UserPages : present(d.pt, v) /\ Safe(d, e, v) => e.pt[v] = d.pt[v]

-----------------------------------------------------------------------------
(* Arithmetic of page numbers *)

\* Page boundaries are ordered as their pages are.
LEMMA Boundaries ==
    ASSUME NEW i \in Nat, NEW k \in Nat
    PROVE  /\ i * PAGESIZE \in Nat
           /\ i < k <=> i * PAGESIZE < k * PAGESIZE
<1>1. PAGESIZE \in Nat \ {0}
  BY KernelAssumption
<1>2. ASSUME i < k
      PROVE  i * PAGESIZE < k * PAGESIZE
  <2>1. PAGESIZE * (i + 1) <= PAGESIZE * k
    BY <1>1, <1>2, MulMono
  <2>2. PAGESIZE * (i + 1) = i * PAGESIZE + PAGESIZE /\ PAGESIZE * k = k * PAGESIZE
    BY <1>1
  <2>3. i * PAGESIZE \in Nat /\ k * PAGESIZE \in Nat
    BY <1>1
  <2> QED BY <1>1, <2>1, <2>2, <2>3
<1>3. ASSUME k <= i
      PROVE  k * PAGESIZE <= i * PAGESIZE
  <2>1. PAGESIZE * k <= PAGESIZE * i
    BY <1>1, <1>3, MulMono
  <2>2. PAGESIZE * i = i * PAGESIZE /\ PAGESIZE * k = k * PAGESIZE
    BY <1>1
  <2> QED BY <2>1, <2>2
<1>4. i * PAGESIZE \in Nat /\ k * PAGESIZE \in Nat
  BY <1>1
<1> QED BY <1>2, <1>3, <1>4

-----------------------------------------------------------------------------
(* The operations on one process *)

\* sbrk with a higher break changes no page.
LEMMA GrowSlot ==
    ASSUME NEW d \in ProcType, Slot(d), NEW new \in Nat, new >= d.brk
    PROVE  Slot([d EXCEPT !.brk = new]) /\ Kept(d, [d EXCEPT !.brk = new])
<1> DEFINE e == [d EXCEPT !.brk = new]
<1>1. /\ e.brk = new /\ e.pt = d.pt /\ e.orig = d.orig /\ e.forked = d.forked
      /\ e.state = d.state /\ d.brk \in Nat
  BY DEF ProcType
<1> HIDE DEF e
<1>2. \A v \in UserPages : v * PAGESIZE \in Int
  BY Ranges, OrigIs DEF UserPages
<1>3. \A v : Allowed(d, v) => Allowed(e, v)
  BY <1>1, <1>2 DEF Allowed
<1>4. Slot(e)
  BY <1>1, <1>3 DEF Slot
<1> QED BY <1>1, <1>4 DEF Kept, e

\* The pages sbrk gives up: all that hold bytes between the two breaks and more, but
\* none that lies below the new one, and none above the page of the old one.
LEMMA ShrinkRange ==
    ASSUME NEW old \in Nat, NEW new \in Nat, NEW v \in Nat
    PROVE  /\ v \in shrink_pages(old, new) => ~((v + 1) * PAGESIZE <= new)
           /\ v * PAGESIZE < old /\ ~(v * PAGESIZE < new) => v \in shrink_pages(old, new)
           /\ v >= 1 /\ old <= (v - 1) * PAGESIZE => v \notin shrink_pages(old, new)
<1> DEFINE lo == new \div PAGESIZE
           top == old + PAGESIZE - 1
           hi == top \div PAGESIZE
<1>1. PAGESIZE \in Nat \ {0} /\ top \in Nat
  BY KernelAssumption
<1>2. /\ lo \in Nat /\ hi \in Nat
      /\ \A i \in Nat : new >= i * PAGESIZE => lo >= i
      /\ \A i \in Nat : top >= i * PAGESIZE => hi >= i
      /\ \A i \in Nat : top < i * PAGESIZE => hi < i
      /\ \A i \in Nat : new < i * PAGESIZE => lo < i
  BY <1>1, PageNumber
<1>3. shrink_pages(old, new) = lo .. hi
  BY DEF shrink_pages
<1>4. v + 1 \in Nat /\ v * PAGESIZE \in Nat /\ (v + 1) * PAGESIZE = v * PAGESIZE + PAGESIZE
  BY <1>1
<1> HIDE DEF lo, hi, top
<1>5. ASSUME (v + 1) * PAGESIZE <= new
      PROVE  lo >= v + 1
  BY <1>2, <1>4, <1>5
<1>6. ASSUME v * PAGESIZE < old, ~(v * PAGESIZE < new)
      PROVE  lo <= v /\ hi >= v
  <2>1. new < (v + 1) * PAGESIZE
    BY <1>1, <1>4, <1>6
  <2>2. top >= v * PAGESIZE
    BY <1>1, <1>4, <1>6 DEF top
  <2> QED BY <1>2, <1>4, <2>1, <2>2
<1>7. ASSUME v >= 1, old <= (v - 1) * PAGESIZE
      PROVE  hi < v
  <2>1. (v - 1) * PAGESIZE = v * PAGESIZE - PAGESIZE
    BY <1>1
  <2>2. top < v * PAGESIZE
    BY <1>1, <1>4, <1>7, <2>1 DEF top
  <2> QED BY <1>2, <2>2
<1> QED BY <1>2, <1>3, <1>5, <1>6, <1>7

\* sbrk with a lower break gives up the pages from the new break on, up to the page
\* behind the old break.
LEMMA ShrinkSlot ==
    ASSUME NEW d \in ProcType, Slot(d), NEW new \in Nat, new < d.brk
    PROVE  LET e == [d EXCEPT !.brk = new, !.pt = unmap(@, shrink_pages(d.brk, new))]
           IN  Slot(e) /\ Kept(d, e)
<1> DEFINE V == shrink_pages(d.brk, new)
           e == [d EXCEPT !.brk = new, !.pt = unmap(@, V)]
<1>1. d.brk \in Nat
  BY DEF ProcType
<1>2. /\ High \subseteq VPages /\ UserPages \subseteq High /\ High \subseteq Nat
      /\ STACK \in Nat /\ STACK >= 1
  BY Ranges DEF High, VPages
<1>3. /\ e.brk = new /\ e.orig = d.orig /\ e.forked = d.forked /\ e.state = d.state
      /\ \A v \in VPages : e.pt[v] = IF v \in V THEN Absent ELSE d.pt[v]
  BY DEF ProcType, unmap
<1> HIDE DEF e
<1>4. ASSUME NEW v \in High, present(e.pt, v), e.state # "free", ~e.forked
      PROVE  Allowed(e, v)
  <2>1. v \notin V /\ present(d.pt, v) /\ v \in Nat
    BY <1>2, <1>3, <1>4 DEF present, Absent
  <2>2. Allowed(d, v)
    BY <1>3, <1>4, <2>1 DEF Slot
  <2>3. CASE v \in UserPages /\ v * PAGESIZE >= d.orig /\ v * PAGESIZE < d.brk
    <3>1. v * PAGESIZE < new
      BY <1>1, <2>1, <2>3, ShrinkRange
    <3> QED BY <1>3, <2>3, <3>1 DEF Allowed
  <2> QED BY <2>2, <2>3 DEF Allowed
<1>5. ASSUME NEW v \in UserPages, Safe(d, e, v)
      PROVE  e.pt[v] = d.pt[v]
  <2>1. v \in Nat /\ v \in VPages
    BY <1>2
  <2>2. \/ (v + 1) * PAGESIZE <= new
        \/ v = STACK /\ d.brk <= (STACK - 1) * PAGESIZE
    BY <1>1, <1>3, <1>5 DEF Safe
  <2>3. v \notin V
    BY <1>1, <1>2, <2>1, <2>2, ShrinkRange
  <2> QED BY <1>3, <2>1, <2>3
<1>6. Slot(e)
  BY <1>4 DEF Slot
<1>7. Kept(d, e)
  BY <1>5 DEF Kept
<1> QED BY <1>6, <1>7 DEF e

\* The page-fault handler adds a page below the break and behind the image.
LEMMA FaultSlot ==
    ASSUME NEW d \in ProcType, d.state # "free", Slot(d), d.orig = ORIG,
           NEW a \in Nat, a >= d.orig, a < d.brk,
           a \div PAGESIZE \in UserPages, ~present(d.pt, a \div PAGESIZE), NEW f \in Pages
    PROVE  /\ Slot(faulted(d, a \div PAGESIZE, f))
           /\ Kept(d, faulted(d, a \div PAGESIZE, f))
<1> DEFINE v == a \div PAGESIZE
           e == faulted(d, v, f)
<1>1. /\ e.brk = d.brk /\ e.orig = d.orig /\ e.forked = d.forked /\ d.brk \in Nat
      /\ \A x \in VPages : e.pt[x] = IF x = v THEN Entry(f, TRUE, TRUE) ELSE d.pt[x]
  BY DEF ProcType, faulted, map_user
<1>2. v * PAGESIZE <= a /\ v * PAGESIZE >= ORIG /\ v * PAGESIZE \in Nat
  <2>1. PAGESIZE \in Nat \ {0} /\ Max(Image) + 1 \in Nat
    BY OrigIs
  <2>2. v \in Nat /\ v >= Max(Image) + 1 /\ v * PAGESIZE <= a
    <3>1. a >= (Max(Image) + 1) * PAGESIZE
      BY OrigIs
    <3>2. v \in Nat /\ v >= Max(Image) + 1
      BY <2>1, <3>1, PageNumber
    <3> DEFINE r == a % PAGESIZE
    <3>3. a = PAGESIZE * v + r /\ r \in 0 .. (PAGESIZE - 1)
      BY <2>1, DivMod
    <3> HIDE DEF v, r
    <3>4. PAGESIZE * v = v * PAGESIZE /\ PAGESIZE * v \in Nat
      BY <2>1, <3>2
    <3> QED BY <2>1, <3>2, <3>3, <3>4
  <2> HIDE DEF v
  <2>3. v * PAGESIZE >= (Max(Image) + 1) * PAGESIZE
    BY <2>1, <2>2, Boundaries
  <2> QED BY <2>1, <2>2, <2>3, OrigIs, Boundaries
<1>3. v \in UserPages /\ UserPages \subseteq VPages /\ High \subseteq VPages
  BY Ranges
<1>4. ~present(d.pt, v)
  OBVIOUS
<1> HIDE DEF e, v
<1>5. ASSUME NEW x \in High, present(e.pt, x), ~e.forked
      PROVE  Allowed(e, x)
  <2>1. CASE x = v
    BY <1>1, <1>2, <1>3, <2>1 DEF Allowed
  <2>2. CASE x # v
    <3>1. present(d.pt, x)
      BY <1>1, <1>3, <1>5, <2>2 DEF present
    <3>2. Allowed(d, x)
      BY <1>1, <1>5, <3>1 DEF Slot
    <3> QED BY <1>1, <3>2 DEF Allowed
  <2> QED BY <2>1, <2>2
<1>6. Slot(e)
  BY <1>5 DEF Slot
<1>7. Kept(d, e)
  BY <1>1, <1>3, <1>4 DEF Kept
<1> QED BY <1>6, <1>7 DEF e, v

-----------------------------------------------------------------------------
(* The steps *)

\* all slots of pr2 are in order, and processes in both keep what pr gave them
Good(pr, pr2) ==
    Slots(pr2) /\ \A p \in Active(pr) \cap Active(pr2) : Kept(pr[p], pr2[p])

\* A step that changes one slot.
LEMMA SlotUpdate ==
    ASSUME NEW pr \in [Pids -> ProcType], Slots(pr), NEW q \in Pids, NEW d, Slot(d),
           pr[q].state # "free" /\ d.state # "free" => Kept(pr[q], d)
    PROVE  Good(pr, [pr EXCEPT ![q] = d])
<1> DEFINE pr2 == [pr EXCEPT ![q] = d]
<1>1. pr2[q] = d /\ \A p \in Pids \ {q} : pr2[p] = pr[p]
  OBVIOUS
<1> HIDE DEF pr2
<1>2. Slots(pr2)
  BY <1>1 DEF Slots
<1>3. ASSUME NEW p \in Active(pr) \cap Active(pr2)
      PROVE  Kept(pr[p], pr2[p])
  <2>1. CASE p = q
    BY <1>1, <1>3, <2>1 DEF Active
  <2>2. CASE p # q
    BY <1>1, <1>3, <2>2 DEF Active, Kept
  <2> QED BY <2>1, <2>2
<1> QED BY <1>2, <1>3 DEF Good, pr2

\* A step that changes no process.
LEMMA SameGood ==
    ASSUME NEW pr, Slots(pr)
    PROVE  Good(pr, pr)
BY DEF Good, Kept

\* An empty process table.
LEMMA NoProcsGood ==
    ASSUME NEW pr
    PROVE  Good(pr, NoProcs)
<1>1. \A p \in Pids : NoProcs[p].state = "free"
  BY DEF NoProcs, Descriptor
<1>2. Slots(NoProcs) /\ Active(NoProcs) = {}
  BY <1>1 DEF Slots, Slot, Active
<1> QED BY <1>2 DEF Good

\* The handler returns to the process it came from.
LEMMA ResumeGood ==
    ASSUME IndInv, Slots(proc), NEW pi, NEW d, Resume(pi, d), Slot(d), Kept(me, d)
    PROVE  Good(proc, proc')
<1>1. /\ proc \in [Pids -> ProcType] /\ current \in Pids /\ me = proc[current]
      /\ proc' = [proc EXCEPT ![current] = d]
  BY DEF IndInv, TypeOK, me, Resume
<1> QED BY <1>1, SlotUpdate

\* A process that ends leaves a free slot.
LEMMA LeaveGood ==
    ASSUME IndInv, Slots(proc), Leave
    PROVE  Good(proc, proc')
<1>1. /\ proc \in [Pids -> ProcType] /\ current \in Pids /\ me = proc[current] /\ Slot(me)
  BY DEF IndInv, TypeOK, me, Slots
<1>2. CASE proc' = proc
  BY <1>2, SameGood
<1>3. CASE proc' = [proc EXCEPT ![current] = freed(me)]
  <2>1. freed(me).state = "free"
    BY DEF freed, Descriptor
  <2>2. Slot(freed(me))
    BY <2>1 DEF Slot
  <2> QED BY <1>1, <1>3, <2>1, <2>2, SlotUpdate
<1> QED BY <1>2, <1>3 DEF Leave, Stop

\* What process_setup loads: the break is behind the image.
LEMMA SetupGood ==
    ASSUME IndInv, Slots(proc), Setup
    PROVE  Good(proc, proc')
<1>1. mode = "boot" /\ proc \in [Pids -> ProcType]
  BY DEF Setup, IndInv, TypeOK
<1>2. PICK n \in Commands : \E k \in 1 .. n : Turn(n, k)
  BY <1>1, NextTurn
<1>3. PICK k \in 1 .. n : Turn(n, k)
  BY <1>2
<1>4. PICK T \in table_choices(FreePages(pageinfo)) :
         \E c \in palloc_choices(Image \cup {STACK}, FreePages(pageinfo) \ T) :
            Loads(k, T, c) /\ DOMAIN c = Image \cup {STACK}
  BY <1>3, SetupIs
<1>5. PICK c \in palloc_choices(Image \cup {STACK}, FreePages(pageinfo) \ T) :
            Loads(k, T, c) /\ DOMAIN c = Image \cup {STACK}
  BY <1>4
<1> DEFINE d == loaded(T, c)
           ro == [v \in Text |-> c[v]]
           m == new_table(c, ro)
<1>6. d.pt = m /\ d.brk = ORIG /\ d.forked = FALSE
  BY DEF loaded, Descriptor
<1>7. /\ Image \cup {STACK} \in SUBSET UserPages /\ STACK \notin Image
      /\ Text \subseteq Image /\ FreePages(pageinfo) \ T \in SUBSET Pages
  BY Ranges DEF Image, FreePages
<1>8. c \in [Image \cup {STACK} -> Pages]
  <2>1. c \in [DOMAIN c -> FreePages(pageinfo) \ T]
    BY <1>5, <1>7, ChoiceIs
  <2> QED BY <1>5, <1>7, <2>1
<1>9. Pieces(c, ro) /\ DOMAIN ro = Text
  BY <1>5, <1>7, <1>8 DEF Pieces
<1> HIDE DEF ro
<1>10. /\ Confined(m)
       /\ \A v \in UserPages :
             /\ m[v].pn = IF v \in Text THEN ro[v] ELSE IF v \in DOMAIN c THEN c[v] ELSE -1
             /\ m[v].w <=> v \in DOMAIN c \ Text
  BY <1>9, NewTable
<1> HIDE DEF m
<1>11. ASSUME NEW v \in High, present(m, v)
       PROVE  v \in Image \cup {STACK}
  <2>1. v \in UserPages
    BY <1>10, <1>11 DEF Confined, present, Absent
  <2>2. v \in Text \/ v \in DOMAIN c
    BY <1>10, <1>11, <2>1 DEF present
  <2> QED BY <1>5, <1>7, <2>2
<1> HIDE DEF d
<1>12. Slot(d)
  BY <1>6, <1>11 DEF Slot, Allowed
<1>13. k \in Pids /\ proc[k].state = "free" /\ proc' = [proc EXCEPT ![k] = d]
  BY <1>3, <1>5 DEF Turn, Loads, d
<1> QED BY <1>1, <1>12, <1>13, SlotUpdate

\* fork: the child is not a loaded program, and the parent keeps everything.
LEMMA ForkGood ==
    ASSUME IndInv, Slots(proc), Fork
    PROVE  Good(proc, proc')
<1>1. /\ mode = "user" /\ proc \in [Pids -> ProcType]
      /\ me = proc[current] /\ current \in Pids
  BY DEF Fork, Enter, IndInv, TypeOK, me
<1>2. CASE Resume(pageinfo, me)
  BY <1>1, <1>2, ResumeSame, SameGood
<1>3. ASSUME NEW child \in Pids, NEW T \in table_choices(FreePages(pageinfo)),
             NEW c \in palloc_choices(copied_pages(me.pt), FreePages(pageinfo) \ T),
             Forks(child, T, c)
      PROVE  Good(proc, proc')
  <2> DEFINE m == child_table(me.pt, c, shared_pages(me.pt))
             d == child_of(proc[child], m, T)
  <2>1. /\ proc' = [proc EXCEPT ![child] = d] /\ proc[child].state = "free"
    BY <1>3 DEF Forks
  <2>2. d.forked = TRUE
    BY DEF child_of, Descriptor
  <2> HIDE DEF m, d
  <2>3. Slot(d)
    BY <2>2 DEF Slot
  <2> QED BY <1>1, <2>1, <2>3, SlotUpdate
<1> QED BY <1>2, <1>3, ForkIs

\* sbrk of a loaded program to any new break.
LEMMA SbrkGood ==
    ASSUME IndInv, mode = "user", Slots(proc), ~me.forked, NEW difference \in Int,
           sbrk(difference)
    PROVE  Good(proc, proc')
<1> DEFINE new == me.brk + difference
           V == shrink_pages(me.brk, new)
           moved == [me EXCEPT !.brk = new]
<1>1. /\ me \in ProcType /\ me.state # "free" /\ me.orig = ORIG /\ Breaks(me) /\ Slot(me)
  BY DEF IndInv, TypeOK, me, Sound, Active, Slots
<1>2. me.brk \in Nat /\ ORIG \in Nat /\ new \in Int
  <2>1. me.brk \in Nat /\ ORIG \in Nat
    BY <1>1, OrigIs DEF ProcType
  <2> QED BY <2>1
<1>3. CASE Resume(pageinfo, me)
  BY <1>3, ResumeSame, SameGood
<1>4. CASE proc' = proc
  BY <1>4, SameGood
<1>5. ASSUME ~(new < me.orig)
      PROVE  new \in Nat
  BY <1>1, <1>2, <1>5
<1>6. CASE ~(new < me.orig) /\ difference >= 0 /\ Resume(pageinfo, moved)
  <2>1. new \in Nat /\ new >= me.brk
    BY <1>2, <1>5, <1>6
  <2> HIDE DEF new
  <2>2. Slot(moved) /\ Kept(me, moved)
    BY <1>1, <2>1, GrowSlot
  <2> HIDE DEF moved
  <2> QED BY <1>6, <2>2, ResumeGood
<1>7. CASE /\ ~(new < me.orig) /\ ~(difference >= 0)
           /\ Resume(unref(pageinfo, me.pt, V), [moved EXCEPT !.pt = unmap(@, V)])
  <2>1. new \in Nat /\ new < me.brk
    BY <1>2, <1>5, <1>7
  <2> HIDE DEF new
  <2> DEFINE e == [me EXCEPT !.brk = new, !.pt = unmap(@, V)]
  <2>2. Slot(e) /\ Kept(me, e)
    BY <1>1, <2>1, ShrinkSlot
  <2>3. e = [moved EXCEPT !.pt = unmap(@, V)]
    BY <1>1 DEF ProcType
  <2>4. Resume(unref(pageinfo, me.pt, V), e)
    BY <1>7, <2>3
  <2> HIDE DEF e
  <2> QED BY <2>2, <2>4, ResumeGood
<1> QED BY <1>3, <1>4, <1>6, <1>7 DEF sbrk, Stop

\* A page fault adds a page or ends the process.
LEMMA PageFaultGood ==
    ASSUME IndInv, Slots(proc), NEW a \in 0 .. (VIRT * PAGESIZE - 1), NEW write \in BOOLEAN,
           PageFault(a, write)
    PROVE  Good(proc, proc')
<1> DEFINE v == a \div PAGESIZE
           F == FreePages(pageinfo)
           f == Min(F)
           c == [x \in {v} |-> f]
<1>1. CASE Leave
  BY <1>1, LeaveGood
<1>2. CASE /\ ~present(me.pt, v) /\ InHeap(a) /\ F # {}
           /\ Resume(palloc(pageinfo, {f}, current), [me EXCEPT !.pt = map_user(@, c, TRUE)])
  <2>1. /\ me \in ProcType /\ me.state # "free" /\ Breaks(me) /\ Slot(me)
    BY DEF PageFault, Enter, IndInv, TypeOK, me, Sound, Active, Slots
  <2>2. a \in Nat /\ a < VIRT * PAGESIZE /\ a < me.brk /\ a >= me.orig
    <3>1. VIRT * PAGESIZE \in Int
      BY Ranges, OrigIs
    <3> QED BY <1>2, <3>1 DEF InHeap
  <2>3. v \in UserPages /\ me.orig = ORIG
    BY <2>1, <2>2, HeapPage
  <2>4. f \in Pages
    <3>1. F \in SUBSET Nat /\ F \subseteq Pages
      BY Ranges DEF FreePages, Pages
    <3> QED BY <1>2, <3>1, MinIs
  <2> DEFINE d == faulted(me, v, f)
  <2>5. Resume(palloc(pageinfo, {f}, current), d)
    BY <1>2 DEF faulted
  <2> HIDE DEF f
  <2>6. Slot(d) /\ Kept(me, d)
    BY <1>2, <2>1, <2>2, <2>3, <2>4, FaultSlot
  <2> HIDE DEF d
  <2> QED BY <2>5, <2>6, ResumeGood
<1> QED BY <1>1, <1>2 DEF PageFault

\* Every step of the kernel.
LEMMA StepGood ==
    ASSUME NoPageAlloc, ForkedKeepBreak, IndInv, Slots(proc), [Next]_vars
    PROVE  Good(proc, proc')
<1>1. CASE Setup
  BY <1>1, SetupGood
<1>2. CASE CheckFails \/ Timer \/ Yield \/ Panic \/ UNCHANGED vars
  <2>1. proc' = proc
    BY <1>2 DEF CheckFails, Timer, Yield, Panic, Switch, Stop, vars
  <2> QED BY <2>1, SameGood
<1>3. CASE Exit
  BY <1>3, LeaveGood DEF Exit
<1>4. CASE Fork
  BY <1>4, ForkGood
<1>5. Increments \subseteq Int /\ Targets \subseteq Nat /\ me.brk \in Nat
  BY KernelAssumption DEF IndInv, TypeOK, me, ProcType
<1>6. ASSUME NEW d \in Increments, Sbrk(d)
      PROVE  Good(proc, proc')
  <2>1. mode = "user" /\ ~me.forked /\ sbrk(d) /\ d \in Int
    BY <1>5, <1>6 DEF Sbrk, Enter, May, ForkedKeepBreak
  <2> QED BY <2>1, SbrkGood
<1>7. ASSUME NEW a \in Targets, Brk(a)
      PROVE  Good(proc, proc')
  <2>1. mode = "user" /\ ~me.forked /\ sbrk(a - me.brk)
    BY <1>7 DEF Brk, Enter, May, ForkedKeepBreak
  <2>2. a - me.brk \in Int
    BY <1>5
  <2> QED BY <2>1, <2>2, SbrkGood
<1>8. ASSUME NEW a \in Targets, PageAlloc(a)
      PROVE  FALSE
  BY <1>8 DEF PageAlloc, May, NoPageAlloc
<1>9. ASSUME NEW a \in 0 .. (VIRT * PAGESIZE - 1), NEW write \in BOOLEAN, PageFault(a, write)
      PROVE  Good(proc, proc')
  BY <1>9, PageFaultGood
<1>10. ASSUME proc' = NoProcs
       PROVE  Good(proc, proc')
  BY <1>10, NoProcsGood
<1>11. CASE (\E n \in Commands : Reboot(n)) \/ PowerOff
  BY <1>10, <1>11 DEF Reboot, PowerOff, Restart
<1> QED BY <1>1, <1>2, <1>3, <1>4, <1>6, <1>7, <1>8, <1>9, <1>11 DEF Next

\* The invariant of this module holds in every reachable state, together with IndInv.
LEMMA SlotsInductive ==
    ASSUME NoPageAlloc, ForkedKeepBreak
    PROVE  Spec => [](IndInv /\ Slots(proc))
<1>1. Init => IndInv /\ Slots(proc)
  BY InitInv, NoProcsGood DEF Init, Good
<1>2. IndInv /\ Slots(proc) /\ [Next]_vars => IndInv' /\ Slots(proc)'
  BY StepInv, StepGood DEF Good
<1> QED BY <1>1, <1>2, PTL DEF Spec

\* The pages of a process match its break: a loaded program has nothing above it,
\* whatever sequence of sbrk, brk and page faults moved it, to whatever byte.
THEOREM BreakMatched ==
    ASSUME NoPageAlloc, ForkedKeepBreak
    PROVE  Spec => []PagesMatchBreak
<1>1. IndInv /\ Slots(proc) => PagesMatchBreak
  BY DEF Slots, Slot, Allowed, Active, PagesMatchBreak, Program
<1> QED BY <1>1, SlotsInductive, PTL

\* No step of any process takes away or replaces a page below the break it leaves, nor
\* any page unless it lowers the break, nor a stack that is two pages from the break.
THEOREM BytesKept ==
    ASSUME NoPageAlloc, ForkedKeepBreak
    PROVE  Spec => LiveKept
<1>1. ASSUME IndInv /\ Slots(proc), [Next]_vars
      PROVE  [\A p \in Active(proc) \cap Active(proc') : \A v \in UserPages :
                /\ present(proc[p].pt, v)
                /\ \/ (v + 1) * PAGESIZE <= proc'[p].brk
                   \/ proc[p].brk <= proc'[p].brk
                   \/ v = STACK /\ proc[p].brk <= (STACK - 1) * PAGESIZE
                => proc'[p].pt[v] = proc[p].pt[v]]_vars
  BY <1>1, StepGood DEF Good, Kept, Safe
<1> QED BY <1>1, SlotsInductive, PTL DEF Spec, LiveKept

=============================================================================
