---------------------------- MODULE LoaderProofs ----------------------------
(***************************************************************************)
(* Proofs about Loader for any sizes of pages, sectors and memory and any  *)
(* file the linker may produce: both loaders put every byte of every       *)
(* segment in place, and a program's heap begins behind its image.         *)
(***************************************************************************)
EXTENDS Loader, Arith, SequenceTheorems, FiniteSetTheorems

\* the first page boundary behind a segment
Up(s) == ROUNDUP(s.va + s.memsz, PAGESIZE)

\* the memory m holds the segment s
Exact(m, s) ==
    \A k \in 0 .. (s.memsz - 1) : m[s.va + k] = IF k < s.filesz THEN file(s.offset + k) ELSE 0

\* its pages have its rights
Allowed(r, s) ==
    \A k \in 0 .. (s.memsz - 1) : r[(s.va + k) \div PAGESIZE] = IF s.w THEN "write" ELSE "read"

\* the segments the loader is done with
Before == {j \in 1 .. (i - 1) : image[j].type = PTYPE_LOAD}

\* boot_readseg has read the segment up to ptr, and the next sector follows on that
Reading ==
    /\ i <= Len(image) /\ ptr % SECTORSIZE = 0 /\ ph.va <= ptr /\ ptr <= Up(ph)
    /\ (sect - 1) * SECTORSIZE = ph.offset + (ptr - ph.va)
    /\ \A b \in ph.va .. (ptr - 1) : mem[b] = file(ph.offset + (b - ph.va))

\* program_load: everything mapped is below the break, what is to come is above it
Breaking ==
    /\ brk % PAGESIZE = 0
    /\ \A j \in Before : image[j].va + image[j].memsz <= brk /\ Allowed(rights, image[j])
    /\ \A v \in VPages : rights[v] # "none" => v * PAGESIZE < brk
    /\ \A k \in i .. Len(image) : image[k].type = PTYPE_LOAD => brk <= image[k].va

\* The strengthening of ImageExact and BreakBehindImage that every step keeps.
Inv ==
    /\ image \in Images \cup Kernels /\ TypeOK
    /\ mode \in {"boot", "read"} => image \in Kernels
    /\ \A j \in Before : Exact(mem, image[j])
    /\ mode = "read" => Reading
    /\ mode \in {"load", "loaded"} => Breaking
    /\ mode \in {"booted", "loaded"} => i = Len(image) + 1

-----------------------------------------------------------------------------
(* Sizes and images *)

\* The sizes, from the assumption.
LEMMA Sizes ==
    /\ PAGESIZE \in Nat \ {0} /\ SECTORSIZE \in Nat \ {0} /\ PAGESIZE % SECTORSIZE = 0
    /\ MEMSIZE \in Nat /\ Rooms \subseteq Nat
  BY SizeAssumption

\* ROUNDUP goes up to a multiple, ROUNDDOWN leaves one where it is.
LEMMA Rounded ==
    ASSUME NEW a \in Nat, NEW n \in Nat \ {0}
    PROVE  /\ ROUNDUP(a, n) \in Nat /\ ROUNDUP(a, n) % n = 0 /\ a <= ROUNDUP(a, n)
           /\ a % n = 0 => ROUNDDOWN(a, n) = a
<1> DEFINE y == a + n - 1
           r == y - (y % n)
<1>1. y \in Nat
  OBVIOUS
<1>2. r \in Nat /\ r % n = 0 /\ y < r + n
  <2> HIDE DEF y
  <2> QED BY <1>1, RoundDown
<1>3. ROUNDUP(a, n) = r
  BY DEF ROUNDUP, ROUNDDOWN
<1>4. a <= r
  <2> HIDE DEF r
  <2> QED BY <1>2
<1>5. a % n = 0 => ROUNDDOWN(a, n) = a
  BY DEF ROUNDDOWN
<1> HIDE DEF r
<1> QED BY <1>2, <1>3, <1>4, <1>5

\* A multiple of a page is one of a sector.
LEMMA PageOfSectors ==
    ASSUME NEW a \in Nat, a % PAGESIZE = 0
    PROVE  a % SECTORSIZE = 0
<1>1. PAGESIZE \in Nat \ {0} /\ SECTORSIZE \in Nat \ {0} /\ PAGESIZE % SECTORSIZE = 0 /\ PAGESIZE \in Nat
  BY Sizes
<1>2. PICK j \in Nat : a = PAGESIZE * j
  BY <1>1, ModMultiple
<1>3. PICK k \in Nat : PAGESIZE = SECTORSIZE * k
  BY <1>1, ModMultiple
<1>4. a = SECTORSIZE * (k * j) /\ k * j \in Nat
  BY <1>1, <1>2, <1>3
<1> QED BY <1>1, <1>4, ModMultiple

\* A multiple below another one has room for one step more.
LEMMA NextMultiple ==
    ASSUME NEW a \in Nat, NEW b \in Nat, NEW n \in Nat \ {0}, a % n = 0, b % n = 0, a < b
    PROVE  a + n <= b /\ (a + n) % n = 0
<1>1. PICK j \in Nat : a = n * j
  BY ModMultiple
<1>2. PICK k \in Nat : b = n * k
  BY ModMultiple
<1>3. j + 1 <= k
  <2>1. ASSUME k <= j
        PROVE  FALSE
    <3>1. n * k <= n * j
      BY <2>1, MulMono
    <3> QED BY <1>1, <1>2, <3>1
  <2> QED BY <2>1
<1>4. n * (j + 1) <= n * k /\ n * (j + 1) = n * j + n
  BY <1>3, MulMono
<1>5. a + n = n * (j + 1) /\ a + n \in Nat /\ j + 1 \in Nat
  BY <1>1, <1>4
<1> QED BY <1>2, <1>4, <1>5, ModMultiple

\* What the linker guarantees of a header.
Linked(s) ==
    /\ s.type \in STRING /\ s.offset \in Nat /\ s.va \in Nat /\ s.filesz \in Nat /\ s.memsz \in Nat
    /\ s.w \in BOOLEAN
    /\ s.filesz <= s.memsz /\ Up(s) <= MEMSIZE /\ s.va % PAGESIZE = 0
    /\ s.type # PTYPE_LOAD => s.memsz = 0
    /\ Up(s) \in Nat /\ Up(s) % PAGESIZE = 0 /\ s.va + s.memsz <= Up(s)
    /\ ROUNDDOWN(s.va, PAGESIZE) = s.va /\ ROUNDDOWN(s.va, SECTORSIZE) = s.va
    /\ s.va % SECTORSIZE = 0 /\ Up(s) % SECTORSIZE = 0

\* Every header is as the linker guarantees, and segments lie one behind the other.
LEMMA HeaderIs ==
    ASSUME NEW im \in Images \cup Kernels
    PROVE  /\ Len(im) \in Nat /\ DOMAIN im = 1 .. Len(im)
           /\ \A j \in 1 .. Len(im) : Linked(im[j])
           /\ \A j \in 1 .. Len(im) : \A k \in (j + 1) .. Len(im) :
                im[j].type = PTYPE_LOAD /\ im[k].type = PTYPE_LOAD => Up(im[j]) <= im[k].va
<1>1. im \in Seq(Headers)
  BY ImageAssumption
<1>2. Len(im) \in Nat /\ DOMAIN im = 1 .. Len(im) /\ \A j \in 1 .. Len(im) : im[j] \in Headers
  BY <1>1, LenProperties, ElementOfSeq
<1>3. ASSUME NEW j \in 1 .. Len(im)
      PROVE  Linked(im[j])
  <2> DEFINE s == im[j]
  <2>1. /\ s.type \in STRING /\ s.offset \in Nat /\ s.va \in Nat /\ s.filesz \in Nat /\ s.memsz \in Nat
        /\ s.w \in BOOLEAN
    BY <1>2 DEF Headers
  <2>2. /\ s.filesz <= s.memsz /\ Up(s) <= MEMSIZE /\ s.va % PAGESIZE = 0
        /\ s.type # PTYPE_LOAD => s.memsz = 0
    BY <1>2, ImageAssumption DEF Up
  <2> HIDE DEF s
  <2>3. PAGESIZE \in Nat \ {0} /\ SECTORSIZE \in Nat \ {0} /\ s.va + s.memsz \in Nat
    BY <2>1, Sizes
  <2>4. /\ Up(s) \in Nat /\ Up(s) % PAGESIZE = 0 /\ s.va + s.memsz <= Up(s)
    BY <2>3, Rounded DEF Up
  <2>5. ROUNDDOWN(s.va, PAGESIZE) = s.va
    BY <2>1, <2>2, <2>3, Rounded
  <2>6. s.va % SECTORSIZE = 0 /\ Up(s) % SECTORSIZE = 0
    BY <2>1, <2>2, <2>4, PageOfSectors
  <2>7. ROUNDDOWN(s.va, SECTORSIZE) = s.va
    BY <2>1, <2>3, <2>6, Rounded
  <2>8. Linked(s)
    BY <2>1, <2>2, <2>4, <2>5, <2>6, <2>7 DEF Linked
  <2> QED BY <2>8 DEF s
<1>4. \A j \in 1 .. Len(im) : \A k \in (j + 1) .. Len(im) :
        im[j].type = PTYPE_LOAD /\ im[k].type = PTYPE_LOAD => Up(im[j]) <= im[k].va
  BY <1>2, ImageAssumption DEF Up
<1> QED BY <1>2, <1>3, <1>4

\* The header the loader looks at, and the segments before it.
LEMMA Current ==
    ASSUME Inv
    PROVE  /\ Len(image) \in Nat /\ i \in Nat /\ i \in 1 .. (Len(image) + 1)
           /\ \A j \in Before : /\ j \in 1 .. Len(image) /\ Linked(image[j]) /\ j < i
                                /\ image[j].type = PTYPE_LOAD
           /\ i <= Len(image) =>
                /\ i \in 1 .. Len(image) /\ Linked(ph)
                /\ ph.type = PTYPE_LOAD => \A j \in Before : Up(image[j]) <= ph.va
<1>1. image \in Images \cup Kernels /\ i \in 1 .. (Len(image) + 1)
  BY DEF Inv, TypeOK
<1>2. Len(image) \in Nat /\ \A j \in 1 .. Len(image) : Linked(image[j])
  BY <1>1, HeaderIs
<1>3. ASSUME NEW j \in Before
      PROVE  j \in 1 .. Len(image) /\ Linked(image[j]) /\ j < i /\ image[j].type = PTYPE_LOAD
  <2>1. j \in 1 .. Len(image) /\ j < i /\ image[j].type = PTYPE_LOAD
    BY <1>1, <1>2 DEF Before
  <2> QED BY <1>2, <2>1
<1>4. ASSUME i <= Len(image)
      PROVE  i \in 1 .. Len(image) /\ Linked(ph)
  <2>1. i \in 1 .. Len(image)
    BY <1>1, <1>2, <1>4
  <2> QED BY <1>2, <2>1 DEF ph
<1>5. ASSUME i <= Len(image), ph.type = PTYPE_LOAD, NEW j \in Before
      PROVE  Up(image[j]) <= ph.va
  <2>1. j \in 1 .. Len(image) /\ i \in (j + 1) .. Len(image) /\ image[j].type = PTYPE_LOAD
    BY <1>1, <1>2, <1>3, <1>4, <1>5
  <2> QED BY <1>1, <1>5, <2>1, HeaderIs DEF ph
<1> QED BY <1>1, <1>2, <1>3, <1>4, <1>5

\* A segment below everything that changes is kept.
LEMMA ExactKept ==
    ASSUME NEW s, Linked(s), NEW m, NEW n, NEW c \in Nat, Up(s) <= c,
           \A b \in Bytes : b < c => n[b] = m[b], Exact(m, s)
    PROVE  Exact(n, s)
<1>1. s.va \in Nat /\ s.memsz \in Nat /\ s.va + s.memsz <= Up(s) /\ Up(s) <= MEMSIZE /\ Up(s) \in Nat
  BY DEF Linked
<1> SUFFICES ASSUME NEW k \in 0 .. (s.memsz - 1)
             PROVE  n[s.va + k] = IF k < s.filesz THEN file(s.offset + k) ELSE 0
  BY DEF Exact
<1>2. s.va + k \in Bytes /\ s.va + k < c
  BY <1>1, Sizes DEF Bytes
<1>3. n[s.va + k] = m[s.va + k]
  BY <1>2
<1> QED BY <1>3 DEF Exact

\* Done with one header more.
LEMMA BeforeNext ==
    ASSUME Inv, i' = i + 1, image' = image, NEW j \in Before'
    PROVE  j \in Before \/ (j = i /\ image[i].type = PTYPE_LOAD)
<1>1. i \in Nat
  BY Current
<1>2. j \in 1 .. i /\ image[j].type = PTYPE_LOAD
  BY <1>1 DEF Before
<1> QED BY <1>1, <1>2 DEF Before

-----------------------------------------------------------------------------
(* boot.c *)

\* A segment is begun.
LEMMA ReadSegmentInv ==
    ASSUME Inv, ReadSegment
    PROVE  Inv'
<1>1. /\ mode = "boot" /\ i <= Len(image) /\ ptr' = ROUNDDOWN(ph.va, SECTORSIZE)
      /\ sect' = ph.offset \div SECTORSIZE + 1 /\ mode' = "read"
      /\ UNCHANGED <<image, i, mem, rights, room, brk>>
  BY DEF ReadSegment
<1>2. Linked(ph) /\ ph' = ph /\ Before' = Before
  BY <1>1, Current DEF ph, Before
<1>3. /\ ph.va \in Nat /\ ph.offset \in Nat /\ ptr' = ph.va
      /\ ph.va % SECTORSIZE = 0 /\ ph.va <= Up(ph) /\ Up(ph) <= MEMSIZE /\ Up(ph) \in Nat
  BY <1>1, <1>2 DEF Linked
<1>9. ph.offset % SECTORSIZE = 0
  <2>1. image \in Kernels /\ image \in Images \cup Kernels
    BY <1>1 DEF Inv
  <2>2. i \in DOMAIN image
    BY <1>1, <2>1, Current, HeaderIs
  <2> QED BY <2>1, <2>2, KernelAssumption DEF ph
<1>4. SECTORSIZE \in Nat \ {0} /\ MEMSIZE \in Nat
  BY Sizes
<1>5. (sect' - 1) * SECTORSIZE = ph.offset /\ sect' \in Nat
  <2> DEFINE q == ph.offset \div SECTORSIZE
  <2>1. q \in Nat /\ ph.offset = SECTORSIZE * q + 0
    BY <1>3, <1>4, <1>9, DivMod
  <2>2. sect' = q + 1
    BY <1>1
  <2> HIDE DEF q
  <2> QED BY <1>4, <2>1, <2>2
<1>6. Reading'
  <2>1. ph.offset = ph.offset + (ph.va - ph.va) /\ ph.va .. (ph.va - 1) = {}
    BY <1>3
  <2> QED BY <1>1, <1>2, <1>3, <1>5, <2>1 DEF Reading, Up
<1>7. TypeOK'
  <2>1. ptr' \in 0 .. MEMSIZE
    BY <1>3, <1>4
  <2> QED BY <1>1, <1>5, <2>1 DEF Inv, TypeOK
<1>8. \A j \in Before' : Exact(mem', image'[j])
  BY <1>1, <1>2 DEF Inv
<1> QED BY <1>1, <1>6, <1>7, <1>8 DEF Inv

\* A sector is read: it goes on where the last one ended, and ends in the segment's
\* last page.
LEMMA ReadSectInv ==
    ASSUME Inv, ReadSect
    PROVE  Inv'
<1>1. /\ mode = "read" /\ ptr < end_file /\ ptr' = ptr + SECTORSIZE /\ sect' = sect + 1
      /\ mem' = [b \in Bytes |->
                   IF b \in ptr .. (ptr + SECTORSIZE - 1)
                   THEN file((sect - 1) * SECTORSIZE + b - ptr) ELSE mem[b]]
      /\ UNCHANGED <<image, i, rights, room, brk, mode>>
  BY DEF ReadSect, next_sect
<1>2. /\ Reading /\ sect \in Nat /\ ptr \in Nat /\ mem \in [Bytes -> Int]
  BY <1>1 DEF Inv, TypeOK
<1>3. Linked(ph) /\ ph' = ph /\ Before' = Before
  BY <1>1, <1>2, Current DEF ph, Before, Reading
<1>4. /\ ph.va \in Nat /\ ph.offset \in Nat /\ ph.filesz \in Nat /\ ph.memsz \in Nat
      /\ ph.filesz <= ph.memsz /\ ph.va + ph.memsz <= Up(ph)
      /\ Up(ph) <= MEMSIZE /\ Up(ph) \in Nat /\ Up(ph) % SECTORSIZE = 0
      /\ (ph.type # PTYPE_LOAD => ph.memsz = 0)
  BY <1>3 DEF Linked
<1>5. SECTORSIZE \in Nat \ {0} /\ MEMSIZE \in Nat
  BY Sizes
<1>6. /\ ptr % SECTORSIZE = 0 /\ ph.va <= ptr
      /\ (sect - 1) * SECTORSIZE = ph.offset + (ptr - ph.va)
  BY <1>2 DEF Reading
<1>7. ptr < Up(ph) /\ ph.type = PTYPE_LOAD
  BY <1>1, <1>2, <1>4, <1>6 DEF end_file
<1>8. ptr' <= Up(ph) /\ ptr' % SECTORSIZE = 0 /\ ptr' \in Nat
  <2>1. ptr + SECTORSIZE <= Up(ph) /\ (ptr + SECTORSIZE) % SECTORSIZE = 0
    BY <1>2, <1>4, <1>5, <1>6, <1>7, NextMultiple
  <2> QED BY <1>1, <1>2, <1>5, <2>1
<1>9. (sect' - 1) * SECTORSIZE = ph.offset + (ptr' - ph.va)
  <2>1. sect * SECTORSIZE = (sect - 1) * SECTORSIZE + SECTORSIZE
    BY <1>2, <1>5
  <2>2. sect' - 1 = sect /\ ptr' = ptr + SECTORSIZE
    BY <1>1, <1>2
  <2>3. ph.offset + (ptr - ph.va) + SECTORSIZE = ph.offset + ((ptr + SECTORSIZE) - ph.va)
    BY <1>2, <1>4, <1>5
  <2> QED BY <1>6, <2>1, <2>2, <2>3
<1>10. ASSUME NEW b \in Bytes
       PROVE  /\ b < ptr => mem'[b] = mem[b]
              /\ ptr <= b /\ b < ptr' => mem'[b] = file(ph.offset + (b - ph.va))
              /\ mem'[b] \in Int
  <2>1. b \in Nat
    BY <1>5 DEF Bytes
  <2>2. (sect - 1) * SECTORSIZE + b - ptr = ph.offset + (b - ph.va)
    BY <1>2, <1>4, <1>6, <2>1
  <2>3. mem'[b] = IF ptr <= b /\ b < ptr' THEN file(ph.offset + (b - ph.va)) ELSE mem[b]
    <3>1. b \in ptr .. (ptr + SECTORSIZE - 1) <=> ptr <= b /\ b < ptr'
      BY <1>1, <1>2, <1>5, <2>1
    <3> QED BY <1>1, <2>2, <3>1
  <2>4. file(ph.offset + (b - ph.va)) \in Int
    BY <1>4, <2>1 DEF file
  <2>5. mem[b] \in Int
    BY <1>2
  <2> QED BY <1>2, <2>1, <2>3, <2>4, <2>5
<1>11. \A b \in ph.va .. (ptr' - 1) : mem'[b] = file(ph.offset + (b - ph.va))
  <2> SUFFICES ASSUME NEW b \in ph.va .. (ptr' - 1)
               PROVE  mem'[b] = file(ph.offset + (b - ph.va))
    OBVIOUS
  <2>0. b \in Nat /\ b < ptr'
    <3>1. ph.va \in Nat /\ ptr' \in Nat
      BY <1>4, <1>8
    <3>2. \A x \in Nat, y \in Nat : \A c \in x .. (y - 1) : c \in Nat /\ c < y
      OBVIOUS
    <3> QED BY <3>1, <3>2, Zenon
  <2>1. b \in Bytes /\ b \in Nat
    BY <1>4, <1>5, <1>8, <2>0 DEF Bytes
  <2>2. CASE b < ptr
    <3>1. b \in ph.va .. (ptr - 1)
      BY <1>2, <1>4, <2>1, <2>2
    <3>2. mem[b] = file(ph.offset + (b - ph.va))
      BY <1>2, <3>1 DEF Reading
    <3> QED BY <1>10, <2>1, <2>2, <3>2
  <2>3. CASE ptr <= b
    BY <1>10, <2>0, <2>1, <2>3
  <2> QED BY <1>2, <2>1, <2>2, <2>3
<1>12. Reading'
  <2>1. ph.va <= ptr' /\ i <= Len(image)
    BY <1>1, <1>2, <1>4, <1>5, <1>6 DEF Reading
  <2> QED BY <1>1, <1>3, <1>8, <1>9, <1>11, <2>1 DEF Reading, Up
<1>13. \A j \in Before : Exact(mem', image[j])
  <2> SUFFICES ASSUME NEW j \in Before
               PROVE  Exact(mem', image[j])
    OBVIOUS
  <2>1. Linked(image[j]) /\ Exact(mem, image[j]) /\ Up(image[j]) <= ph.va /\ Up(image[j]) \in Nat
    BY <1>2, <1>7, Current DEF Inv, Reading, Linked
  <2>2. Up(image[j]) <= ptr
    BY <1>2, <1>4, <1>6, <2>1
  <2> QED BY <1>2, <1>10, <2>1, <2>2, ExactKept
<1>14. TypeOK'
  <2>1. mem' \in [Bytes -> Int]
    BY <1>1, <1>10
  <2>2. ptr' \in 0 .. MEMSIZE /\ sect' \in Nat
    BY <1>1, <1>2, <1>4, <1>5, <1>8
  <2> QED BY <1>1, <2>1, <2>2 DEF Inv, TypeOK
<1> QED BY <1>1, <1>3, <1>12, <1>13, <1>14 DEF Inv

\* The rest of a segment is cleared, and boot goes on to the next header.
LEMMA ClearBssInv ==
    ASSUME Inv, ClearBss
    PROVE  Inv'
<1>1. /\ mode = "read" /\ ptr >= end_file /\ i' = i + 1 /\ mode' = "boot"
      /\ mem' = [b \in Bytes |-> IF b \in end_file .. (end_mem - 1) THEN 0 ELSE mem[b]]
      /\ UNCHANGED <<image, ptr, sect, rights, room, brk>>
  BY DEF ClearBss, next_header
<1>2. /\ Reading /\ ptr \in Nat /\ mem \in [Bytes -> Int] /\ i <= Len(image)
  BY <1>1 DEF Inv, TypeOK, Reading
<1>3. Linked(ph)
  BY <1>2, Current
<1>4. /\ ph.va \in Nat /\ ph.offset \in Nat /\ ph.filesz \in Nat /\ ph.memsz \in Nat
      /\ ph.filesz <= ph.memsz /\ ph.va + ph.memsz <= Up(ph)
      /\ Up(ph) <= MEMSIZE /\ Up(ph) \in Nat
      /\ (ph.type # PTYPE_LOAD => ph.memsz = 0)
  BY <1>3 DEF Linked
<1>5. MEMSIZE \in Nat /\ end_file = ph.va + ph.filesz /\ end_mem = ph.va + ph.memsz
  BY Sizes DEF end_file, end_mem
<1>6. ASSUME NEW b \in Bytes
      PROVE  /\ mem'[b] = IF end_file <= b /\ b < end_mem THEN 0 ELSE mem[b]
             /\ mem'[b] \in Int
  <2>1. b \in Nat
    BY <1>5 DEF Bytes
  <2>2. b \in end_file .. (end_mem - 1) <=> end_file <= b /\ b < end_mem
    BY <1>4, <1>5, <2>1
  <2>3. mem[b] \in Int
    BY <1>2
  <2> QED BY <1>1, <2>2, <2>3
<1>7. ASSUME ph.type = PTYPE_LOAD
      PROVE  Exact(mem', ph)
  <2> SUFFICES ASSUME NEW k \in 0 .. (ph.memsz - 1)
               PROVE  mem'[ph.va + k] = IF k < ph.filesz THEN file(ph.offset + k) ELSE 0
    BY DEF Exact
  <2>1. ph.va + k \in Bytes /\ ph.va + k \in Nat /\ ph.va + k < end_mem
    BY <1>4, <1>5 DEF Bytes
  <2>2. CASE k < ph.filesz
    <3>1. ph.va + k \in ph.va .. (ptr - 1) /\ ph.va + k < end_file
      <4>1. ptr >= ph.va + ph.filesz
        BY <1>1, <1>5
      <4>2. ph.va + k < ph.va + ph.filesz
        BY <1>4, <2>2
      <4>3. ptr \in Nat
        BY <1>2
      <4> QED BY <1>4, <1>5, <4>1, <4>2, <4>3
    <3>2. mem[ph.va + k] = file(ph.offset + ((ph.va + k) - ph.va))
      BY <1>2, <3>1 DEF Reading
    <3>3. (ph.va + k) - ph.va = k
      BY <1>4
    <3>4. ~(end_file <= ph.va + k)
      BY <1>4, <1>5, <3>1
    <3> QED BY <1>6, <2>1, <2>2, <3>2, <3>3, <3>4
  <2>3. CASE ~(k < ph.filesz)
    <3>1. end_file <= ph.va + k
      BY <1>4, <1>5, <2>3
    <3> QED BY <1>6, <2>1, <2>3, <3>1
  <2> QED BY <2>2, <2>3
<1>8. ASSUME NEW j \in Before
      PROVE  Exact(mem', image[j])
  <2>1. Linked(image[j]) /\ Exact(mem, image[j]) /\ Up(image[j]) \in Nat
    BY Current DEF Inv, Linked
  <2>2. CASE ph.type = PTYPE_LOAD
    <3>1. Up(image[j]) <= ph.va
      BY <1>2, <2>2, Current
    <3>2. \A b \in Bytes : b < ph.va => mem'[b] = mem[b]
      <4> SUFFICES ASSUME NEW b \in Bytes, b < ph.va
                   PROVE  mem'[b] = mem[b]
        OBVIOUS
      <4>1. b \in Nat
        BY <1>5 DEF Bytes
      <4>2. ~(end_file <= b)
        BY <1>4, <1>5, <4>1
      <4> QED BY <1>6, <4>2
    <3> QED BY <1>4, <2>1, <3>1, <3>2, ExactKept
  <2>3. CASE ph.type # PTYPE_LOAD
    <3>1. \A b \in Bytes : mem'[b] = mem[b]
      <4> SUFFICES ASSUME NEW b \in Bytes
                   PROVE  mem'[b] = mem[b]
        OBVIOUS
      <4>1. b \in Nat
        BY <1>5 DEF Bytes
      <4>2. ~(end_file <= b /\ b < end_mem)
        BY <1>4, <1>5, <2>3, <4>1
      <4> QED BY <1>6, <4>2
    <3>2. Up(image[j]) <= Up(image[j])
      BY <2>1
    <3> QED BY <2>1, <3>1, <3>2, ExactKept
  <2> QED BY <2>2, <2>3
<1>9. \A j \in Before' : Exact(mem', image'[j])
  BY <1>1, <1>7, <1>8, BeforeNext DEF ph
<1>10. TypeOK'
  <2>1. mem' \in [Bytes -> Int]
    BY <1>1, <1>6
  <2>2. i' \in 1 .. (Len(image') + 1)
    BY <1>1, <1>2, Current
  <2> QED BY <1>1, <2>1, <2>2 DEF Inv, TypeOK
<1> QED BY <1>1, <1>9, <1>10 DEF Inv

\* The steps of boot that read nothing.
LEMMA BootInv ==
    ASSUME Inv, BadMagic \/ Jump
    PROVE  Inv'
<1>1. /\ UNCHANGED <<image, i, mem, ptr, sect, rights, room, brk>>
      /\ mode' = "hang" \/ (mode' = "booted" /\ i > Len(image))
  BY DEF BadMagic, Jump
<1>2. Before' = Before /\ (i > Len(image) => i = Len(image) + 1)
  BY <1>1, Current DEF Before
<1>3. TypeOK'
  BY <1>1 DEF Inv, TypeOK
<1> QED BY <1>1, <1>2, <1>3 DEF Inv

-----------------------------------------------------------------------------
(* k-loader.c *)

\* The page of a byte of a segment begins in the segment, and memory has it.
LEMMA PageOf ==
    ASSUME NEW s, Linked(s), NEW k \in 0 .. (s.memsz - 1)
    PROVE  /\ (s.va + k) \div PAGESIZE \in VPages
           /\ s.va <= ((s.va + k) \div PAGESIZE) * PAGESIZE
           /\ ((s.va + k) \div PAGESIZE) * PAGESIZE <= s.va + k
           /\ s.va + k < s.va + s.memsz /\ s.va + k < Up(s) /\ s.va + k \in Bytes
<1> DEFINE b == s.va + k
           v == b \div PAGESIZE
           q == MEMSIZE \div PAGESIZE
<1>1. /\ PAGESIZE \in Nat \ {0} /\ MEMSIZE \in Nat /\ s.va \in Nat /\ s.memsz \in Nat /\ Up(s) \in Nat
      /\ Up(s) <= MEMSIZE /\ s.va + s.memsz <= Up(s) /\ s.va % PAGESIZE = 0 /\ Up(s) % PAGESIZE = 0
  BY Sizes DEF Linked
<1>2. b \in Nat /\ b < s.va + s.memsz /\ b < Up(s) /\ s.va <= b
  BY <1>1
<1> HIDE DEF b
<1>3. v \in Nat /\ PAGESIZE * v <= b /\ b < PAGESIZE * v + PAGESIZE /\ PAGESIZE * v \in Nat
  <2>1. v \in Nat /\ b % PAGESIZE \in 0 .. (PAGESIZE - 1) /\ b = PAGESIZE * v + (b % PAGESIZE)
    BY <1>1, <1>2, DivMod
  <2> HIDE DEF v
  <2>2. PAGESIZE * v \in Nat
    BY <1>1, <2>1
  <2> QED BY <1>1, <2>1, <2>2
<1>4. q \in Nat /\ MEMSIZE < PAGESIZE * q + PAGESIZE /\ PAGESIZE * q \in Nat
  <2>1. q \in Nat /\ MEMSIZE % PAGESIZE \in 0 .. (PAGESIZE - 1) /\ MEMSIZE = PAGESIZE * q + (MEMSIZE % PAGESIZE)
    BY <1>1, DivMod
  <2> HIDE DEF q
  <2>2. PAGESIZE * q \in Nat
    BY <1>1, <2>1
  <2> QED BY <1>1, <2>1, <2>2
<1> HIDE DEF v, q
<1>5. (PAGESIZE * v) % PAGESIZE = 0
  BY <1>1, <1>3, ModMultiple
<1>6. s.va <= PAGESIZE * v
  <2>1. ASSUME PAGESIZE * v < s.va
        PROVE  FALSE
    <3>1. PAGESIZE * v + PAGESIZE <= s.va
      BY <1>1, <1>3, <1>5, <2>1, NextMultiple
    <3> QED BY <1>1, <1>2, <1>3, <3>1
  <2> QED BY <1>1, <1>3, <2>1
<1>7. PAGESIZE * v + PAGESIZE <= MEMSIZE
  <2>1. PAGESIZE * v < Up(s)
    BY <1>1, <1>2, <1>3
  <2>2. PAGESIZE * v + PAGESIZE <= Up(s)
    BY <1>1, <1>3, <1>5, <2>1, NextMultiple
  <2> QED BY <1>1, <1>3, <2>2
<1>8. v < q
  <2>1. ASSUME q <= v
        PROVE  FALSE
    <3>1. PAGESIZE * q <= PAGESIZE * v
      BY <1>1, <1>3, <1>4, <2>1, MulMono
    <3> QED BY <1>1, <1>3, <1>4, <1>7, <3>1
  <2> QED BY <1>3, <1>4, <2>1
<1>9. v \in VPages /\ v * PAGESIZE = PAGESIZE * v
  <2>1. v \in 0 .. (q - 1)
    BY <1>3, <1>4, <1>8
  <2>2. v * PAGESIZE = PAGESIZE * v
    BY <1>1, <1>3
  <2> QED BY <2>1, <2>2 DEF VPages, q
<1>10. b \in Bytes
  BY <1>1, <1>2 DEF Bytes
<1> QED BY <1>2, <1>3, <1>6, <1>9, <1>10 DEF v, b

\* The pages that program_load_segment allocates.
LEMMA SegmentPages ==
    ASSUME Linked(ph)
    PROVE  /\ IsFiniteSet(segment_pages) /\ Cardinality(segment_pages) \in Nat
           /\ \A v \in VPages : v \in segment_pages <=> ph.va <= v * PAGESIZE /\ v * PAGESIZE < end_mem
           /\ \A v \in VPages : v \in Nat /\ v * PAGESIZE \in Nat
<1>1. MEMSIZE \in Nat /\ PAGESIZE \in Nat \ {0} /\ ROUNDDOWN(ph.va, PAGESIZE) = ph.va /\ ph.va \in Nat
  BY Sizes DEF Linked
<1>2. MEMSIZE \div PAGESIZE \in Nat
  BY <1>1, DivMod
<1>3. ASSUME NEW v \in VPages
      PROVE  v \in Nat /\ v * PAGESIZE \in Nat
  <2>1. v \in Nat
    BY <1>2 DEF VPages
  <2> QED BY <1>1, <2>1
<1>4. IsFiniteSet(VPages)
  BY <1>2, FS_Interval DEF VPages
<1>5. segment_pages \in SUBSET VPages
  BY DEF segment_pages
<1>6. IsFiniteSet(segment_pages)
  BY <1>4, <1>5, FS_Subset
<1>7. Cardinality(segment_pages) \in Nat
  BY <1>6, FS_CardinalityType
<1>8. ASSUME NEW v \in VPages
      PROVE  v \in segment_pages <=> ph.va <= v * PAGESIZE /\ v * PAGESIZE < end_mem
  BY <1>1, <1>3 DEF segment_pages
<1> QED BY <1>3, <1>6, <1>7, <1>8

\* What program_load_segment leaves in memory.
LEMMA LoadedIs ==
    ASSUME Linked(ph), mem \in [Bytes -> Int], NEW b \in Bytes
    PROVE  /\ b < ph.va => loaded(b) = mem[b]
           /\ ph.va <= b /\ b < end_file => loaded(b) = file(ph.offset + (b - ph.va))
           /\ end_file <= b /\ b < end_mem => loaded(b) = 0
           /\ loaded(b) \in Int
<1>1. /\ ROUNDDOWN(ph.va, PAGESIZE) = ph.va /\ ph.va \in Nat /\ ph.offset \in Nat
      /\ ph.filesz \in Nat /\ ph.memsz \in Nat /\ ph.filesz <= ph.memsz
      /\ PAGESIZE \in Nat \ {0} /\ MEMSIZE \in Nat /\ JUNK \in Int
  BY Sizes DEF Linked, JUNK
<1>2. b \in Nat /\ mem[b] \in Int
  BY <1>1 DEF Bytes
<1>3. end_file = ph.va + ph.filesz /\ end_mem = ph.va + ph.memsz /\ end_file \in Nat /\ end_mem \in Nat
  BY <1>1 DEF end_file, end_mem
<1>4. ph.offset + b - ph.va = ph.offset + (b - ph.va) /\ file(ph.offset + (b - ph.va)) \in Int
  BY <1>1, <1>2 DEF file
<1>5. b \in end_file .. (end_mem - 1) <=> end_file <= b /\ b < end_mem
  BY <1>2, <1>3
<1>6. loaded(b) = IF b >= ph.va /\ b < end_file THEN file(ph.offset + (b - ph.va))
                  ELSE IF end_file <= b /\ b < end_mem THEN 0
                  ELSE IF b \div PAGESIZE \in segment_pages THEN JUNK ELSE mem[b]
  BY <1>1, <1>4, <1>5 DEF loaded
<1>7. ASSUME b < ph.va
      PROVE  b \div PAGESIZE \notin segment_pages
  <2> DEFINE v == b \div PAGESIZE
  <2>1. v \in Nat /\ b % PAGESIZE \in 0 .. (PAGESIZE - 1) /\ b = PAGESIZE * v + (b % PAGESIZE)
    BY <1>1, <1>2, DivMod
  <2> HIDE DEF v
  <2>2. PAGESIZE * v \in Nat /\ v * PAGESIZE = PAGESIZE * v
    BY <1>1, <2>1
  <2>3. v * PAGESIZE <= b
    BY <1>1, <2>1, <2>2
  <2>4. ~(ph.va <= v * PAGESIZE)
    BY <1>1, <1>2, <1>7, <2>2, <2>3
  <2>5. v \notin segment_pages
    BY <1>1, <2>4 DEF segment_pages
  <2> QED BY <2>5 DEF v
<1>8. b < ph.va => loaded(b) = mem[b]
  BY <1>1, <1>2, <1>3, <1>6, <1>7
<1>9. ph.va <= b /\ b < end_file => loaded(b) = file(ph.offset + (b - ph.va))
  BY <1>1, <1>2, <1>6
<1>10. end_file <= b /\ b < end_mem => loaded(b) = 0
  BY <1>2, <1>3, <1>6
<1>11. loaded(b) \in Int
  BY <1>1, <1>2, <1>4, <1>6
<1> QED BY <1>8, <1>9, <1>10, <1>11

\* A segment is loaded behind all others, and the break goes behind it.
LEMMA LoadSegmentInv ==
    ASSUME Inv, LoadSegment
    PROVE  Inv'
<1>1. /\ mode = "load" /\ i <= Len(image) /\ ph.type = PTYPE_LOAD /\ Cardinality(segment_pages) <= room
      /\ room' = room - Cardinality(segment_pages) /\ brk' = Up(ph) /\ i' = i + 1
      /\ UNCHANGED <<image, ptr, sect, mode>>
  BY DEF LoadSegment, Loading, enough_room, new_break, next_header, Up, end_mem
<1>2. /\ mem' = [b \in Bytes |-> loaded(b)]
      /\ rights' = [v \in VPages |-> IF v \in segment_pages THEN segment_rights ELSE rights[v]]
  BY DEF LoadSegment
<1>3. /\ mem \in [Bytes -> Int] /\ rights \in [VPages -> {"none", "read", "write"}]
      /\ room \in Nat /\ brk \in Nat /\ Breaking
  BY <1>1 DEF Inv, TypeOK
<1>4. Linked(ph) /\ (\A j \in Before : Up(image[j]) <= ph.va) /\ i \in 1 .. Len(image) /\ Len(image) \in Nat
  BY <1>1, Current
<1>5. /\ ph.va \in Nat /\ ph.offset \in Nat /\ ph.filesz \in Nat /\ ph.memsz \in Nat
      /\ ph.filesz <= ph.memsz /\ ph.va + ph.memsz <= Up(ph) /\ Up(ph) \in Nat
      /\ Up(ph) % PAGESIZE = 0
  BY <1>4 DEF Linked
<1>6. end_file = ph.va + ph.filesz /\ end_mem = ph.va + ph.memsz
  BY DEF end_file, end_mem
<1>7. Exact(mem', ph)
  <2> SUFFICES ASSUME NEW k \in 0 .. (ph.memsz - 1)
               PROVE  mem'[ph.va + k] = IF k < ph.filesz THEN file(ph.offset + k) ELSE 0
    BY DEF Exact
  <2>1. ph.va + k \in Bytes
    BY <1>4, PageOf
  <2>2. mem'[ph.va + k] = loaded(ph.va + k)
    BY <1>2, <2>1
  <2>3. ph.va <= ph.va + k /\ ph.va + k < end_mem /\ (ph.va + k) - ph.va = k
    BY <1>5, <1>6
  <2>4. CASE k < ph.filesz
    <3>1. ph.va + k < end_file
      BY <1>5, <1>6, <2>4
    <3>2. loaded(ph.va + k) = file(ph.offset + ((ph.va + k) - ph.va))
      BY <1>3, <1>4, <2>1, <2>3, <3>1, LoadedIs
    <3> QED BY <2>2, <2>3, <2>4, <3>2
  <2>5. CASE ~(k < ph.filesz)
    <3>1. end_file <= ph.va + k
      BY <1>5, <1>6, <2>5
    <3>2. loaded(ph.va + k) = 0
      BY <1>3, <1>4, <2>1, <2>3, <3>1, LoadedIs
    <3> QED BY <2>2, <2>5, <3>2
  <2> QED BY <2>4, <2>5
<1>8. ASSUME NEW j \in Before
      PROVE  Exact(mem', image[j])
  <2>1. Linked(image[j]) /\ Exact(mem, image[j]) /\ Up(image[j]) <= ph.va
    BY <1>4, Current DEF Inv
  <2>2. \A b \in Bytes : b < ph.va => mem'[b] = mem[b]
    BY <1>2, <1>3, <1>4, LoadedIs
  <2> QED BY <1>5, <2>1, <2>2, ExactKept
<1>9. \A j \in Before' : Exact(mem', image'[j])
  BY <1>1, <1>7, <1>8, BeforeNext DEF ph
<1>10. TypeOK'
  <2>1. mem' \in [Bytes -> Int]
    BY <1>2, <1>3, <1>4, LoadedIs
  <2>2. rights' \in [VPages -> {"none", "read", "write"}]
    BY <1>2, <1>3 DEF segment_rights
  <2>3. room' \in Nat
    BY <1>1, <1>3, <1>4, SegmentPages
  <2>4. i' \in 1 .. (Len(image') + 1) /\ brk' \in Nat
    BY <1>1, <1>4, <1>5
  <2> QED BY <1>1, <2>1, <2>2, <2>3, <2>4 DEF Inv, TypeOK
<1>11. Allowed(rights', ph)
  <2> SUFFICES ASSUME NEW k \in 0 .. (ph.memsz - 1)
               PROVE  rights'[(ph.va + k) \div PAGESIZE] = IF ph.w THEN "write" ELSE "read"
    BY DEF Allowed
  <2> DEFINE v == (ph.va + k) \div PAGESIZE
  <2>1. /\ v \in VPages /\ ph.va <= v * PAGESIZE /\ v * PAGESIZE <= ph.va + k
        /\ ph.va + k < ph.va + ph.memsz
    BY <1>4, PageOf
  <2> HIDE DEF v
  <2>2. v * PAGESIZE \in Nat
    BY <1>4, <2>1, SegmentPages
  <2>3. v * PAGESIZE < end_mem
    BY <1>5, <1>6, <2>1, <2>2
  <2>4. v \in segment_pages
    BY <1>4, <2>1, <2>3, SegmentPages
  <2>5. rights'[v] = segment_rights
    BY <1>2, <2>1, <2>4
  <2> QED BY <2>5 DEF v, segment_rights
<1>12. ASSUME NEW j \in Before
       PROVE  image[j].va + image[j].memsz <= Up(ph) /\ Allowed(rights', image[j])
  <2> DEFINE s == image[j]
  <2>1. Linked(s) /\ Up(s) <= ph.va /\ Allowed(rights, s)
    BY <1>3, <1>4, Current DEF Breaking
  <2> HIDE DEF s
  <2>2. s.va \in Nat /\ s.memsz \in Nat /\ Up(s) \in Nat /\ s.va + s.memsz <= Up(s)
    BY <2>1 DEF Linked
  <2>3. s.va + s.memsz <= Up(ph)
    BY <1>5, <2>1, <2>2
  <2>4. ASSUME NEW k \in 0 .. (s.memsz - 1)
        PROVE  rights'[(s.va + k) \div PAGESIZE] = IF s.w THEN "write" ELSE "read"
    <3> DEFINE v == (s.va + k) \div PAGESIZE
    <3>1. v \in VPages /\ v * PAGESIZE <= s.va + k /\ s.va + k < Up(s)
      BY <2>1, PageOf
    <3>2. rights[v] = IF s.w THEN "write" ELSE "read"
      BY <2>1 DEF Allowed
    <3> HIDE DEF v
    <3>3. v * PAGESIZE \in Nat
      BY <1>4, <3>1, SegmentPages
    <3>4. ~(ph.va <= v * PAGESIZE)
      BY <1>5, <2>1, <2>2, <3>1, <3>3
    <3>5. v \notin segment_pages
      BY <1>4, <3>1, <3>4, SegmentPages
    <3>6. rights'[v] = rights[v]
      BY <1>2, <3>1, <3>5
    <3> QED BY <3>2, <3>6 DEF v
  <2> QED BY <2>3, <2>4 DEF Allowed, s
<1>13. \A j \in Before' : image'[j].va + image'[j].memsz <= brk' /\ Allowed(rights', image'[j])
  BY <1>1, <1>5, <1>11, <1>12, BeforeNext DEF ph
<1>14. ASSUME NEW v \in VPages, rights'[v] # "none"
       PROVE  v * PAGESIZE < brk'
  <2>1. v * PAGESIZE \in Nat
    BY <1>4, SegmentPages
  <2>2. CASE v \in segment_pages
    <3>1. v * PAGESIZE < end_mem
      BY <1>4, <2>2, SegmentPages
    <3> QED BY <1>1, <1>5, <1>6, <2>1, <3>1
  <2>3. CASE v \notin segment_pages
    <3>1. rights[v] # "none"
      BY <1>2, <1>14, <2>3
    <3>2. v * PAGESIZE < brk
      BY <1>3, <3>1 DEF Breaking
    <3>3. i \in i .. Len(image)
      BY <1>4
    <3>4. brk <= ph.va
      BY <1>1, <1>3, <3>3 DEF Breaking, ph
    <3> QED BY <1>1, <1>3, <1>5, <2>1, <3>2, <3>4
  <2> QED BY <2>2, <2>3
<1>15. ASSUME NEW k \in (i + 1) .. Len(image), image[k].type = PTYPE_LOAD
       PROVE  Up(ph) <= image[k].va
  <2>1. image \in Images \cup Kernels
    BY DEF Inv
  <2> QED BY <1>1, <1>4, <1>15, <2>1, HeaderIs DEF ph
<1>16. Breaking'
  <2>1. brk' % PAGESIZE = 0
    BY <1>1, <1>5
  <2>2. \A v \in VPages : rights'[v] # "none" => v * PAGESIZE < brk'
    BY <1>14
  <2>3. \A k \in i' .. Len(image') : image'[k].type = PTYPE_LOAD => brk' <= image'[k].va
    BY <1>1, <1>15
  <2> QED BY <1>13, <2>1, <2>2, <2>3 DEF Breaking
<1> QED BY <1>1, <1>9, <1>10, <1>16 DEF Inv

\* Memory is short: what is loaded stays as it is.
LEMMA NoRoomInv ==
    ASSUME Inv, NoRoom
    PROVE  Inv'
<1>1. /\ UNCHANGED <<image, i, mem, ptr, sect, brk>> /\ mode' = "failed" /\ room' = 0
      /\ rights' = [v \in VPages |->
                      IF v \in segment_pages /\ Cardinality({w \in segment_pages : w < v}) < room
                      THEN "write" ELSE rights[v]]
  BY DEF NoRoom
<1>2. rights' \in [VPages -> {"none", "read", "write"}]
  BY <1>1 DEF Inv, TypeOK
<1>3. TypeOK'
  BY <1>1, <1>2 DEF Inv, TypeOK
<1>4. \A j \in Before' : Exact(mem', image'[j])
  BY <1>1 DEF Inv, Before
<1> QED BY <1>1, <1>3, <1>4 DEF Inv

\* A header that is not to be loaded, and the end of the headers.
LEMMA LoadInv ==
    ASSUME Inv, SkipSegment \/ SetEntry
    PROVE  Inv'
<1>1. mode = "load" /\ UNCHANGED <<image, mem, ptr, sect, rights, room, brk>>
  BY DEF SkipSegment, SetEntry
<1>2. /\ i \in Nat /\ Len(image) \in Nat /\ i \in 1 .. (Len(image) + 1) /\ Breaking
  BY <1>1, Current DEF Inv
<1>3. CASE SkipSegment
  <2>1. mode' = "load" /\ i <= Len(image) /\ i' = i + 1 /\ image[i].type # PTYPE_LOAD
    BY <1>1, <1>3 DEF SkipSegment, next_header, ph
  <2>2. \A j \in Before' : j \in Before
    BY <1>1, <2>1, BeforeNext
  <2>3. \A k \in i' .. Len(image) : k \in i .. Len(image)
    BY <1>2, <2>1
  <2>4. Breaking'
    BY <1>1, <1>2, <2>2, <2>3 DEF Breaking
  <2>5. i' \in 1 .. (Len(image') + 1)
    BY <1>1, <1>2, <2>1
  <2>6. TypeOK'
    BY <1>1, <2>1, <2>5 DEF Inv, TypeOK
  <2> QED BY <1>1, <2>1, <2>2, <2>4, <2>6 DEF Inv
<1>4. CASE SetEntry
  <2>1. mode' = "loaded" /\ i' = i /\ i > Len(image)
    BY <1>4 DEF SetEntry
  <2>2. Before' = Before /\ i = Len(image) + 1
    BY <1>1, <1>2, <2>1 DEF Before
  <2>3. Breaking'
    BY <1>1, <1>2, <2>1, <2>2 DEF Breaking
  <2>4. TypeOK'
    BY <1>1, <2>1 DEF Inv, TypeOK
  <2> QED BY <1>1, <2>1, <2>2, <2>3, <2>4 DEF Inv
<1> QED BY <1>3, <1>4

-----------------------------------------------------------------------------
(* Theorems *)

\* The invariant holds through every read, copy and failure of both loaders.
THEOREM InvHolds == Spec => []Inv
<1>1. Init => Inv
  <2> SUFFICES ASSUME Init
               PROVE  Inv
    OBVIOUS
  <2>0. image \in Images \cup Kernels /\ (mode \in {"boot", "read"} => image \in Kernels)
    BY DEF Init
  <2>1. image \in Images \cup Kernels /\ i = 1 /\ Len(image) \in Nat
    BY <2>0, HeaderIs DEF Init
  <2>2. Before = {}
    BY <2>1 DEF Before
  <2>3. TypeOK
    BY <2>1, Sizes DEF Init, TypeOK, JUNK
  <2>4. Breaking
    <3>1. brk = 0 /\ PAGESIZE \in Nat \ {0} /\ \A v \in VPages : rights[v] = "none"
      BY Sizes DEF Init
    <3>2. brk % PAGESIZE = 0
      BY <3>1
    <3>3. \A k \in 1 .. Len(image) : 0 <= image[k].va
      BY <2>1, HeaderIs DEF Linked
    <3> QED BY <2>1, <2>2, <3>1, <3>2, <3>3 DEF Breaking
  <2> QED BY <2>1, <2>2, <2>3, <2>4 DEF Init, Inv
<1>2. Inv /\ [Next]_vars => Inv'
  <2> SUFFICES ASSUME Inv, [Next]_vars
               PROVE  Inv'
    OBVIOUS
  <2>1. CASE Boot
    BY <2>1, BootInv, ReadSegmentInv, ReadSectInv, ClearBssInv DEF Boot
  <2>2. CASE Load
    BY <2>2, LoadSegmentInv, NoRoomInv, LoadInv DEF Load
  <2>3. CASE UNCHANGED vars
    BY <2>3 DEF vars, Inv, TypeOK, Before, Reading, Breaking, ph
  <2> QED BY <2>1, <2>2, <2>3 DEF Next
<1> QED BY <1>1, <1>2, PTL DEF Spec

\* When a loader is done it is done with every segment.
LEMMA AllLoaded ==
    ASSUME Inv, mode \in {"booted", "loaded"}, NEW s \in Segments
    PROVE  \E j \in Before : s = image[j]
<1>1. i = Len(image) + 1 /\ DOMAIN image = 1 .. Len(image) /\ Len(image) \in Nat
  BY HeaderIs DEF Inv
<1>2. PICK j \in DOMAIN image : image[j].type = PTYPE_LOAD /\ s = image[j]
  BY DEF Segments
<1>3. j \in Before
  BY <1>1, <1>2 DEF Before
<1> QED BY <1>2, <1>3

\* Every byte of every segment is the file's, or 0 behind the file's bytes, for
\* every image, page and sector size: boot_readseg reads whole sectors and yet
\* disturbs no segment before, and program_load_segment copies to the right place.
THEOREM ImagesAreExact == Spec => []ImageExact
<1>1. Inv => ImageExact
  <2> SUFFICES ASSUME Inv
               PROVE  ImageExact
    OBVIOUS
  <2>1. TypeOK
    BY DEF Inv
  <2>2. ASSUME mode \in {"booted", "loaded"}, NEW s \in Segments
        PROVE  Exact(mem, s)
    BY <2>2, AllLoaded DEF Inv
  <2> QED BY <2>1, <2>2 DEF ImageExact, Exact
<1> QED BY <1>1, InvHolds, PTL

\* A loaded program's heap begins at a page boundary behind all its segments, and
\* every page of a segment has the segment's rights.
THEOREM HeapBehindImage == Spec => []BreakBehindImage
<1>1. Inv => BreakBehindImage
  <2> SUFFICES ASSUME Inv, mode = "loaded"
               PROVE  BreakBehindImage
    BY DEF BreakBehindImage
  <2>1. Breaking /\ brk \in Nat /\ Len(image) \in Nat
    BY HeaderIs DEF Inv, TypeOK
  <2>2. \A s \in Segments : s.va + s.memsz <= brk /\ Allowed(rights, s)
    BY <2>1, AllLoaded DEF Breaking
  <2>3. ASSUME NEW v \in VPages, v * PAGESIZE >= brk
        PROVE  rights[v] = "none"
    <3>1. MEMSIZE \div PAGESIZE \in Nat /\ PAGESIZE \in Nat
      BY Sizes, DivMod
    <3>2. v \in Nat
      BY <3>1 DEF VPages
    <3>3. v * PAGESIZE \in Nat
      BY <3>1, <3>2
    <3>4. ~(v * PAGESIZE < brk)
      BY <2>1, <2>3, <3>3
    <3> QED BY <2>1, <3>4 DEF Breaking
  <2>4. brk % PAGESIZE = 0
    BY <2>1 DEF Breaking
  <2> QED BY <2>2, <2>3, <2>4 DEF BreakBehindImage, Allowed
<1> QED BY <1>1, InvHolds, PTL

=============================================================================
