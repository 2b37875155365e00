------------------------------- MODULE Loader -------------------------------
(***************************************************************************)
(* The two loaders: kernel/boot.c reads the kernel from the disk, sector   *)
(* by sector, and kernel/k-loader.c copies a program from its image in     *)
(* memory into pages it allocates.  Both get an ELF file as a sequence of  *)
(* program headers; byte o of the file is the value o + 1, so that no two  *)
(* bytes are alike and none is 0.  A fresh page holds junk.                *)
(***************************************************************************)
EXTENDS Integers, Sequences, FiniteSets

CONSTANTS
    PAGESIZE, SECTORSIZE,
    MEMSIZE,   \* bytes of memory
    Images,    \* programs in the kernel, as sequences of program headers, see ProgramHeader
    Kernels,   \* the kernels that may be on the disk, in the same form
    Rooms      \* numbers of free pages a program may find

PTYPE_LOAD == "load"
ProgramHeader(type, offset, va, filesz, memsz, write) ==
    [type |-> type, offset |-> offset, va |-> va, filesz |-> filesz, memsz |-> memsz, w |-> write]

ROUNDDOWN(a, n) == a - (a % n)
ROUNDUP(a, n) == ROUNDDOWN(a + n - 1, n)

ASSUME SizeAssumption ==
    /\ PAGESIZE \in Nat \ {0} /\ SECTORSIZE \in Nat \ {0} /\ PAGESIZE % SECTORSIZE = 0
    /\ MEMSIZE \in Nat /\ Rooms \subseteq Nat

Headers == [type : STRING, offset : Nat, va : Nat, filesz : Nat, memsz : Nat, w : BOOLEAN]

\* What link/*.ld guarantee: segments lie in ascending order in pages of their own, and
\* each begins at a page boundary in memory.  With -n the linker puts them anywhere in
\* the file: the text of a program is at 0xb0, its empty data at 0.
ASSUME ImageAssumption ==
    /\ Images \cup Kernels \subseteq Seq(Headers)
    /\ \A im \in Images \cup Kernels : \A j \in DOMAIN im :
         LET s == im[j]
         IN  /\ s.filesz <= s.memsz /\ ROUNDUP(s.va + s.memsz, PAGESIZE) <= MEMSIZE
             /\ s.va % PAGESIZE = 0
             /\ s.type # PTYPE_LOAD => s.memsz = 0
             /\ \A k \in (j + 1) .. Len(im) :
                  s.type = PTYPE_LOAD /\ im[k].type = PTYPE_LOAD
                      => ROUNDUP(s.va + s.memsz, PAGESIZE) <= im[k].va

\* boot.c reads from the beginning of a sector: the page-aligned sections of the
\* kernel put its one segment at 0x1000.
ASSUME KernelAssumption ==
    \A im \in Kernels : \A j \in DOMAIN im : im[j].offset % SECTORSIZE = 0

Bytes == 0 .. (MEMSIZE - 1)
VPages == 0 .. (MEMSIZE \div PAGESIZE - 1)
JUNK == -1
file(o) == o + 1

VARIABLES
    image,   \* the program headers
    i,       \* the header the loader looks at
    mem,     \* address -> byte
    ptr,     \* boot_readseg: where the next sector goes
    sect,    \* boot_readseg: src_sect
    rights,  \* page -> "none", "write" or "read"
    room,    \* free physical pages
    brk,     \* original_break and program_break
    mode

vars == <<image, i, mem, ptr, sect, rights, room, brk, mode>>

ph == image[i]
end_file == ph.va + ph.filesz
end_mem == ph.va + ph.memsz

\* both loaders at their first header; program_load has passed its asserts, which hold
\* of the four program numbers kernel() uses and the images linked into the kernel
Init == /\ mode \in {"boot", "load"}
        /\ image \in IF mode = "boot" THEN Kernels ELSE Images
        /\ i = 1
        /\ mem = [b \in Bytes |-> JUNK]
        /\ ptr = 0 /\ sect = 0
        /\ rights = [v \in VPages |-> "none"]
        /\ room \in Rooms
        /\ brk = 0

\* Mutant: the loop over the headers stays at one of them.
next_header_same == i

next_header == i + 1

-----------------------------------------------------------------------------
(* boot.c *)

\* boot, whose header read finds the magic number or waits for ever
BadMagic == /\ mode = "boot" /\ i = 1
            /\ mode' = "hang"
            /\ UNCHANGED <<image, i, mem, ptr, sect, rights, room, brk>>

\* entry of boot_readseg; boot does not look at the type
ReadSegment == /\ mode = "boot" /\ i <= Len(image)
               /\ ptr' = ROUNDDOWN(ph.va, SECTORSIZE)
               /\ sect' = ph.offset \div SECTORSIZE + 1
               /\ mode' = "read"
               /\ UNCHANGED <<image, i, mem, rights, room, brk>>

\* Mutant: the sector number is not advanced.
next_sect_same(s) == s

next_sect(s) == s + 1

\* boot_readsect, a whole sector, once boot_waitdisk has seen the disk ready
ReadSect == /\ mode = "read" /\ ptr < end_file
            /\ mem' = [b \in Bytes |->
                         IF b \in ptr .. (ptr + SECTORSIZE - 1)
                         THEN file((sect - 1) * SECTORSIZE + b - ptr) ELSE mem[b]]
            /\ ptr' = ptr + SECTORSIZE
            /\ sect' = next_sect(sect)
            /\ UNCHANGED <<image, i, rights, room, brk, mode>>

\* the rest of boot_readseg
ClearBss == /\ mode = "read" /\ ptr >= end_file
            /\ mem' = [b \in Bytes |-> IF b \in end_file .. (end_mem - 1) THEN 0 ELSE mem[b]]
            /\ i' = next_header
            /\ mode' = "boot"
            /\ UNCHANGED <<image, ptr, sect, rights, room, brk>>

\* the jump to the kernel's entry point
Jump == /\ mode = "boot" /\ i > Len(image)
        /\ mode' = "booted"
        /\ UNCHANGED <<image, i, mem, ptr, sect, rights, room, brk>>

-----------------------------------------------------------------------------
(* k-loader.c *)

segment_pages == {v \in VPages : v * PAGESIZE >= ROUNDDOWN(ph.va, PAGESIZE) /\ v * PAGESIZE < end_mem}

\* byte b after memcpy from the rounded address, and memset
loaded(b) ==
    IF b >= ROUNDDOWN(ph.va, PAGESIZE) /\ b < end_file
    THEN file(ph.offset + b - ROUNDDOWN(ph.va, PAGESIZE))
    ELSE IF b \in end_file .. (end_mem - 1) THEN 0
    ELSE IF b \div PAGESIZE \in segment_pages THEN JUNK ELSE mem[b]

\* Mutant: the break is put behind the file's bytes.
new_break_short == ROUNDUP(end_file, PAGESIZE)

new_break == ROUNDUP(end_mem, PAGESIZE)

segment_rights == IF ph.w THEN "write" ELSE "read"

enough_room == Cardinality(segment_pages) <= room

Loading == mode = "load" /\ i <= Len(image) /\ ph.type = PTYPE_LOAD

\* program_load_segment
LoadSegment ==
    /\ Loading /\ enough_room
    /\ mem' = [b \in Bytes |-> loaded(b)]
    /\ rights' = [v \in VPages |-> IF v \in segment_pages THEN segment_rights ELSE rights[v]]
    /\ room' = room - Cardinality(segment_pages)
    /\ brk' = new_break
    /\ i' = next_header
    /\ UNCHANGED <<image, ptr, sect, mode>>

\* program_load_segment returns -1; the pages it got stay mapped
NoRoom ==
    /\ Loading /\ ~enough_room
    /\ rights' = [v \in VPages |->
                    IF v \in segment_pages /\ Cardinality({w \in segment_pages : w < v}) < room
                    THEN "write" ELSE rights[v]]
    /\ room' = 0
    /\ mode' = "failed"
    /\ UNCHANGED <<image, i, mem, ptr, sect, brk>>

SkipSegment == /\ mode = "load" /\ i <= Len(image) /\ ph.type # PTYPE_LOAD
               /\ i' = next_header
               /\ UNCHANGED <<image, mem, ptr, sect, rights, room, brk, mode>>

\* program_load sets the entry point and returns 0
SetEntry == /\ mode = "load" /\ i > Len(image)
            /\ mode' = "loaded"
            /\ UNCHANGED <<image, i, mem, ptr, sect, rights, room, brk>>

Boot == BadMagic \/ ReadSegment \/ ReadSect \/ ClearBss \/ Jump
Load == LoadSegment \/ NoRoom \/ SkipSegment \/ SetEntry
Next == Boot \/ Load

\* a disk that is busy becomes ready, and both loaders run without interrupts
Spec == Init /\ [][Next]_vars /\ WF_vars(Next)

-----------------------------------------------------------------------------
(* Properties *)

TypeOK == /\ i \in 1 .. (Len(image) + 1)
          /\ mem \in [Bytes -> Int]
          /\ ptr \in 0 .. MEMSIZE /\ sect \in Nat
          /\ rights \in [VPages -> {"none", "read", "write"}]
          /\ room \in Nat /\ brk \in Nat
          /\ mode \in {"boot", "read", "hang", "booted", "load", "failed", "loaded"}

Segments == {image[j] : j \in {k \in DOMAIN image : image[k].type = PTYPE_LOAD}}

\* Every byte of every segment is the file's, or 0 behind the file's bytes,
\* although sectors are read whole and later segments follow: boot_readseg and
\* program_load_segment keep what their comments say.  On the way neither leaves
\* the memory or takes a page too many.
ImageExact ==
    /\ TypeOK
    /\ mode \in {"booted", "loaded"} =>
         \A s \in Segments : \A k \in 0 .. (s.memsz - 1) :
             mem[s.va + k] = IF k < s.filesz THEN file(s.offset + k) ELSE 0

\* The heap of a loaded program begins at the first page behind all its
\* segments: nothing is mapped from there on, and no segment reaches it.
BreakBehindImage ==
    mode = "loaded" =>
        /\ brk % PAGESIZE = 0
        /\ \A s \in Segments : s.va + s.memsz <= brk
        /\ \A v \in VPages : v * PAGESIZE >= brk => rights[v] = "none"
        /\ \A s \in Segments : \A k \in 0 .. (s.memsz - 1) :
             rights[(s.va + k) \div PAGESIZE] = IF s.w THEN "write" ELSE "read"

\* Both loaders come to an end: the kernel starts or no kernel is on the disk,
\* the program is in place or memory is short.
Terminates == <>(mode \in {"hang", "booted", "failed", "loaded"})

=============================================================================
