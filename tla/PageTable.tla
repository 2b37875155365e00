----------------------------- MODULE PageTable ------------------------------
(***************************************************************************)
(* The four-level page tables of kernel/vm.c as they lie in physical       *)
(* memory, with process_config_tables and process_free (object code, read  *)
(* from obj/kernel.asm), which make and drop a process's tables, and the   *)
(* temporary table of a soft reboot.  Kernel uses flat maps in place of    *)
(* these tables; the refinement Implements justifies that.                 *)
(*                                                                         *)
(* An address is a page number: offsets within a page change nothing here. *)
(* A free page and a page in a user's hands may hold any bytes; they are   *)
(* taken to hold Junk, which reads like a table full of present entries.   *)
(* Pages shared after a fork are left to Kernel.                           *)
(***************************************************************************)
EXTENDS Integers, FiniteSets, FiniteSetsExt

CONSTANTS
    NPAGES,      \* physical pages
    FANOUT,      \* NPAGETABLEENTRIES
    PROC_START,  \* page number of PROC_START_ADDR
    Reserved,    \* physical_memory_isreserved: page 0 and the I/O hole
    KernelPages, \* the kernel's code, data and stack
    KernelTables,\* page of kernel_pagetables[0]; the other four follow it
    ConsolePage, \* page of the console
    RebootTable, \* page of the temporary table, 0x8000; two more follow it
    Procs,       \* processes
    UserPages,   \* virtual pages that programs allocate
    VPages       \* virtual pages the properties look at

Pages == 0 .. (NPAGES - 1)
Index == 0 .. (FANOUT - 1)
MAPTOP == 2 * FANOUT
NULL == -1

\* Flags of an entry, and the combinations the kernel passes as perm.  PS
\* marks a large page.
PTE == {"P", "W", "U", "PS"}
PWU == {"P", "W", "U"}
PW == {"P", "W"}
PU == {"P", "U"}
WU == {"W", "U"}

ASSUME PageTableAssumption ==
    /\ FANOUT \in Nat \ {0, 1} /\ NPAGES \in 0 .. MAPTOP
    /\ PROC_START \in 1 .. (NPAGES - 1) /\ PROC_START <= FANOUT
    /\ KernelPages \cup Reserved \subseteq 0 .. (PROC_START - 1)
    /\ KernelPages \cap Reserved = {} /\ {0, ConsolePage} \subseteq Reserved
    /\ KernelTables \in Nat /\ KernelTables .. KernelTables + 4 \subseteq KernelPages
    /\ RebootTable \in Nat /\ RebootTable .. RebootTable + 2 \subseteq Pages \ KernelPages
    /\ VPages # {} /\ VPages \subseteq 0 .. (FANOUT * FANOUT * FANOUT * FANOUT - 1)
    /\ UserPages \subseteq VPages \ 0 .. (PROC_START - 1)
    /\ Procs \cap {"free", "kernel"} = {}

VARIABLES
    mem,    \* physical page -> its contents, read as a table
    owner,  \* physical page -> "free", "kernel", or the process it belongs to
    pt,     \* process -> the pages of its five tables, or NoTables
    cr3,    \* page of the table the processor uses
    mode    \* boot, kernel, user, panic, or assert: an assertion on tables failed

vars == <<mem, owner, pt, cr3, mode>>

Entry(n, flags) == [pa |-> n, flags |-> flags]
Zero == [i \in Index |-> Entry(0, {})]
Junk == [i \in Index |-> Entry(PROC_START, PWU)]
NoTables == [k \in {} |-> 0]
KERNEL == [k \in 0 .. 4 |-> KernelTables + k]
kernel_pagetable == KernelTables
Live == {p \in Procs : pt[p] # NoTables}
TablesOf(t) == {t[k] : k \in DOMAIN t}

\* memory m once the pages of S are anybody's
Spoiled(m, S) == [n \in Pages |-> IF n \in S THEN Junk ELSE m[n]]

-----------------------------------------------------------------------------
(* Walking and changing a table *)

\* pages that an entry of level 0, 1, 2 and 3 spans
Span == <<FANOUT * FANOUT * FANOUT, FANOUT * FANOUT, FANOUT, 1>>

PAGEINDEX(v, level) == (v \div Span[level + 1]) % FANOUT

entry_at(m, t, v, level) == m[t][PAGEINDEX(v, level)]

\* one step of lookup_l4pagetable
next_table(m, t, v, level) ==
    IF t # NULL /\ "P" \in entry_at(m, t, v, level).flags
    THEN entry_at(m, t, v, level).pa ELSE NULL

lookup_l4pagetable(m, root, v) ==
    next_table(m, next_table(m, next_table(m, root, v, 0), v, 1), v, 2)

\* the assertions of lookup_l4pagetable: the levels it passes allow what perm asks
rights_granted(m, root, v, perm) ==
    LET table == <<root, next_table(m, root, v, 0),
                   next_table(m, next_table(m, root, v, 0), v, 1)>>
    IN  \A i \in 1 .. 3 :
          table[i] # NULL /\ next_table(m, table[i], v, i - 1) # NULL
              => perm \cap WU \subseteq entry_at(m, table[i], v, i - 1).flags

\* Mutant: the entry keeps the old page when it is made not present.
set_entry_stale(m, l4, v, pa, perm) ==
    [m EXCEPT ![l4][PAGEINDEX(v, 3)] = Entry(pa, perm \cup {"P"})]

\* the assignment to l4pagetable->entry
set_entry(m, l4, v, pa, perm) ==
    [m EXCEPT ![l4][PAGEINDEX(v, 3)] = Entry(IF "P" \in perm THEN pa ELSE 0, perm)]

\* one pass of the loop of virtual_memory_map, from page v to page pa; the last
\* table is looked up again only when va leaves its range
map_page(s, root, v, pa, perm) ==
    LET l4 == IF v \div FANOUT # s.last THEN lookup_l4pagetable(s.mem, root, v) ELSE s.l4
    IN  IF s.ret = -1 THEN s
        ELSE IF l4 = NULL /\ "P" \in perm THEN [s EXCEPT !.ret = -1]
        ELSE [mem |-> IF l4 = NULL THEN s.mem ELSE set_entry(s.mem, l4, v, pa, perm),
              last |-> v \div FANOUT, l4 |-> l4, ret |-> 0]

\* virtual_memory_map of n pages.  The result is the memory and the value
\* returned; what was mapped before a failure stays mapped.
virtual_memory_map(m, root, va, pa, n, perm) ==
    LET loop[i \in 0 .. n] ==
          IF i = 0 THEN [mem |-> m, last |-> -1, l4 |-> NULL, ret |-> 0]
          ELSE map_page(loop[i - 1], root, va + i - 1, pa + i - 1, perm)
    IN  loop[n]

\* what a walk that ended with the entry pe found
found(pe) == IF "P" \in pe.flags THEN [pn |-> pe.pa, perm |-> pe.flags]
             ELSE [pn |-> -1, perm |-> {}]

\* Each level removes from the entry the W and U that the level above has.
lookup_level(m, pe, v, level) ==
    IF "P" \notin pe.flags THEN pe
    ELSE LET e == entry_at(m, pe.pa, v, level)
         IN  Entry(e.pa, e.flags \ (pe.flags \cap WU))

virtual_memory_lookup(m, root, v) ==
    found(lookup_level(m, lookup_level(m, lookup_level(m, lookup_level(m,
            Entry(root, PWU), v, 0), v, 1), v, 2), v, 3))

\* The processor's walk: a right holds if every level grants it, and a large
\* page ends the walk one level early.
walk_level(m, pe, v, level) ==
    IF "P" \notin pe.flags THEN pe
    ELSE IF level = 3 /\ "PS" \in pe.flags
    THEN Entry(pe.pa + PAGEINDEX(v, 3), pe.flags \ {"PS"})
    ELSE LET e == entry_at(m, pe.pa, v, level)
         IN  Entry(e.pa, e.flags \cap (pe.flags \cup {"PS"}))

translate(m, root, v) ==
    found(walk_level(m, walk_level(m, walk_level(m, walk_level(m,
            Entry(root, PWU), v, 0), v, 1), v, 2), v, 3))

\* the assertions of set_pagetable and check_page_table_mappings
set_pagetable_ok(m, root) ==
    /\ \A n \in KernelPages : /\ virtual_memory_lookup(m, root, n).pn = n
                              /\ "W" \in virtual_memory_lookup(m, root, n).perm
    /\ virtual_memory_lookup(m, kernel_pagetable, root).pn = root

\* the assertions of virtual_memory_init
identity_mapped(m) ==
    \A n \in Pages : /\ virtual_memory_lookup(m, kernel_pagetable, n).pn = n
                     /\ PW \subseteq virtual_memory_lookup(m, kernel_pagetable, n).perm

-----------------------------------------------------------------------------
(* Making tables *)

\* m with the tables t cleared and linked
Cleared(m, T) == [n \in Pages |-> IF n \in T THEN Zero ELSE m[n]]

link(m, from, i, to) == [m EXCEPT ![from][i] = Entry(to, PWU)]

\* Mutant: the root is linked read-only (linked_dirty: the tables are not cleared).
linked_dirty(m, t) ==
    link(link(link(link(m, t[0], 0, t[1]), t[1], 0, t[2]), t[2], 0, t[3]), t[2], 1, t[4])
linked_root_readonly(m, t) ==
    [linked_dirty(Cleared(m, TablesOf(t)), t) EXCEPT ![t[0]][0] = Entry(t[1], PU)]

linked(m, t) ==
    link(link(link(link(Cleared(m, TablesOf(t)), t[0], 0, t[1]),
                   t[1], 0, t[2]), t[2], 0, t[3]), t[2], 1, t[4])

virtual_memory_init(m) ==
    virtual_memory_map(linked(m, KERNEL), kernel_pagetable, 0, 0, NPAGES, PWU).mem

\* Mutant: the user may reach low memory.
config_tables_open(m, t) == virtual_memory_map(linked(m, t), t[0], 0, 0, PROC_START, PWU).mem

config_tables(m, t) ==
    virtual_memory_map(virtual_memory_map(linked(m, t), t[0], 0, 0, PROC_START, PW).mem,
                       t[0], ConsolePage, ConsolePage, 1, PWU).mem

\* the table check_keyboard installs for a soft reboot
reboot_tables(m) ==
    [Cleared(m, RebootTable .. RebootTable + 2) EXCEPT
        ![RebootTable][0] = Entry(RebootTable + 1, PWU),
        ![RebootTable + 1][0] = Entry(RebootTable + 2, PWU),
        ![RebootTable + 2][0] = Entry(0, PWU \cup {"PS"})]

-----------------------------------------------------------------------------
(* Steps *)

InitOwner == [n \in Pages |-> IF n \in Reserved \cup KernelPages THEN "kernel" ELSE "free"]

\* the boot loader leaves a table like the one of a soft reboot
Init == /\ mem = reboot_tables([n \in Pages |-> Junk])
        /\ owner = InitOwner
        /\ pt = [p \in Procs |-> NoTables]
        /\ cr3 = RebootTable
        /\ mode = "boot"

\* lcr3, after the assertions
Install(root, m) ==
    IF set_pagetable_ok(mem', root) THEN cr3' = root /\ mode' = m
    ELSE mode' = "assert" /\ UNCHANGED cr3

\* virtual_memory_init, pageinfo_init and the clearing of processes[]
Boot == /\ mode = "boot"
        /\ owner' = InitOwner
        /\ mem' = Spoiled(virtual_memory_init(mem), {n \in Pages : owner'[n] = "free"})
        /\ pt' = [p \in Procs |-> NoTables]
        /\ IF identity_mapped(mem') THEN Install(kernel_pagetable, "kernel")
           ELSE mode' = "assert" /\ UNCHANGED cr3

free == {n \in Pages : owner[n] = "free"}

\* the pages that five calls of palloc return
palloc5 == [k \in 0 .. 4 |-> CHOOSE n \in free : Cardinality({m \in free : m < n}) = k]

\* process_config_tables: nothing remains of it when five pages cannot be had
ConfigTables(p) ==
    /\ mode = "kernel" /\ p \notin Live
    /\ Cardinality(free) >= 5
    /\ mem' = config_tables(mem, palloc5)
    /\ owner' = [n \in Pages |-> IF n \in TablesOf(palloc5) THEN p ELSE owner[n]]
    /\ pt' = [pt EXCEPT ![p] = palloc5]
    /\ UNCHANGED <<cr3, mode>>

\* palloc and virtual_memory_map for a page that is not there, as in the loader
\* and the page-fault handler.  The loader may fail, when the program lies beyond
\* the tables, and process_setup then panics.
MapPage(p, v) ==
    /\ mode = "kernel" /\ p \in Live /\ free # {}
    /\ virtual_memory_lookup(mem, pt[p][0], v).pn = -1
    /\ LET n == Min(free)
           done == virtual_memory_map(mem, pt[p][0], v, n, 1, PWU)
       IN  /\ mem' = done.mem
           /\ owner' = [owner EXCEPT ![n] = p]
           /\ mode' = IF done.ret = 0 THEN mode ELSE "panic"
    /\ UNCHANGED <<pt, cr3>>

\* the loader makes a page of a read-only segment read-only
ReadOnly(p, v) ==
    /\ mode = "kernel" /\ p \in Live
    /\ LET n == virtual_memory_lookup(mem, pt[p][0], v).pn
       IN  /\ n # -1
           /\ mem' = virtual_memory_map(mem, pt[p][0], v, n, 1, PU).mem
    /\ UNCHANGED <<owner, pt, cr3, mode>>

\* sbrk gives up a page
UnmapPage(p, v) ==
    /\ mode = "kernel" /\ p \in Live
    /\ LET n == virtual_memory_lookup(mem, pt[p][0], v).pn
       IN  /\ n # -1
           /\ mem' = virtual_memory_map(mem, pt[p][0], v, n, 1, WU).mem
           /\ owner' = [owner EXCEPT ![n] = "free"]
    /\ UNCHANGED <<pt, cr3, mode>>

\* process_free: the user's pages, then the tables
Free(p) ==
    /\ mode = "kernel" /\ p \in Live
    /\ LET given == {virtual_memory_lookup(mem, pt[p][0], v).pn : v \in PROC_START .. (MAPTOP - 1)}
       IN  owner' = [n \in Pages |-> IF n \in given \cup TablesOf(pt[p]) THEN "free" ELSE owner[n]]
    /\ mem' = Spoiled(mem, TablesOf(pt[p]))
    /\ pt' = [pt EXCEPT ![p] = NoTables]
    /\ UNCHANGED <<cr3, mode>>

\* run(p)
Run(p) == /\ mode = "kernel" /\ p \in Live
          /\ UNCHANGED <<mem, owner, pt>>
          /\ Install(pt[p][0], "user")

\* Mutant: the kernel goes on with the table of the process.
Exception_keeps_table == mode = "user" /\ mode' = "kernel" /\ UNCHANGED <<mem, owner, pt, cr3>>

\* entry of exception()
Exception == /\ mode = "user"
             /\ UNCHANGED <<mem, owner, pt>>
             /\ Install(kernel_pagetable, "kernel")

\* check_keyboard, in an exception or after a panic: a soft reboot.  What the
\* processes had is nobody's from here on.
SoftReboot == /\ mode \in {"kernel", "panic"}
              /\ mem' = reboot_tables(Spoiled(mem, Pages \ KernelPages))
              /\ owner' = InitOwner
              /\ pt' = [p \in Procs |-> NoTables]
              /\ cr3' = RebootTable
              /\ mode' = "boot"

Next == \/ Boot \/ Exception \/ SoftReboot
        \/ \E p \in Procs : ConfigTables(p) \/ Free(p) \/ Run(p)
        \/ \E p \in Procs, v \in UserPages : MapPage(p, v) \/ ReadOnly(p, v) \/ UnmapPage(p, v)

Spec == Init /\ [][Next]_vars

-----------------------------------------------------------------------------
(* Properties *)

TypeOK ==
    /\ mem \in [Pages -> [Index -> [pa : Pages, flags : SUBSET PTE]]]
    /\ owner \in [Pages -> Procs \cup {"free", "kernel"}]
    /\ pt \in [Procs -> {NoTables} \cup [0 .. 4 -> Pages]]
    /\ cr3 \in Pages
    /\ mode \in {"boot", "kernel", "user", "panic", "assert"}

\* What virtual_memory_lookup says of a page, its mask turning over from level
\* to level, is what the processor does: same page, same rights, for every table
\* in use and every address, one past the reach of the tables included; no upper
\* level takes a right away, so that no table the kernel installs or changes fails
\* the assertions of set_pagetable and lookup_l4pagetable.
LookupExact ==
    /\ TypeOK /\ mode # "assert"
    /\ mode # "boot" =>
         \A t \in {kernel_pagetable} \cup {pt[p][0] : p \in Live} : \A v \in VPages :
             /\ virtual_memory_lookup(mem, t, v) = translate(mem, t, v)
             /\ rights_granted(mem, t, v, PWU)

\* Whatever happens, the table in use maps the kernel to itself and writable,
\* so that an exception can be taken, soft reboots included, though their table
\* lies in pages that may be anybody's.
KernelReachable ==
    \A n \in KernelPages : translate(mem, cr3, n).pn = n /\ "W" \in translate(mem, cr3, n).perm

\* No process can reach, in user mode, a page of the kernel, a page that holds a
\* table, or a page of another process.
UserConfined ==
    mode # "boot" =>
        \A p \in Live, v \in VPages :
            LET m == translate(mem, pt[p][0], v)
            IN  "U" \in m.perm =>
                  \/ m.pn = ConsolePage
                  \/ owner[m.pn] = p /\ \A q \in Live : m.pn \notin TablesOf(pt[q])

\* The tables of the living processes, read as the processor reads them, change
\* as AddressSpace says.
A == INSTANCE AddressSpace WITH
        Low <- 0 .. (PROC_START - 1), Kept <- Reserved \cup KernelPages,
        space <- [p \in Procs |->
                    IF mode = "boot" \/ p \notin Live THEN [v \in {} |-> 0]
                    ELSE [v \in VPages |-> translate(mem, pt[p][0], v)]]
Implements == A!SpaceSpec

=============================================================================
