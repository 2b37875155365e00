------------------------------- MODULE Kernel -------------------------------
(***************************************************************************)
(* The kernel of kernel/kernel.c with the parts of vm.c, k-loader.c and    *)
(* k-vm (present in the repository as object code, read from              *)
(* obj/kernel.asm) that it calls: physical pages and their owners, the     *)
(* processes and their page tables, the system calls, lazy allocation in   *)
(* the page-fault handler, and round-robin scheduling.                     *)
(*                                                                         *)
(* Interrupts are off while the kernel runs, so one exception, from its    *)
(* entry to the return to user mode, is one step.  A page table is a flat  *)
(* map from page numbers to entries; its table pages are only counted.     *)
(* The contents of pages are left out.                                     *)
(***************************************************************************)
EXTENDS Integers, FiniteSets, FiniteSetsExt

CONSTANTS
    NPROC,       \* slots in processes[]; slot 0 is never used
    PAGESIZE,    \* bytes in a page
    NPAGES,      \* physical pages
    Reserved,    \* physical pages for which physical_memory_isreserved
    CONSOLE,     \* page number of CONSOLE_ADDR, one of the reserved pages
    KernelPages, \* physical pages of the kernel image and its stack
    PROC_START,  \* page number of PROC_START_ADDR
    VIRT,        \* page number of MEMSIZE_VIRTUAL
    MAPTOP,      \* first page number that a process's tables do not reach
    NTABLES,     \* table pages of a process: 5
    Text,        \* pages of the read-only segments of the loaded program
    Data,        \* pages of its writable segments
    Commands,    \* how many processes a boot command sets up: 1, or 2 for test2
    VAMSIZE,     \* sizeof(vamapping)
    Calls,       \* system calls that loaded programs make
    ForkedCalls, \* system calls that forked processes make
    Increments,  \* arguments of sbrk
    Targets      \* byte addresses programs pass to brk and page_alloc

Pids == 1 .. (NPROC - 1)
Pages == 0 .. (NPAGES - 1)
VPages == 0 .. (MAPTOP - 1)
UserPages == PROC_START .. (VIRT - 1)
STACK == VIRT - 1
LIMIT == STACK * PAGESIZE
Image == Text \cup Data
ORIG == (Max(Image) + 1) * PAGESIZE
CallNames == {"sbrk", "brk", "fork", "exit", "yield", "page_alloc", "panic"}

\* enum pageowner
PO_FREE == 0
PO_RESERVED == -1
PO_KERNEL == -2

ASSUME KernelAssumption ==
    /\ NPROC \in Nat \ {0, 1} /\ PAGESIZE \in Nat \ {0} /\ NPAGES \in Nat
    /\ NTABLES \in Nat \ {0} /\ VAMSIZE \in 1 .. PAGESIZE
    /\ PROC_START \in Nat /\ VIRT \in Nat /\ MAPTOP \in Nat
    /\ VIRT <= MAPTOP /\ PROC_START <= NPAGES
    /\ 0 \in Reserved /\ CONSOLE \in Reserved \ {0}
    /\ Reserved \subseteq 0 .. (PROC_START - 1)
    /\ KernelPages \subseteq (0 .. (PROC_START - 1)) \ Reserved
    /\ Image \subseteq UserPages \ {STACK} /\ Image # {} /\ Text \cap Data = {}
    /\ Commands \subseteq Pids
    /\ Calls \subseteq CallNames /\ ForkedCalls \subseteq CallNames
    /\ Increments \subseteq Int /\ Targets \subseteq Nat

\* The programs booted by one command fit in memory: the assertions of
\* process_setup hold, and process_setup_stack, which does not look, gets a page.
ASSUME BootAssumption ==
    \A n \in Commands : n * (NTABLES + Cardinality(Image) + 1)
        <= Cardinality(Pages \ (Reserved \cup KernelPages))

VARIABLES
    pageinfo,  \* physical page -> [owner, refcount]
    proc,      \* pid -> its descriptor, see ProcType
    current,   \* pid of the process that runs or ran last
    mode,      \* what the processor does, see Modes
    todo       \* processes the boot command still has to set up

vars == <<pageinfo, proc, current, mode, todo>>

\* boot: kernel() sets up processes; user: current runs; spin: schedule found
\* nobody; assert: an assertion failed; panic: a program asked for a panic or
\* caused an exception without handler; hang: a loop in the kernel never ends;
\* off: poweroff
Modes == {"boot", "user", "spin", "assert", "panic", "hang", "off"}

-----------------------------------------------------------------------------
(* Page tables *)

\* what virtual_memory_lookup returns for a page that is not present
Absent == [pn |-> -1, w |-> FALSE, u |-> FALSE]
Entry(n, write, user) == [pn |-> n, w |-> write, u |-> user]

present(m, v) == m[v].pn # -1

\* the mapping every process starts with: low memory, for the kernel alone, except
\* for the console, which every process may write
kernel_part ==
    [v \in VPages |-> IF v < PROC_START THEN Entry(v, TRUE, v = CONSOLE) ELSE Absent]

\* m with the pages of c mapped for the user to what c says
map_user(m, c, write) ==
    [v \in VPages |-> IF v \in DOMAIN c THEN Entry(c[v], write, TRUE) ELSE m[v]]

\* Mutant: sbrk gives the page up but leaves it mapped.
unmap_forgotten(m, V) == m

\* m with no page of V present
unmap(m, V) == [v \in VPages |-> IF v \in V THEN Absent ELSE m[v]]

\* how often m maps physical page n in the range V
Uses(m, V, n) == Cardinality({v \in V : m[v].pn = n})

-----------------------------------------------------------------------------
(* Physical pages *)

PageInfo(o, r) == [owner |-> o, refcount |-> r]

\* what palloc may hand out; it looks for the lowest, from page 1 on
FreePages(pi) == {n \in Pages \ {0} : pi[n].owner = PO_FREE /\ pi[n].refcount = 0}

\* S is what palloc returns when it is called for as many pages one by one
Lowest(S, F) == S \subseteq F /\ \A x \in S, y \in F \ S : x < y

\* the table pages process_config_tables takes from F; none if F is too small
table_choices(F) ==
    {T \in kSubset(NTABLES, F) : Lowest(T, F)}

\* The pages given to the virtual pages of W, lowest first, as far as F goes:
\* one such function exists.
palloc_choices(W, F) ==
    LET Served == {D \in SUBSET W : /\ \A x \in D, y \in W \ D : x < y
                                    /\ Cardinality(D) <= Cardinality(F)
                                    /\ D = W \/ Cardinality(D) = Cardinality(F)}
    IN  UNION {{c \in [D -> F] : /\ \A x, y \in D : x < y => c[x] < c[y]
                                 /\ Lowest({c[x] : x \in D}, F)} : D \in Served}

Taken(c) == {c[v] : v \in DOMAIN c}

\* pageinfo after palloc has given the pages of S to p
palloc(pi, S, p) ==
    [n \in Pages |-> IF n \in S THEN PageInfo(p, pi[n].refcount + 1) ELSE pi[n]]

\* pageinfo after one more reference to each page that m maps in V
share(pi, m, V) ==
    [n \in Pages |-> PageInfo(pi[n].owner, pi[n].refcount + Uses(m, V, n))]

\* pageinfo after one reference less for each page that m maps in V; a page
\* whose count comes to zero is free
unref(pi, m, V) ==
    [n \in Pages |->
        PageInfo(IF pi[n].refcount \in 1 .. Uses(m, V, n) THEN PO_FREE ELSE pi[n].owner,
                 pi[n].refcount - Uses(m, V, n))]

\* Mutant: a page whose count has come to zero keeps its owner.
release_keeps_owner(pi, m, T) ==
    [n \in Pages |-> IF n \in T THEN PageInfo(PO_FREE, 0)
                     ELSE PageInfo(pi[n].owner, pi[n].refcount - Uses(m, UserPages, n))]

\* pageinfo after process_free of a process with page table m and tables T
release(pi, m, T) ==
    LET q == unref(pi, m, UserPages)
    IN  [n \in Pages |-> IF n \in T THEN PageInfo(PO_FREE, 0) ELSE q[n]]

\* the assertions of process_free about the tables
tables_single(pi, m, T) == \A n \in T : unref(pi, m, UserPages)[n].refcount = 1

-----------------------------------------------------------------------------
(* Processes *)

\* forked is no field of the code: it remembers how the process came to be
Descriptor(s, b, o, m, T, f) ==
    [state |-> s, brk |-> b, orig |-> o, pt |-> m, tables |-> T, forked |-> f]

NoTable == [v \in VPages |-> Absent]

\* What process_free leaves in the slot: the breaks stay, and the page table
\* is not read again.
freed(d) == Descriptor("free", d.brk, d.orig, NoTable, {}, FALSE)

Active(pr) == {p \in Pids : pr[p].state # "free"}

\* check_page_table_mappings and the assertions of set_pagetable
kernel_mapped(m) == \A v \in KernelPages : m[v].pn = v /\ m[v].w

check_virtual_memory ==
    /\ \A n \in KernelPages : pageinfo[n] = PageInfo(PO_KERNEL, 1)
    /\ \A p \in Active(proc) : /\ kernel_mapped(proc[p].pt)
                               /\ \A n \in proc[p].tables : pageinfo[n] = PageInfo(p, 1)
    /\ \A n \in Pages : pageinfo[n].refcount > 0 /\ pageinfo[n].owner >= 0
                           => pageinfo[n].owner \in Active(proc)

\* run(p)
run(pr, p) == /\ current' = p
              /\ mode' = IF kernel_mapped(pr[p].pt) THEN "user" ELSE "assert"

\* Mutant: slots are always tried from 1 on.
distance_from_first(p) == p

\* slots are tried from current + 1 on, around to current itself
distance(p) == (p - current - 1) % NPROC

schedule(pr) ==
    \/ /\ Active(pr) = {}
       /\ mode' = "spin"
       /\ UNCHANGED current
    \/ \E p \in Active(pr) : /\ \A q \in Active(pr) : distance(p) <= distance(q)
                             /\ run(pr, p)

-----------------------------------------------------------------------------
(* Boot *)

InitPages ==
    [n \in Pages |-> IF n \in Reserved THEN PageInfo(PO_RESERVED, 1)
                     ELSE IF n \in KernelPages THEN PageInfo(PO_KERNEL, 1)
                     ELSE PageInfo(PO_FREE, 0)]

NoProcs == [p \in Pids |-> Descriptor("free", 0, 0, NoTable, {}, FALSE)]

Init == /\ pageinfo = InitPages
        /\ proc = NoProcs
        /\ current = 1
        /\ mode = "boot"
        /\ \E n \in Commands : todo = 1 .. n

\* process_setup: tables, program and stack; the last one starts process 1
Setup ==
    /\ mode = "boot"
    /\ LET p == Min(todo)
           F == FreePages(pageinfo)
       IN  \E T \in table_choices(F) : \E c \in palloc_choices(Image \cup {STACK}, F \ T) :
             LET ro == [v \in Text |-> c[v]]
                 m == map_user(map_user(kernel_part, c, TRUE), ro, FALSE)
             IN  /\ pageinfo' = palloc(pageinfo, T \cup Taken(c), p)
                 /\ proc' = [proc EXCEPT ![p] = Descriptor("runnable", ORIG, ORIG, m, T, FALSE)]
                 /\ todo' = todo \ {p}
    /\ IF todo' = {} THEN run(proc', 1) ELSE UNCHANGED <<current, mode>>

-----------------------------------------------------------------------------
(* Exceptions *)

me == proc[current]
May(call) == call \in IF me.forked THEN ForkedCalls ELSE Calls

\* entry of exception(): the checks have passed
Enter == mode = "user" /\ check_virtual_memory

\* the handler returns to current
Resume(pi, d) ==
    /\ pageinfo' = pi
    /\ proc' = [proc EXCEPT ![current] = d]
    /\ UNCHANGED todo
    /\ run(proc', current)

Stop(m) == mode' = m /\ UNCHANGED <<pageinfo, proc, current, todo>>

\* any exception, when check_virtual_memory finds something wrong
CheckFails == mode = "user" /\ ~check_virtual_memory /\ Stop("assert")

\* the timer interrupts a process, or it calls yield
Switch == schedule(proc) /\ UNCHANGED <<pageinfo, proc, todo>>
Timer == Enter /\ Switch
Yield == Enter /\ May("yield") /\ Switch

\* Mutant: the process goes on after it was freed.
Leave_resumes ==
    /\ pageinfo' = release(pageinfo, me.pt, me.tables)
    /\ proc' = [proc EXCEPT ![current] = freed(me)]
    /\ UNCHANGED <<current, mode, todo>>

\* syscall_exit, then schedule
Leave ==
    IF ~tables_single(pageinfo, me.pt, me.tables) THEN Stop("assert")
    ELSE /\ pageinfo' = release(pageinfo, me.pt, me.tables)
         /\ proc' = [proc EXCEPT ![current] = freed(me)]
         /\ schedule(proc')
         /\ UNCHANGED todo

Exit == Enter /\ May("exit") /\ Leave

\* Mutant: the loop of process_fork stops one page early.
copied_pages_short(m) == {v \in UserPages \ {STACK} : present(m, v) /\ m[v].w /\ m[v].u}

\* the pages process_fork copies and those it shares
copied_pages(m) == {v \in UserPages : present(m, v) /\ m[v].w /\ m[v].u}
shared_pages(m) == {v \in UserPages : present(m, v) /\ ~m[v].w /\ m[v].u}

\* process_fork: the writable pages are copied, the others shared, in ascending
\* order; when palloc fails on the way, what was done is undone by process_free.
Fork ==
    LET F == FreePages(pageinfo)
        slots == {p \in Pids : proc[p].state = "free"}
        child == Min(slots)
        W == copied_pages(me.pt)
        R == shared_pages(me.pt)
        Fails == slots = {} \/ table_choices(F) = {}
    IN  /\ Enter /\ May("fork")
        /\ \/ Fails /\ Resume(pageinfo, me)
           \/ /\ ~Fails
              /\ \E T \in table_choices(F) : \E c \in palloc_choices(W, F \ T) :
                   LET S == {v \in R : \A w \in W \ DOMAIN c : v < w}
                       ro == [v \in S |-> me.pt[v].pn]
                       m == map_user(map_user(kernel_part, c, TRUE), ro, FALSE)
                       pi == share(palloc(pageinfo, T \cup Taken(c), child), m, S)
                   IN  IF DOMAIN c = W
                       THEN /\ pageinfo' = pi
                            /\ proc' = [proc EXCEPT ![child] =
                                 Descriptor("runnable", proc[child].brk, proc[child].orig,
                                            m, T, TRUE)]
                            /\ UNCHANGED todo
                            /\ run(proc', current)
                       ELSE Resume(release(pi, m, T), me)

\* Mutants of shrink_pages: the page of the new break is left; the page below it
\* goes too.
shrink_pages_above(old, new) ==
    (new \div PAGESIZE + 1) .. ((old + PAGESIZE - 1) \div PAGESIZE)
shrink_pages_below(old, new) ==
    (new \div PAGESIZE - 1) .. ((old + PAGESIZE - 1) \div PAGESIZE)

\* the pages sbrk unmaps when the break moves down from old to new
shrink_pages(old, new) ==
    (new \div PAGESIZE) .. ((old + PAGESIZE - 1) \div PAGESIZE)

\* The loop counts i, which is unsigned, down to the page of the new break;
\* when that is page 0 the loop never ends.
sbrk(difference) ==
    LET new == me.brk + difference
        V == shrink_pages(me.brk, new)
        moved == [me EXCEPT !.brk = new]
    IN  IF new >= LIMIT \/ new < me.orig THEN Resume(pageinfo, me)
        ELSE IF difference >= 0 THEN Resume(pageinfo, moved)
        ELSE IF 0 \in V THEN Stop("hang")
        ELSE Resume(unref(pageinfo, me.pt, V), [moved EXCEPT !.pt = unmap(@, V)])

Sbrk(difference) == Enter /\ May("sbrk") /\ sbrk(difference)

Brk(new_address) == Enter /\ May("brk") /\ sbrk(new_address - me.brk)

\* INT_PAGEFAULT for an access to byte addr: no page, not the user's, or a
\* write to a read-only page
Faults(addr, write) ==
    LET v == addr \div PAGESIZE
    IN  ~present(me.pt, v) \/ ~me.pt[v].u \/ (write /\ ~me.pt[v].w)

InHeap(addr) == addr < me.brk /\ addr >= me.orig

PageFault(addr, write) ==
    LET v == addr \div PAGESIZE
        lazy == ~present(me.pt, v) /\ InHeap(addr)
        F == FreePages(pageinfo)
    IN  /\ Enter
        /\ Faults(addr, write)
        /\ \/ /\ lazy /\ F # {}
              /\ Resume(palloc(pageinfo, {Min(F)}, current),
                        [me EXCEPT !.pt = map_user(@, [x \in {v} |-> Min(F)], TRUE)])
           \/ ~(lazy /\ F # {}) /\ Leave

\* process_page_alloc: an address past the tables leaves the page allocated and
\* unmapped; an address inside a page fails an assertion of virtual_memory_map.
PageAlloc(addr) ==
    LET v == addr \div PAGESIZE
        F == FreePages(pageinfo)
        pi == palloc(pageinfo, {Min(F)}, current)
    IN  /\ Enter /\ May("page_alloc")
        /\ \/ (v < PROC_START \/ F = {}) /\ Resume(pageinfo, me)
           \/ /\ v >= PROC_START /\ F # {}
              /\ IF addr % PAGESIZE # 0 THEN Stop("assert")
                 ELSE IF v >= MAPTOP THEN Resume(pi, me)
                 ELSE Resume(pi, [me EXCEPT !.pt = map_user(@, [x \in {v} |-> Min(F)], TRUE)])

\* INT_SYS_PANIC, and exceptions that only default_exception handles
Panic == Enter /\ May("panic") /\ Stop("panic")

\* check_keyboard: in an exception, in schedule's loop and in fail()
Polling == Enter \/ mode \in {"spin", "assert", "panic"}
Restart(m, n) ==
    /\ pageinfo' = InitPages
    /\ proc' = NoProcs
    /\ current' = 1
    /\ mode' = m
    /\ todo' = 1 .. n
Reboot(n) == Polling /\ Restart("boot", n)
PowerOff == Polling /\ Restart("off", 0)

Next == \/ Setup
        \/ CheckFails
        \/ Timer \/ Yield \/ Exit \/ Fork \/ Panic
        \/ \E d \in Increments : Sbrk(d)
        \/ \E a \in Targets : Brk(a) \/ PageAlloc(a)
        \/ \E a \in 0 .. (VIRT * PAGESIZE - 1), write \in BOOLEAN : PageFault(a, write)
        \/ \E n \in Commands : Reboot(n)
        \/ PowerOff

Spec == Init /\ [][Next]_vars

\* Physical pages that mapping(a, ptr) writes when p calls it, if the checks pass:
\* the write starts at the physical address of a, and the last page is not checked
\* when it is the page looked up.
mapping_write(p, a, ptr, writable) ==
    LET m == proc[p].pt
        first == a \div PAGESIZE
        last == (a + VAMSIZE - 1) \div PAGESIZE
        end_ok == last = ptr \div PAGESIZE \/ (present(m, last) /\ m[last].w)
    IN  IF writable /\ end_ok THEN m[first].pn .. (m[first].pn + last - first) ELSE {}

\* Mutant: a buffer the process can only read will do.
mapping_writes_readable(p, a, ptr) ==
    mapping_write(p, a, ptr, proc[p].pt[a \div PAGESIZE].u)

mapping_writes(p, a, ptr) ==
    mapping_write(p, a, ptr, proc[p].pt[a \div PAGESIZE].w /\ proc[p].pt[a \div PAGESIZE].u)

\* The timer keeps interrupting user code: it fires HZ times a second and
\* process_init leaves interrupts enabled.
Tick == Timer \/ CheckFails
FairSpec == Spec /\ WF_vars(Tick)

-----------------------------------------------------------------------------
(* Properties *)

EntryType == [pn : Pages \cup {-1}, w : BOOLEAN, u : BOOLEAN]
ProcType == [state : {"free", "runnable"}, brk : Nat, orig : Nat,
             pt : [VPages -> EntryType], tables : SUBSET Pages, forked : BOOLEAN]

PageInfoType == [owner : {PO_FREE, PO_RESERVED, PO_KERNEL} \cup Pids, refcount : Int]

\* Pages, processes and the processor's mode have their types, and the process
\* that runs is runnable (the assertion of run).
TypeOK ==
    /\ pageinfo \in [Pages -> PageInfoType]
    /\ proc \in [Pids -> ProcType]
    /\ current \in Pids /\ mode \in Modes /\ todo \subseteq Pids
    /\ mode = "user" => current \in Active(proc)

\* how often page n is used: mappings of user memory, page tables, the kernel
High == VPages \ 0 .. (PROC_START - 1)
References(pr, n) ==
    Cardinality({x \in Active(pr) \X High : pr[x[1]].pt[x[2]].pn = n})
    + Cardinality({p \in Active(pr) : n \in pr[p].tables})
    + Cardinality({n} \cap (Reserved \cup KernelPages))

Counted(pi, pr) ==
    \A n \in Pages : /\ pi[n].refcount = References(pr, n)
                     /\ pi[n].refcount = 0 <=> pi[n].owner = PO_FREE

\* "pageinfo[pn].refcount is the number of times physical page pn is currently
\* referenced. 0 means it's free" (kernel.c:46-47): nothing is leaked and
\* nothing in use can be handed out again, after any sequence of forks, exits,
\* faults, shrinking breaks and allocations that fail half way.
RefcountExact == Counted(pageinfo, proc)

\* Half of RefcountExact, for programs that also map pages with page_alloc: a
\* page in use is never counted as free, so palloc never hands it out twice.
NeverUndercounted ==
    mode # "hang" => \A n \in Pages : pageinfo[n].refcount >= References(proc, n)

\* A page some process can write is its own: it is mapped once in the whole
\* system, holds no page table, and is not the kernel's.
WritableExclusive ==
    \A p \in Active(proc) : \A v \in High :
        proc[p].pt[v].w =>
            LET n == proc[p].pt[v].pn
            IN  /\ pageinfo[n] = PageInfo(p, 1)
                /\ \A q \in Active(proc) : n \notin proc[q].tables
                /\ \A q \in Active(proc) : \A x \in High :
                       proc[q].pt[x].pn = n => q = p /\ x = v

\* What check_virtual_memory, run and process_free assert of page tables holds in
\* every state, whoever forked, exited or ran out of memory before: the kernel's pages
\* are its own and mapped in every table, and the pages of a table are filed under its
\* process and used for nothing else.
TablesChecked ==
    /\ \A n \in KernelPages : pageinfo[n] = PageInfo(PO_KERNEL, 1)
    /\ \A p \in Active(proc) :
          /\ kernel_mapped(proc[p].pt)
          /\ \A n \in proc[p].tables : pageinfo[n] = PageInfo(p, 1)
          /\ tables_single(pageinfo, proc[p].pt, proc[p].tables)

\* "Check that all referenced pages refer to active processes" (kernel.c:560): the
\* last assertion of check_virtual_memory, on every entry of the kernel.
OwnersActive ==
    mode = "user" =>
        \A n \in Pages : pageinfo[n].refcount > 0 /\ pageinfo[n].owner >= 0
                           => pageinfo[n].owner \in Active(proc)

\* An assertion fails only if some page that fork has shared is filed under a process
\* that has exited.
AssertOnlyOrphans ==
    mode = "assert" =>
        \E n \in Pages, p \in Active(proc), v \in UserPages :
            /\ proc[p].pt[v].pn = n /\ ~proc[p].pt[v].w
            /\ pageinfo[n].owner \in Pids \ Active(proc)

Program(p) == Image \cup {STACK} \cup
              {v \in UserPages : v * PAGESIZE >= proc[p].orig /\ v * PAGESIZE < proc[p].brk}

\* Wherever sbrk puts the break, inside pages too, and whatever the page-fault handler
\* maps in between, a loaded process has, besides its image and its stack, only pages
\* that hold bytes below the break: shrinking leaves nothing above it.
PagesMatchBreak ==
    \A p \in Active(proc) :
        ~proc[p].forked => \A v \in High : present(proc[p].pt, v) => v \in Program(p)

\* As long as a process lives, no step takes away or replaces a page of it that lies
\* below the break it leaves, and none takes away anything unless it lowers the break;
\* the stack is out of its reach unless the break was inside the page below the stack.
LiveKept ==
    [][\A p \in Active(proc) \cap Active(proc') : \A v \in UserPages :
          /\ present(proc[p].pt, v)
          /\ \/ (v + 1) * PAGESIZE <= proc'[p].brk
             \/ proc[p].brk <= proc'[p].brk
             \/ v = STACK /\ proc[p].brk <= (STACK - 1) * PAGESIZE
          => proc'[p].pt[v] = proc[p].pt[v]]_vars

\* "program break defines the end of the process's data segment" (process.h:118): a
\* page with bytes below the break a step leaves is kept, the page of the break too.
LiveBytesKept ==
    [][\A p \in Active(proc) \cap Active(proc') : \A v \in UserPages :
          present(proc[p].pt, v) /\ v * PAGESIZE < proc'[p].brk
              => proc'[p].pt[v] = proc[p].pt[v]]_vars

\* fork gives the child its parent's address space: the same pages with the
\* same permissions, the writable ones on pages nobody had, the rest shared.
ForkMirrors ==
    [][mode = "user" =>
        \A p \in Active(proc') \ Active(proc) : \A v \in UserPages :
          LET a == me.pt[v]
              b == proc'[p].pt[v]
          IN  /\ b.w = a.w /\ b.u = a.u
              /\ ~a.w => b.pn = a.pn
              /\ a.w => b.pn \in FreePages(pageinfo)]_vars

\* Every runnable process gets the processor, whatever the others do, as long as
\* it lives and the kernel goes on.
EveryoneRuns ==
    \A p \in Pids : (mode = "user" /\ p \in Active(proc))
                      ~> (current = p \/ p \notin Active(proc) \/ mode # "user")

\* For a buffer within one page mapping() writes to the console or to a page that is
\* the caller's alone, whichever address is looked up: never to a page shared by fork,
\* a table, a page of somebody else or another reserved one.
MappingOwn ==
    mode = "user" =>
        \A a, ptr \in 0 .. (VIRT * PAGESIZE - 1) :
            a \div PAGESIZE = (a + VAMSIZE - 1) \div PAGESIZE =>
                \A n \in mapping_writes(current, a, ptr) :
                    n = CONSOLE \/ pageinfo[n] = PageInfo(current, 1)

-----------------------------------------------------------------------------
(* What the proofs assume of the programs, and the invariant they use *)

\* no program calls page_alloc, which can leak pages: counts are then exact
NoPageAlloc == "page_alloc" \notin Calls \cup ForkedCalls

\* forked processes leave their break alone: it is that of the slot's last user
ForkedKeepBreak == {"sbrk", "brk"} \cap ForkedCalls = {}

\* reserved pages and the kernel's stay what they were at boot
Permanent(pi) ==
    /\ \A n \in Reserved : pi[n] = PageInfo(PO_RESERVED, 1)
    /\ \A n \in KernelPages : pi[n] = PageInfo(PO_KERNEL, 1)

\* the breaks in a slot: never set, or those of a loaded program
Breaks(d) ==
    \/ d.orig = 0 /\ d.brk = 0
    \/ d.orig = ORIG /\ d.brk >= ORIG /\ (d.brk = ORIG \/ d.brk < LIMIT)

\* a page table maps low memory as kernel_part does, and pages behind it for the user
Shape(m) ==
    \A v \in VPages : IF v < PROC_START THEN m[v] = Entry(v, TRUE, v = CONSOLE)
                      ELSE m[v] = Absent \/ (m[v].pn \in Pages /\ m[v].u)

\* nothing is mapped behind MEMSIZE_VIRTUAL, where process_free does not look
Confined(m) == \A v \in High \ UserPages : m[v] = Absent

\* tables and writable pages of process p are filed under it, once
Owned(pi, p, d) ==
    /\ \A n \in d.tables : pi[n] = PageInfo(p, 1)
    /\ \A v \in High : d.pt[v].w => pi[d.pt[v].pn] = PageInfo(p, 1)

\* half of Counted
Covered(pi, pr) ==
    \A n \in Pages : /\ pi[n].refcount >= References(pr, n)
                     /\ pi[n].refcount = 0 <=> pi[n].owner = PO_FREE

\* what page_alloc does not keep
Exact(pi, pr) == Counted(pi, pr) /\ \A p \in Active(pr) : Confined(pr[p].pt)

Sound(pi, pr) ==
    /\ pi \in [Pages -> PageInfoType] /\ pr \in [Pids -> ProcType]
    /\ Covered(pi, pr) /\ Permanent(pi)
    /\ NoPageAlloc => Exact(pi, pr)
    /\ \A p \in Pids : Breaks(pr[p])
    /\ \A p \in Active(pr) : /\ Shape(pr[p].pt) /\ Owned(pi, p, pr[p])
                             /\ ~pr[p].forked => pr[p].orig = ORIG

\* pages for one process at boot
Footprint == NTABLES + Cardinality(Image) + 1

\* during boot, processes 1 to k - 1 of n are set up, and what they took is gone
Booting ==
    \E n \in Commands : \E k \in 1 .. n :
        /\ todo = k .. n /\ Active(proc) = 1 .. (k - 1)
        /\ Cardinality(FreePages(pageinfo)) + (k - 1) * Footprint
             = Cardinality(Pages \ (Reserved \cup KernelPages))

\* The inductive invariant behind the properties above: the kernel's books cover its
\* page tables, without page_alloc exactly, and whatever can be written or walked as
\* a table is filed under one process with one reference.
IndInv ==
    /\ TypeOK /\ Sound(pageinfo, proc)
    /\ mode = "boot" => Booting
    /\ NoPageAlloc => AssertOnlyOrphans

=============================================================================
