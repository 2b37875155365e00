# WeensyOS memory management: a TLA+ development

WeensyOS is a small x86-64 operating system for teaching: a kernel that runs a
handful of processes with paged virtual memory, and a user-level `malloc`
library over the kernel's `sbrk`. This directory holds TLA+ models of its
parts, the TLC runs that check them on small instances, and TLAPS proofs about
the allocator, the kernel's pages and processes, the page tables, the exception
path, the loaders, the keyboard, the viewer and the console for instances of any
size.

## The system

| Component | State | Operations | Talks to |
|---|---|---|---|
| Allocator (`uspace/malloc.c`) | two doubly linked lists of `elt` headers (free: ascending address; alloc: descending request), two counters | `malloc`, `calloc`, `realloc`, `free`, `defrag`, `heap_info` | kernel, through `sbrk` and page faults |
| Kernel core (`kernel/kernel.c`) | `pageinfo[]` (owner and reference count of each physical page), `processes[]` (state, breaks, registers, page table), `current` | `exception` with its system calls, page-fault handler and timer; `schedule`, `run`; `check_virtual_memory` on every entry | k-vm, vm, loader; processes by system calls |
| Memory viewer (`kernel/kernel.c`) | who is shown and since when, `display_status`, `disp_global`, `ticks` | `memshow_virtual_animate`, `syscall_mem_tog` | console |
| k-vm (only object code: `kernel/k-vm.o`, `obj/kernel.asm`) | - | `palloc`, `process_free`, `process_fork`, `process_page_alloc`, `process_config_tables`, `process_setup_stack` | `pageinfo[]`, page tables |
| Virtual memory (`kernel/vm.c`) | four-level page tables | `virtual_memory_map`, `virtual_memory_lookup`, `set_pagetable` | kernel, k-vm |
| Loaders (`kernel/boot.c`, `kernel/k-loader.c`) | disk, ELF images | `boot`, `boot_readseg`, `program_load` | palloc, vm; sets the breaks |
| Hardware support (`kernel/k-hardware.c`) | gates, interrupt mask, keyboard decoder, log | `hardware_init`, `keyboard_readc`, `check_keyboard` (soft reboot, power off), `kernel_panic`, `log_printf` | kernel, console |
| Exception entry (`kernel/k-exception.S`) | the frame on the kernel stack | save, restore | kernel |
| Shared library (`shared/lib.c`) | the screen, `cursorpos` | `snprintf` and `console_printf` families, strings | all |
| Application support (`uspace/process.[ch]`) | - | system call stubs, `app_printf`, `kernel_panic` | kernel, library |

What is hard to get right: sequences of allocator calls at block boundaries and
at the end of the heap; arithmetic that wraps; reference counts of pages that
are mapped lazily, copied or shared by fork and given back by exit, by a fault
or by a shrinking break, with memory running out half way; tables built in pages
that were somebody's before; state a process leaves in its slot for the next
one, and statics that survive a soft reboot; programs that print on one screen
with one shared cursor; and the scheduler. Kernel code runs with interrupts off
(`Machine` checks that it does), so the interleaving is that of whole
exceptions of several processes. Nothing is persistent: the only restart is the
soft reboot. `PROJECT.json` lists each hazard at its line.

## Modules

* `Heap` - the allocator as two sets of blocks `[at, size, req]`. Because the
  free list is sorted by address, first fit is "the lowest block that fits".
  One action for each call of the library; `Sbrk` is the program moving the
  break itself between two calls. `held` is what the program may use, `alive`
  whether the kernel has killed the process. Sizes are modulo `WORD`. The
  contents of regions are left out.
* `Malloc` - the same calls over the real data structure: headers in memory
  with `prev`, `next`, heads, tails, counters, and the functions that walk and
  relink them (`append_list_ordered` as `seek` and `link`, `remove_list`,
  `search_free`, the loop of `defrag`, `heap_info` with the report it fills
  in). `ImplementsHeap` says that every step is a step of `Heap`.
* `Kernel` - physical pages, processes, page tables as flat maps, system calls,
  lazy allocation, scheduling, panic, soft reboot. One exception, from entry to
  the return to user mode, is one action and begins with
  `check_virtual_memory`; `CheckFails` is what happens when that finds
  something. `palloc` gives the lowest free page; an allocation of several pages
  gives them lowest first (`palloc_choices`), and where memory ends `Fork`
  undoes what it did with `process_free` (`release`), as the code does. Free
  slots keep their breaks because the code does not reset them. `forked` is a
  history field: it lets a configuration give forked processes other calls than
  loaded ones. Page tables map the kernel below `PROC_START` and the console page for
  everybody (`kernel_part`). `mapping` changes no page of the kernel's books;
  `mapping_writes` are the physical pages it writes to.
* `PageTable` - the tables of `vm.c` as entries in physical pages: the walk of
  `lookup_l4pagetable`, `virtual_memory_map` with its cache of the last table,
  `virtual_memory_lookup`, `set_pagetable` with its assertions, the tables
  `process_config_tables` makes and `process_free` drops, and the three-page
  table a soft reboot builds at 0x8000. `translate` is the processor's own walk.
  A page that is free or in a user's hands may hold anything; it is taken to
  hold entries that are all present, the worst that can be found there. The
  reboot table ends in a large page.
* `AddressSpace` - what the tables promise, without tables: one map for each
  process, changed one page at a time and never through another process.
  `Implements` (in `PageTable`) is the refinement, and the reason why `Kernel`
  may use flat maps.
* `Loader` - `boot.c` reads the kernel sector by sector, `k-loader.c` copies a
  program into fresh pages; both over the program headers of a file whose bytes
  are all different, so that a byte in the wrong place shows. A
  program's segments are anywhere in the file, the kernel's at whole sectors. Junk
  in fresh pages, the busy disk, a bad magic number and too little memory included.
* `Printf` - `printer_vprintf` with flags, width, precision and conversion on
  integers of `INT` and `LONG` bits, the string printer, `vsnprintf`, and the
  message that a program's `kernel_panic` builds with them. A format is taken as
  already split into directives.
* `Console` - the screen, each cell holding who wrote it last. Programs print
  character by character (`Begin`, `Put`, `Store`) and the timer may switch
  between any two; the viewer, the status row, the fault line and the kernel's
  panic, with its wait for the parallel port, are the kernel's and run whole or,
  in a panic, with nobody else. `alone` records whether a print was disturbed. `Store` is one store of
  `cursorpos`: `process.c:17-22` may assign it twice, and the compiler makes one
  store of it (`obj/p-test.asm:272-281`), so the console's results are about the
  shipped programs and not about every compilation.
* `Keyboard` - the scan codes of `keyboard_readc`, its static `modifiers` and
  `last_escape`, and what `check_keyboard` does with a character. `down` is
  what the user holds.
* `Viewer` - whom the memory viewer shows, for how long and in which order,
  with the static state of `memshow_virtual_animate` and a tick counter that
  wraps.
* `Machine` - gates, interrupt mask, the frame pushed and popped by
  `k-exception.S`, its way into the descriptor of the process and out again
  through `run`, and the stubs programs call with. The registers hold values
  that differ, so that any permutation shows. Programs cause exceptions of all
  vectors they can; one above 15 goes to `default_int_handler`, whose frame is a
  word short unless the processor pushes an error code (`handler_words`). An
  exception that cannot be delivered ends in a reset of the processor.
* `Arith` - lemmas on division, remainders, cardinalities and least elements.
* `HeapProofs`, `KernelProofs`, `PageTableProofs`, `LoaderProofs`,
  `MachineProofs`, `ConsoleProofs` - the theorems about the module each is named
  after; `DeviceProofs` - those about `Viewer` and `Keyboard`.
* `MC*` - values for the constants of the runs (`Viewer` needs none). `MCKernel`
  also evaluates what the proofs about `Kernel` assume of the programs, so that
  the `kernel` run is an instance of all theorems and `kernel_page_alloc` of those
  that allow `page_alloc`. `MCParts` puts `Loader`, `Printf`, `Keyboard` and
  `Viewer` into one run. They share no variable, so every behaviour of the four is
  an interleaving of one of each, and each property is about one of them: in a
  behaviour of the run one part moves while the others rest in a state they can
  be in.

The modules cut the machine into aspects of one exception: `Machine` has its
registers, `Kernel` its pages and processes, `PageTable` the tables underneath,
`Console` and `Viewer` what it draws. They meet in `Kernel`'s flat maps
(refinement `Implements`), in the whole exception as one step (`InterruptsOff`)
and, for the allocator, in the kernel's `sbrk` (`new_break`, `sbrk_fails`).

Definitions whose comment begins with "Mutant" are single-fault variants of the
definition that follows; no specification uses them. They document which fault
each property catches: TLC reports the property when the variant is put in the
definition's place.

## Runs

| Run | What it shows |
|---|---|
| `heap` | After every sequence of calls the blocks partition the memory obtained from `sbrk` (`Partition`); regions are big enough and in blocks of their own (`HeldUsable`), and untouched by calls on other regions (`HeldStable`). `IndInv` is the inductive invariant of the proofs; it implies the types, the alignment of regions and the room for headers too. |
| `malloc` | The lists stay typed, linked both ways, counted and sorted (`ListsWellFormed`); one `defrag` from any state leaves no adjacent free blocks; `heap_info` from any state reports exactly the live allocations in descending order, in arrays with room for them; the lists implement `Heap`. |
| `kernel` | Up to three processes that fork, exit, fault, yield and move the break by any number of bytes, with 8 usable physical pages so that faults and forks run out of memory: the inductive invariant of the proofs (`IndInv`) holds; reference counts are exact (`RefcountExact`), writable pages exclusive (`WritableExclusive`), what the kernel asserts of tables and of its own pages holds (`TablesChecked`), pages above the break are gone (`PagesMatchBreak`), pages below it are kept (`LiveKept`), children mirror their parents (`ForkMirrors`). |
| `kernel_page_alloc` | With `page_alloc` at addresses that are mapped, misaligned, beyond `MEMSIZE_VIRTUAL` or beyond the tables: pages can leak, but a page in use is never counted as free (`NeverUndercounted`); `mapping` with a buffer within a page writes only to the console or to a page that is its caller's alone (`MappingOwn`); round robin serves every one of three processes (`EveryoneRuns`). |
| `pagetable` | With tables in recycled pages: `virtual_memory_lookup` agrees with the processor and no assertion on tables fails (`LookupExact`); the kernel is always mapped, through soft reboots too (`KernelReachable`); users reach only their own pages and the console (`UserConfined`); the tables implement `AddressSpace`. |
| `parts` | Loaders: every byte of an image arrives, bss is cleared (`ImageExact`), the break is behind all segments and rights are those of the segments (`BreakBehindImage`), and both loaders end (`Terminates`). Printf: no byte outside the buffer, terminated (`BufferKept`); a panic message ends with a newline, whatever its length (`PanicLine`); numbers read back (`ReadsBack`); fields have the right width, side and digits (`FieldExact`). Keyboard: `keyboard_readc` returns only documented codes (`ReturnsDocumented`); no modifier sticks, through failures and reboots (`NoStuckModifier`); every byte is read (`KeysRead`). Viewer: it settles on a living process (`ShownAlive`) and shows every one that stays alive and visible again and again, though others come and go and ticks wrap (`EveryoneShown`). |
| `console` | Nobody writes outside the screen or moves the shared cursor out of the text (`InScreen`); a print nobody disturbed is whole; a panic line is whole on screen and in the log, and a panic ends with a dead port too. |
| `machine` | Programs find their registers as they left them, except for a call's result; a child has its parent's and 0 (`RegistersKept`). The kernel runs with interrupts off from boot through soft reboots, only the timer interrupts, and the short frame that a program's exception above 15 builds always ends in a panic (`InterruptsOff`). |
| `heap_overread` | Violation (`Survives`): `realloc` copies a header's worth too much and can read past the break, which kills the process. |
| `kernel_orphans` | Violation (`OwnersActive`): a parent that exits before a child that shares its pages leaves them filed under its pid, and the kernel's own check (`kernel.c:563`) stops the machine. |
| `kernel_break_live` | Violation (`LiveBytesKept`): a break lowered into a page, as `tests/p-sbrk-simple.c` and `tests/p-brk-simple.c` lower it, loses the page with the bytes still below the break (`kernel.c:171`). |
| `machine_page_alloc` | Violation (`PageAllocReports`): `page_alloc` returns neither 0 nor -1, because its result is dropped (`kernel.c:333`). |

`findings` in `PROJECT.json` sets each of the four against what the repository says.

Seen with the same models and not kept as runs:

* A request near 2^64 wraps and gets a tiny block (`malloc.c:188`; `HeldUsable`
  without `NoWrap`).
* From a break in the last page below the stack, a shrinking break takes the
  stack (`kernel.c:171`, which begins with the page behind the old break); the case
  `LiveKept` leaves open.
* A forked child has the breaks its slot had before (`kernel.c:174`): moving them
  drops references to pages others use, and a break lowered into page 0 makes
  the loop endless. Forked processes therefore make no `sbrk` in the runs.
* `page_alloc` over a mapped page leaks the old one (`RefcountExact` fails).
* A buffer of `mapping` across a page boundary is written to the next physical
  page, whoever has it (`kernel.c:215`); `MappingOwn` is about the others.
* With `Gaps = {3}` the pointers of `Heap` are misaligned, because a chunk starts
  at the moved break; a failing `heap_info` loses its first array.
* The comment on the viewer says 0.25 s, the code waits `HZ / 2` ticks.
* Of the vectors 0 to 15 only the protection fault and the page fault have a
  gate. A division by zero or a stack fault in a program resets the machine, a bad
  opcode or a debug trap is taken for a protection fault, and an x87 error (16) or
  an alignment check (17) goes to `default_int_handler`: all of these that do not
  reset stop the kernel with a panic.
* Two programs that print at once overwrite each other's text.

### Bounds

* Allocator: blocks are multiples of 2, a header is 4 bytes, a chunk 16, and
  the heap 36 bytes long, so two chunks and part of a third fit. The requests
  make a split leave nothing, less than a header, exactly a header and more;
  three allocations fill a chunk, so lists reach their head, middle and tail
  cases; `calloc` is called with products that wrap to 0 and to a small number.
* Kernel: pages of 2 bytes; breaks move by -2, 0 and 3 bytes and to 9, 10 and 13,
  so that they lie on page boundaries and inside both heap pages; three slots; in
  `kernel` the command sets up one process and the others are forked, in
  `kernel_page_alloc` one or two; one table page per process (the code's five are
  taken and given back together, so their number matters only for when memory
  ends); one page of text, which makes the shared case of fork happen. Low memory
  has a page of the kernel, a reserved one, a free one and the console. Three
  related processes and one heap page fill the 8 free pages of `kernel`, two
  unrelated ones and one heap page the 7 of `kernel_page_alloc`: every allocation
  of the code fails in some state. Fault addresses are all bytes of the address
  space. `kernel_page_alloc` moves breaks by whole pages, and its addresses are
  one below `PROC_START`, one inside a page, one in the heap, which is mapped in
  some states, and two behind `MEMSIZE_VIRTUAL`, within and out of reach of the
  tables.
* PageTable: tables of 10 entries; page 0 and the console reserved, the kernel
  and its tables in pages 1 to 5, `PROC_START = 8`, so that page 7 is low and
  still handed out; 11 free pages, enough for the tables of two processes and one
  page, so that memory ends and pages are recycled as tables.
  Programs use a page of the second L4 table and one beyond the tables. The two
  processes are interchangeable (symmetry).
* Loader: pages of 4 bytes, sectors of 2; text of 1 to 5 bytes, data of 0 to 5
  in memory of up to 9, a header in between that is not to be loaded; files that
  begin on a page, on a sector (kernels) and inside one (programs), empty data at
  offset 0; memory that suffices and that does not.
* Printf: int of 4 bits and long of 5, all subsets of the flags, numbers at the
  limits of both, buffers of 0 to 8 bytes, messages of 0 to 9 characters around
  a panic buffer of 8.
* Console: 6 rows of 2 columns with the code's order of parts; two processes,
  `CALLS = 2` prints between two boots (one can interrupt the other), texts that
  cross the end of the screen, a panic message that comes round to the top,
  `POLLS = 2`; one process has a pid of two digits, which the status line prints
  over the end of the screen.
* Keyboard: all modifier keys, one key of every other kind, `HELD = 2` modifiers
  at a time (left and right together).
* Viewer: three processes, `HALFSECOND = 2` and ticks that wrap at `TICKS = 5`,
  so that 0, "never", comes round.
* Machine: two processes, two fillings of the registers, every call and one that
  no case handles, and every exception a program can cause, 16 to 31 included. There is no bound on the number of exceptions.

Deadlock is not checked where the system may stop: a process may be killed, the
kernel may spin without processes, panic, be powered off or be done loading.

### Fairness

`PartsSpec` of `MCParts` has the fairness of its parts; what rests has no fair step
to take.

* `Kernel!FairSpec`, `Viewer!ViewerSpec`: weak fairness of the timer. `timer_init(HZ)`
  starts a periodic timer and `process_init` leaves `EFLAGS_IF` set, so user code
  is interrupted again and again.
* `Loader!Spec`: weak fairness of every step: nothing interrupts the loaders, and
  a busy disk becomes ready.
* `Console!Spec`: weak fairness of the steps of a panic, which runs with
  interrupts off; not of the port becoming ready.
* `Keyboard!KeyboardSpec`: weak fairness of `CheckKeyboard`: exceptions keep coming, or
  `schedule` or `fail` polls in a loop.

No fairness is assumed of programs or of the user.

## Proofs

Each theorem holds for all values of the constants that meet the assumptions
named in its module. Every invariant below was an invariant of a TLC run of its
module before it was proved.

### `HeapProofs`

For all sizes, limits and sets of requests, from the assumptions named in `Heap`
(sizes positive, header and page multiples of the alignment, break below the
limit below the word) and two preconditions on the callers:

* `NoWrap` - no request is so large that adding the header and rounding wraps
  (without it there is a counterexample, see above);
* `AlignedGaps` - the program's own `sbrk` increments are multiples of the
  alignment.

Theorems: `Inductive` (`IndInv` always holds), `TypeCorrect`,
`HeapPartitioned`, `RegionsUsable` (usable, aligned, headers inside),
`RegionsStable`.

`IndInv` strengthens `Partition` with what it needs to be inductive: block
sizes and addresses are multiples of `ALIGN` and each block holds a header (so
that splitting leaves legal blocks), free blocks have request 0 and allocated
ones a positive request that fits (so that the two sets are disjoint and a
region determines its block), and every held region is backed by such a block.
The argument, one lemma for each operation: `grow` adds a block exactly at the
break; `place` and `free` retile the block they touch (`RetileWF`: replacing a
block by blocks that tile it keeps the heap well formed); `defrag` replaces a
maximal run of adjacent blocks by one, where the run's end is the least end of
a free block that is no start of one (`RunEndIs`, `RunFilled`); and the calls
are compositions of these.

### `KernelProofs`

For any number of slots and of physical and virtual pages, any layout of a
program and any set of boot commands, from the assumptions named in `Kernel`
(`KernelAssumption`; `BootAssumption`: the programs of one command fit in
memory, which the code asserts) and up to two preconditions on the programs,
each of which is needed (the counterexamples are listed above):

* `ForkedKeepBreak` - a forked process does not move its break, which is that of
  the slot's last user. With this alone: `Inductive`, `TypeCorrect`,
  `NeverHandedTwice` (`NeverUndercounted`), `Isolated` (`WritableExclusive`),
  `TablesAreChecked` (`TablesChecked`), `MappingIsolated` (`MappingOwn`),
  `ForkExact` (the action property `ForkMirrors`);
* `NoPageAlloc` - no program calls `page_alloc`, which leaks the page it maps
  over, maps pages where `process_free` does not look, and asserts on addresses
  inside a page. Also with this: `CountsExact` (`RefcountExact`), `OnlyOwnersAssert`
  (`AssertOnlyOrphans`: no assertion of the kernel can fail but the one that
  `kernel_orphans` shows failing), `BreakMatched` (`PagesMatchBreak`) and
  `BytesKept` (the action property `LiveKept`).

Breaks move by any number of bytes in all of them.

Neither `NeverUndercounted` nor `RefcountExact` is inductive: a count says nothing
about who has the page, and what can be written must not be shared. `IndInv` adds
`Sound`: counts are at least the number of references (`Covered`), reserved and
kernel pages are what they were at boot, every page table is the identity below
`PROC_START`, there for the kernel only except for the console, and for the user
behind it (`Shape`), and tables and writable pages
are filed under their process with one reference (`Owned`). Without `page_alloc`,
counts are exact and nothing is mapped behind `MEMSIZE_VIRTUAL` (`Exact`). A page
that is only counted too often is lost but harms nobody, which is why isolation
does not need `NoPageAlloc`. During boot it also counts the pages still free
(`Booting`), which is why the unchecked `palloc` in `process_setup_stack`
succeeds. The count of a page is split into what each process contributes, so
that a step of one process changes one term; then there is one lemma for each
operation that changes the books (a page handed out and lost, a page mapped,
pages unmapped, a whole process freed, a fork that succeeds or is undone half way),
and each system call is a composition of them. The last part adds that a loaded
process has besides its image and its stack only pages with bytes below its break;
the argument there is about the roundings of `kernel.c:171`.

### `PageTableProofs`

For tables and memory of any size, any layout of the kernel, any number of
processes and any addresses they use, from `PageTableAssumption`: physical memory
is within reach of the two L4 tables, the kernel, its tables and the reserved
pages lie below `PROC_START`, which is within the first L4 table, the console is
reserved, and the pages of the temporary table are not the kernel's. All of these
are facts of the code's constants and of `link/kernel.ld`. No precondition on the
programs. Theorems: `InvHolds`, `LookupIsExact` (`LookupExact`),
`KernelStaysReachable` (`KernelReachable`), `UsersAreConfined` (`UserConfined`)
and `TablesImplementMaps`, the refinement of `AddressSpace`.

What a process can reach depends on the contents of pages that the kernel hands
out, takes back and uses as tables, so none of the four is inductive. `Inv` says
for every table in use: its five pages are different and belong to the process,
the upper levels are linked as `process_config_tables` links them and hold nothing
else (`Tree`), low memory is the identity for the kernel only, except for the
console, and a leaf above it that is present names a page of the process that is
none of its tables and that no other leaf names (`ProcTree`). The last part is
needed although no property mentions it: `UnmapPage` gives a page back after
clearing one leaf, and if a second leaf named it, the process would keep another
process's page in reach. The argument: `PAGEINDEX` of an address within reach is 0,
0, 0 or 1, and the leaf's index, and beyond reach some upper index leads to an
empty entry (this is the arithmetic); on a `Tree` the walk of the kernel and that
of the processor both end at the leaf (`Leaf`); a call of `virtual_memory_map`
on a `Tree` is then a change of leaves, its loop being a recursive function on
the number of pages whose closed form is proved by a least counterexample; with
that, one lemma per action shows that the tables the action touches keep their
form and that the pages of the others are not written, because pages have one
owner. For the refinement the maps are computed from the leaves (`SpaceShown`),
and each action is shown to change one map at one page, to create or drop one, or
to change none. In the temporary table the walk ends at a large page, which covers
the kernel because `PROC_START` is within one table.

### `MachineProofs`

For any number of processes, any calls and any contents of the registers, with
no precondition: `Inductive`, `RegistersSurvive` (`RegistersKept`) and
`KernelUninterrupted` (`InterruptsOff`). The invariant says where the registers
of each process are at each stage: in the processor, in a full frame on the
kernel stack, or in the descriptor; that a frame that is not full reads 0 as its
interrupt number, which no case handles; that the gates stay loaded once they are;
and that no line but the timer's is opened. Of `rax` after `page_alloc` nothing is
said. The heart of it is that pushes,
struct and pops are one list in three forms (`PushedIs` and the lemmas after it).

### `LoaderProofs`

For any sizes of pages and sectors (a page being whole sectors), any memory and
any number of free pages, and for every file that `ImageAssumption` allows, which
is what the link scripts guarantee: segments in ascending order, each from a page
boundary of memory. Where a program's segments are in the file does not matter (the
linker puts them at 0xb0 and 0); the kernel's begin with a sector
(`KernelAssumption`), because `boot_readseg` reads from there: `InvHolds`, `ImagesAreExact`
(`ImageExact`) and `HeapBehindImage` (`BreakBehindImage`), for `boot.c` and
`k-loader.c` alike, with no further precondition. The properties speak of a loader
that is done; the invariant says what holds on the way: the segments before the
current header are exact (`Before`); `boot_readseg` has the bytes up to `ptr`, and
the next sector's place in the file goes with `ptr` (`Reading`); everything mapped
is below the break and every segment to come is above it (`Breaking`). The argument
is about roundings: a sector that begins below the end of a segment ends in the
segment's last page (`NextMultiple`), which no other segment shares, and the page
of a byte of a segment begins in the segment (`PageOf`).

### `DeviceProofs`

Keyboard, for any set of keys with codes 1 to 127 except 96, whose release would be
the escape byte 0xE0 itself (no keyboard has it): `CodesDocumented`
(`ReturnsDocumented`), `Inductive`, `NothingSticks` (`NoStuckModifier`). The
invariant: what is in the queue is the rest of one key, in step with
`last_escape`, and it accounts for the only modifier that may be on without a
key being held.

Viewer, for any number of slots above two and any width of ticks: `ViewerSettles`
(`ShownAlive`). The loop starts at `NPROC` or before and ends beyond
`2 * NPROC`, so it meets every slot's remainder (`SkipFree`). A boot command
starts up to two processes, which with slot 0 need three slots.

### `ConsoleProofs`

For any screen, processes and texts, from `ConsoleAssumption` (the order of the
parts of the screen, texts of characters and line ends): `Inductive`,
`ScreenKept` (`InScreen`), `PrintsWhole` (`UndisturbedWhole`). The cursor behind
each character is a recursive function of the position in the text; that it
stays in the screen or directly behind it is proved by a least counterexample
(`LeastExists` of `Arith`), which needs no induction principle. The invariant
adds that only the running process can be undisturbed and that a panic has
texts left to print.

`PanicIsWhole` (`PanicWhole`) adds `Panicking`, the stages of a panic: what is in
the log and on the screen while the prefix, the message and the end of its row are
logged and shown. It holds under `MessagesFit`: the cells a message can fill, a row
for each of its line ends, leave a row of the screen free. Without that a message
comes round to its own prefix and overwrites it. The messages of the kernel and of
its assertions are one line; a program's `panic` may pass up to 160 characters, two
rows, and violates `MessagesFit` only with more than twenty line ends in them.
The step that matters is `PutcBehind`: behind `w` cells of the message the cursor
is below the panic line, or at the top of the screen and `w` exceeds what was left.

### Only model-checked

* `Malloc` and `Printf`: their walks over lists and conversions of numbers compute
  by recursion over data of any length, and what they compute would have to be
  proved by induction over it, which the proof system does not support; so also the
  refinement `Malloc` => `Heap`.
* Liveness (`EveryoneRuns`, `EveryoneShown`, `KeysRead`, `PanicEnds`, the ends
  of the loaders) is out of the prover's reach.

## Not modelled

* Contents of memory beyond what is said above; in particular the message of a
  `panic` call, which the kernel copies from its first physical address and uses
  as a format (`kernel.c:281`).
* The parser of format strings (`lib.c:152-190`: flags, width, `*`, precision).
* What `program_load_segment` does to a segment that begins inside a page; the link
  scripts make none.
* `bootstart.S`, the GDT, the command bytes of the controllers, the PCI search of
  `poweroff`: they mean something only to the hardware.
* `memmove`, `strcmp`, `strchr`, `rand`: short sequential functions;
  `append_list` in `malloc.c` is never called.
* The test programs, which are callers of the system and are replaced by
  arbitrary sequences of calls; the Linux stand-in for the kernel; build tools.
* A `malloc` whose fresh chunk finds no physical page kills the process: that
  needs allocator and kernel in one model, which is out of reach of TLC at a size
  where both do anything.

## Plan

1. `AllocSpec`, what a heap promises its program without blocks or breaks, with
   `Heap` shown to implement it by TLC and by proof.
