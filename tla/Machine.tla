------------------------------ MODULE Machine ------------------------------
(***************************************************************************)
(* The way into the kernel and out of it: the gates and the interrupt      *)
(* controller set up by kernel/k-hardware.c, the frame k-exception.S       *)
(* builds and takes down, exception() and run() of kernel/kernel.c as far  *)
(* as registers go, and the system call stubs of uspace/process.h.  Pages  *)
(* are the business of Kernel and PageTable, the screen that of Console    *)
(* and Viewer.                                                             *)
(*                                                                         *)
(* The processor is external: it takes an exception through the gate of    *)
(* its vector, pushes five words, and clears its interrupt flag if the     *)
(* gate is an interrupt gate.                                              *)
(***************************************************************************)
EXTENDS Integers, Sequences, SequencesExt, TLC

CONSTANTS
    NPROC,      \* process slots
    Calls,      \* vectors programs use with int
    Stamps      \* what tells two fillings of the registers apart

INT_DIVIDE == 0
INT_DEBUG == 1
INT_INVALIDOP == 6
INT_STACK == 12
INT_GPF == 13
INT_PAGEFAULT == 14
INT_HARDWARE == 32
INT_TIMER == INT_HARDWARE
INT_SYS == 48
GETPID == INT_SYS + 1
YIELD == INT_SYS + 2
PAGE_ALLOC == INT_SYS + 3
FORK == INT_SYS + 4
EXIT == INT_SYS + 5
MAPPING == INT_SYS + 6
MEM_TOG == INT_SYS + 8
BRK == INT_SYS + 9
SBRK == INT_SYS + 10

DEFAULT == -1   \* default_int_handler
UNKNOWN == -2
RESULT == -3    \* in expected: the result of page_alloc
EFLAGS_IF == 512
PFERR_USER == 4

Pids == 1 .. (NPROC - 1)

ASSUME MachineAssumption ==
    NPROC \in Nat \ {0, 1} /\ Stamps \subseteq Nat \ {0} /\ Calls \subseteq 0 .. 255

-----------------------------------------------------------------------------
(* Registers and frames *)

\* struct x86_64_registers
x86_64_registers ==
    <<"rax", "rcx", "rdx", "rbx", "rbp", "rsi", "rdi", "r8", "r9", "r10", "r11", "r12",
      "r13", "r14", "r15", "fs", "gs", "intno", "err", "rip", "cs", "rflags", "rsp", "ss">>

Fields == ToSet(x86_64_registers)
position == [r \in Fields |-> CHOOSE k \in DOMAIN x86_64_registers : x86_64_registers[k] = r]

\* what the processor pushes, from the lowest address
iret_frame == <<"rip", "cs", "rflags", "rsp", "ss">>

\* the registers generic_exception_handler pushes, in that order
pushed == <<"gs", "fs", "r15", "r14", "r13", "r12", "r11", "r10", "r9", "r8",
            "rdi", "rsi", "rbp", "rbx", "rdx", "rcx", "rax">>

\* Mutant: two pops are swapped.
popped_swapped ==
    <<"rax", "rcx", "rdx", "rbx", "rbp", "rdi", "rsi", "r8", "r9", "r10", "r11", "r12",
      "r13", "r14", "r15", "fs", "gs">>

\* the registers exception_return pops
popped == <<"rax", "rcx", "rdx", "rbx", "rbp", "rsi", "rdi", "r8", "r9", "r10", "r11", "r12",
            "r13", "r14", "r15", "fs", "gs">>

\* the words of a frame in the order exception_return takes them
taken_at ==
    LET words == popped \o <<"intno", "err">> \o iret_frame
    IN  [r \in ToSet(words) |-> CHOOSE k \in DOMAIN words : words[k] = r]

Names == ToSet(pushed) \cup ToSet(iret_frame)

\* the frame on the kernel stack, from the lowest address up, with the words of the
\* handler between the registers it pushes and those the processor does
frame(regs, words) ==
    [k \in 1 .. Len(pushed) |-> regs[pushed[Len(pushed) + 1 - k]]]
    \o words
    \o [k \in 1 .. Len(iret_frame) |-> regs[iret_frame[k]]]

\* `current->p_registers = *reg`; what lies behind a short frame is not known
as_registers(f) ==
    [r \in Fields |-> IF position[r] <= Len(f) THEN f[position[r]] ELSE UNKNOWN]

\* exception_return: pops, drops the two words of the handler, and irets
restored(saved) == [r \in Names |-> saved[x86_64_registers[taken_at[r]]]]

\* a value of register r that no other register and no other stamp has
Value(r, stamp) == 1000 * stamp + position[r]

SEGSEL_APP_CODE == 19
SEGSEL_APP_DATA == 35
SEGSEL_KERN_CODE == 8

\* the registers process_init gives a value
special == "cs" :> SEGSEL_APP_CODE @@ "ss" :> SEGSEL_APP_DATA @@ "fs" :> SEGSEL_APP_DATA
           @@ "gs" :> SEGSEL_APP_DATA @@ "rflags" :> EFLAGS_IF

\* process_init, and the entry point and stack pointer of process_setup
process_init(stamp) ==
    [r \in Fields |->
        IF r \in DOMAIN special THEN special[r]
        ELSE IF r \in {"rip", "rsp"} THEN Value(r, stamp) ELSE 0]

\* registers a program has filled in
Filled(stamp) == [r \in Names |-> IF r \in DOMAIN special THEN special[r] ELSE Value(r, stamp)]

\* registers while the kernel runs
Kernel == [Filled(0) EXCEPT !["cs"] = SEGSEL_KERN_CODE]

-----------------------------------------------------------------------------
(* Gates and interrupt lines *)

\* Mutant: the gates leave interrupts on.
gate_type_trap == "trap"

gate_type == "interrupt"

\* segments_init: the gate of a vector
gates(vector) ==
    [present |-> vector \in {INT_GPF, INT_PAGEFAULT} \/ vector >= 16,
     dpl |-> IF vector \in INT_SYS .. (INT_SYS + 15) THEN 3 ELSE 0,
     type |-> gate_type,
     handler |-> IF vector \in {INT_GPF, INT_PAGEFAULT, INT_TIMER} \cup INT_SYS .. (INT_SYS + 15)
                 THEN vector ELSE DEFAULT]

\* vectors for which the processor pushes an error code
error_codes == {8} \cup 10 .. 14 \cup {17, 21, 29, 30}

\* The interrupt number and the error code, the processor's or, where it gives none, a
\* 0 of the handler.  default_int_handler pushes one word only, for every vector.
handler_words(vector, err) ==
    LET h == gates(vector).handler
    IN  IF h # DEFAULT THEN <<h, err>>
        ELSE IF vector \in error_codes THEN <<0, err>> ELSE <<0>>

\* Exceptions a program can cause: divide error, debug trap, bad opcode, stack fault,
\* protection and page fault, and the vectors above 15, where CR0_NE puts x87 errors
\* (16) and CR0_AM alignment checks (17)
exceptions == {INT_DIVIDE, INT_DEBUG, INT_INVALIDOP, INT_STACK, INT_GPF, INT_PAGEFAULT} \cup 16 .. 31

\* exceptions in which a second one is a double fault
contributory == {INT_DIVIDE} \cup 10 .. 13

Lines == {0, 1, 14}  \* timer, keyboard, disk: the lines that have a device

\* timer_init with a positive rate
timer_lines == {INT_TIMER - INT_HARDWARE}

VARIABLES
    stage,      \* "segments", "interrupts", "setup": boot; "user"; "entered";
                \* "idle": schedule() loops; "failed": kernel_panic;
                \* "reset": no gate for an exception
    idt,        \* segments_init has loaded the table
    enabled,    \* interrupts_enabled
    cpu,        \* the registers while a program runs
    flag,       \* the interrupt flag
    entry,      \* the frame of the exception being taken
    current,    \* the current process
    procs,      \* the descriptors
    expected    \* what each process should find in its registers

vars == <<stage, idt, enabled, cpu, flag, entry, current, procs, expected>>

Alive == {p \in Pids : procs[p].runnable}

NoProc == [runnable |-> FALSE, registers |-> process_init(0)]

Init ==
    /\ stage = "segments" /\ idt = FALSE /\ enabled = {} /\ flag = FALSE
    /\ cpu = Kernel /\ entry = <<>>
    /\ current = 1
    /\ procs = [p \in Pids |-> NoProc]
    /\ expected = [p \in Pids |-> Kernel]

\* segments_init
SegmentsInit ==
    /\ stage = "segments"
    /\ idt' = TRUE
    /\ stage' = "interrupts"
    /\ UNCHANGED <<enabled, cpu, flag, entry, current, procs, expected>>

\* interrupt_init, then timer_init
InterruptInit ==
    /\ stage = "interrupts"
    /\ enabled' = timer_lines
    /\ stage' = "setup"
    /\ UNCHANGED <<idt, cpu, flag, entry, current, procs, expected>>

\* run(p), the end of every way through the kernel
run(p, saved) ==
    /\ stage' = "user" /\ current' = p
    /\ cpu' = restored(saved)
    /\ flag' = (saved["rflags"] = EFLAGS_IF)
    /\ entry' = <<>>

\* process_setup for the first n processes, and run(&processes[1])
Setup(n, stamp) ==
    /\ stage = "setup"
    /\ procs' = [p \in Pids |-> IF p <= n THEN [runnable |-> TRUE, registers |-> process_init(stamp)]
                                ELSE NoProc]
    /\ expected' = [p \in Pids |-> restored(process_init(stamp))]
    /\ run(1, process_init(stamp))
    /\ UNCHANGED <<idt, enabled>>

\* A program computes.
Compute(stamp) ==
    /\ stage = "user"
    /\ cpu' = Filled(stamp)
    /\ expected' = [expected EXCEPT ![current] = Filled(stamp)]
    /\ UNCHANGED <<stage, idt, enabled, flag, entry, current, procs>>

\* The processor takes an exception.  A vector without a gate is a protection
\* fault; in the middle of a divide error or a stack fault that is a double fault,
\* which has no gate either, and the machine resets.
Take(vector, err) ==
    LET taken == IF gates(vector).present THEN vector ELSE INT_GPF
        regs == IF stage = "user" THEN cpu ELSE Kernel
    IN  IF idt /\ (gates(vector).present \/ vector \notin contributory)
        THEN /\ entry' = frame(regs, handler_words(taken, err))
             /\ flag' = (flag /\ gates(taken).type = "trap")
             /\ stage' = "entered"
             /\ UNCHANGED <<idt, enabled, cpu, current, procs, expected>>
        ELSE /\ stage' = "reset"
             /\ UNCHANGED <<idt, enabled, cpu, flag, entry, current, procs, expected>>

\* A device interrupts, if its line is open and interrupts are on.
Interrupt(line) ==
    /\ stage \notin {"failed", "reset"} /\ flag /\ line \in enabled
    /\ Take(INT_HARDWARE + line, 0)

\* A program executes int n; without the privilege that is a protection fault.
SystemCall(vector) ==
    /\ stage = "user"
    /\ Take(IF gates(vector).dpl < 3 THEN INT_GPF ELSE vector, 0)

\* A program causes an exception: a missing page, or one nobody handles.
UserFault(vector) ==
    /\ stage = "user"
    /\ Take(vector, IF vector = INT_PAGEFAULT THEN PFERR_USER ELSE 0)

-----------------------------------------------------------------------------
(* exception() *)

saved == as_registers(entry)
intno == entry[position["intno"]]

next_pid(p, alive) ==
    LET distance(q) == IF q > p THEN q - p ELSE q - p + NPROC
    IN  CHOOSE q \in alive : \A r \in alive : distance(q) <= distance(r)

\* Return to process p, or to the next one; with none left schedule() loops.
resume(p, processes) ==
    LET alive == {q \in Pids : processes[q].runnable}
        q == IF p \in alive THEN p ELSE next_pid(p, alive)
    IN  IF alive = {} THEN /\ stage' = "idle" /\ entry' = <<>>
                           /\ UNCHANGED <<cpu, flag, current>>
        ELSE run(q, processes[q].registers)

Enter(v) ==
    /\ stage = "entered" /\ intno = v
    /\ UNCHANGED <<idt, enabled>>

Saved == [procs EXCEPT ![current].registers = saved]

\* calls that return a value in rax
Return(v, results) ==
    /\ Enter(v)
    /\ \E rax \in results :
         LET processes == [Saved EXCEPT ![current].registers["rax"] = rax]
         IN  /\ procs' = processes
             /\ expected' = [expected EXCEPT ![current]["rax"] = rax]
             /\ resume(current, processes)

\* calls that return nothing, and a page fault that maps a page
Nothing(v) ==
    /\ Enter(v)
    /\ procs' = Saved
    /\ resume(current, Saved)
    /\ UNCHANGED expected

\* page_alloc: the result of process_page_alloc is dropped, and the program waits for it
PageAlloc ==
    /\ Enter(PAGE_ALLOC)
    /\ procs' = Saved
    /\ resume(current, Saved)
    /\ expected' = [expected EXCEPT ![current]["rax"] = RESULT]

child_registers(regs) == [regs EXCEPT !["rax"] = 0]

\* process_fork takes the lowest free slot
Fork ==
    /\ Enter(FORK)
    /\ \E child \in (Pids \ Alive) \cup {-1} :
         /\ child # -1 => \A p \in Pids \ Alive : child <= p
         /\ LET parent == [Saved EXCEPT ![current].registers["rax"] = child]
                processes ==
                  IF child = -1 THEN parent
                  ELSE [parent EXCEPT ![child].runnable = TRUE,
                                      ![child].registers = child_registers(saved)]
            IN  /\ procs' = processes
                /\ expected' = [p \in Pids |->
                     IF p = current THEN [expected[p] EXCEPT !["rax"] = child]
                     ELSE IF p = child THEN [expected[current] EXCEPT !["rax"] = 0] ELSE expected[p]]
                /\ resume(current, processes)

\* exit, or a page fault that kills
End(v) ==
    /\ Enter(v)
    /\ LET processes == [Saved EXCEPT ![current].runnable = FALSE]
       IN  procs' = processes /\ resume(current, processes)
    /\ UNCHANGED expected

\* yield and the timer go on with the next process
Schedule(v) ==
    /\ Enter(v)
    /\ procs' = Saved
    /\ LET p == next_pid(current, Alive) IN run(p, Saved[p].registers)
    /\ UNCHANGED expected

\* what the cases of exception() handle
Handled == {GETPID, YIELD, PAGE_ALLOC, FORK, EXIT, MAPPING, MEM_TOG, BRK, SBRK, INT_TIMER, INT_PAGEFAULT}

\* everything else ends in kernel_panic
Panic ==
    /\ stage = "entered" /\ intno \notin Handled
    /\ procs' = Saved
    /\ stage' = "failed"
    /\ UNCHANGED <<idt, enabled, cpu, flag, entry, current, expected>>

\* a soft reboot from exception(), schedule() or fail(): entry_from_boot clears the
\* flags, kernel() runs again, and the table stays loaded
SoftReboot ==
    /\ stage \in {"entered", "idle", "failed"}
    /\ flag' = FALSE /\ entry' = <<>> /\ stage' = "segments"
    /\ cpu' = Kernel /\ current' = 1
    /\ procs' = [p \in Pids |-> NoProc] /\ expected' = [p \in Pids |-> Kernel]
    /\ UNCHANGED <<idt, enabled>>

Handle ==
    \/ \E v \in {GETPID} : Return(v, {current})
    \/ \E v \in {BRK, SBRK} : Return(v, {0, -1})
    \/ \E v \in {MAPPING, MEM_TOG, INT_PAGEFAULT} : Nothing(v)
    \/ PageAlloc \/ Fork
    \/ \E v \in {EXIT, INT_PAGEFAULT} : End(v)
    \/ \E v \in {YIELD, INT_TIMER} : Schedule(v)
    \/ Panic

Next ==
    \/ SegmentsInit \/ InterruptInit
    \/ \E n \in {1, 2}, stamp \in Stamps : Setup(n, stamp)
    \/ \E stamp \in Stamps : Compute(stamp)
    \/ \E line \in Lines : Interrupt(line)
    \/ \E v \in Calls : SystemCall(v)
    \/ \E v \in exceptions : UserFault(v)
    \/ Handle
    \/ SoftReboot

Spec == Init /\ [][Next]_vars

-----------------------------------------------------------------------------
(* Properties *)

TypeOK ==
    /\ stage \in {"segments", "interrupts", "setup", "user", "entered", "idle", "failed", "reset"}
    /\ enabled \subseteq Lines /\ current \in Pids
    /\ DOMAIN cpu = Names
    /\ stage = "user" => current \in Alive

\* regs is what a program expects; of the result of page_alloc it knows nothing yet
Agrees(regs, exp) == \A r \in Names : exp[r] # RESULT => regs[r] = exp[r]

\* A program finds in every register what it left there, across any number of
\* interrupts, calls and switches to others, except for rax after a call that
\* returns a value; a child starts with its parent's registers and 0 in rax.  The
\* pushes, the struct and the pops agree.
RegistersKept == TypeOK /\ (stage = "user" => Agrees(cpu, expected[current]))

\* "Returns 0 on success and -1 on failure" (process.h:37-38): what a program finds in
\* rax after page_alloc.
PageAllocReports ==
    stage = "user" /\ expected[current]["rax"] = RESULT => cpu["rax"] \in {0, -1}

\* "Hardware interrupts are disabled whenever the kernel is running", from the first
\* instruction of a boot or soft reboot to the return to a program, and find the table
\* loaded and a handler of their own.  The short frame that default_int_handler builds
\* for a program's exception above 15 is read shifted by one word, but always ends in
\* kernel_panic: no program goes on from it.
InterruptsOff ==
    /\ flag => stage \in {"user", "reset"}
    /\ stage = "user" => idt
    /\ \A line \in enabled : gates(INT_HARDWARE + line).handler # DEFAULT
    /\ stage = "entered" /\ Len(entry) < Len(x86_64_registers) => intno \notin Handled

=============================================================================
