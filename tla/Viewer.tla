------------------------------- MODULE Viewer -------------------------------
(***************************************************************************)
(* The memory viewer of kernel/kernel.c: which process it shows            *)
(* (memshow_virtual_animate), when it is due for the next one, and the     *)
(* switches of syscall_mem_tog.  It runs at the top of exception(), before *)
(* the exception is handled; its statics survive a soft reboot.            *)
(***************************************************************************)
EXTENDS Integers, Sequences, FiniteSets

CONSTANTS
    NPROC,      \* process slots: 16; a command starts up to two processes
    HALFSECOND, \* HZ / 2: timer interrupts a process is shown for
    TICKS       \* ticks wraps here: 2^32

ASSUME ViewerAssumption ==
    NPROC \in Nat \ {0, 1, 2} /\ HALFSECOND \in Nat \ {0} /\ TICKS \in Nat /\ HALFSECOND < TICKS

Slots == 0 .. (NPROC - 1)
Pids == Slots \ {0}

\* the statics of memshow_virtual_animate
FirstView == [last_ticks |-> 0, showing |-> 1]

\* Mutant: the difference is not taken modulo the width of ticks.
elapsed_plain(now, last) == now - last

elapsed(now, last) == (now - last) % TICKS

\* time to go on to the next process
due(view, now) == view.last_ticks = 0 \/ elapsed(now, view.last_ticks) >= HALFSECOND

\* Mutant: the search ends at the last slot.
search_end_last == NPROC - 1

search_end == 2 * NPROC

\* showing after the loop that skips free slots
skip_free(from, alive) ==
    LET stops == {s \in from .. (search_end + 1) : s > search_end \/ s % NPROC \in alive}
    IN  IF from > search_end THEN from ELSE CHOOSE s \in stops : \A t \in stops : s <= t

memshow_virtual_animate(view, now, alive) ==
    LET next == IF due(view, now) THEN view.showing + 1 ELSE view.showing
    IN  [last_ticks |-> IF due(view, now) THEN now ELSE view.last_ticks,
         showing |-> skip_free(next, alive) % NPROC]

-----------------------------------------------------------------------------

VARIABLES
    alive,          \* pids whose slot is not free
    display_status, \* pids whose picture is not hidden
    current,        \* the process that runs, 0 if there is none
    disp_global,    \* the viewer is on
    ticks,          \* timer interrupts, modulo TICKS
    view,           \* the statics
    picture         \* the process whose memory was drawn last, 0 at first

viewer_vars == <<alive, display_status, current, disp_global, ticks, view, picture>>

\* kernel() for a command that starts n processes: process_init shows them
Booted(n) == alive' = 1 .. n /\ display_status' = 1 .. n /\ current' = 1

ViewerInit ==
    /\ alive = {1} /\ display_status = {1} /\ current = 1
    /\ disp_global = TRUE /\ ticks = 0 /\ view = FirstView /\ picture = 0

\* schedule(): the next process round robin
next_pid(S) ==
    LET distance(q) == IF q > current THEN q - current ELSE q - current + NPROC
    IN  IF S = {} THEN 0 ELSE CHOOSE q \in S : \A r \in S : distance(q) <= distance(r)

\* the top of exception()
Enter ==
    /\ current # 0
    /\ LET next == memshow_virtual_animate(view, ticks, alive)
       IN  IF disp_global
           THEN /\ view' = next
                /\ picture' = IF next.showing \in alive \cap display_status THEN next.showing ELSE picture
           ELSE UNCHANGED <<view, picture>>

\* the timer
Timer ==
    /\ Enter
    /\ ticks' = (ticks + 1) % TICKS
    /\ current' = next_pid(alive)
    /\ UNCHANGED <<alive, display_status, disp_global>>

\* a call that changes nothing here, or a yield
Call ==
    /\ Enter
    /\ current' \in {current, next_pid(alive)}
    /\ UNCHANGED <<alive, display_status, disp_global, ticks>>

\* exit, or a fault that kills; the slot keeps its display_status
Exit ==
    /\ Enter
    /\ alive' = alive \ {current}
    /\ current' = next_pid(alive \ {current})
    /\ UNCHANGED <<display_status, disp_global, ticks>>

\* process_fork into the lowest free slot, if there is one: process_init shows it,
\* whoever had it before, also when the fork then fails for want of memory
Fork ==
    /\ Enter
    /\ \E child \in Pids \ alive :
         /\ \A p \in Pids \ alive : child <= p
         /\ display_status' = display_status \cup {child}
         /\ alive' \in {alive, alive \cup {child}}
    /\ UNCHANGED <<current, disp_global, ticks>>

\* a process may hide only itself
may_toggle(p) == p = current

\* syscall_mem_tog
MemTog(p) ==
    /\ Enter
    /\ disp_global' = IF p = 0 THEN ~disp_global ELSE disp_global
    /\ display_status' = IF ~may_toggle(p) THEN display_status
                         ELSE IF p \in display_status THEN display_status \ {p}
                         ELSE display_status \cup {p}
    /\ UNCHANGED <<alive, current, ticks>>

\* A soft reboot, on the way into an exception or while schedule() finds nobody.
Reboot(n) ==
    /\ Enter \/ (current = 0 /\ UNCHANGED <<view, picture>>)
    /\ Booted(n)
    /\ UNCHANGED <<disp_global, ticks>>

ViewerNext ==
    \/ Timer \/ Call \/ Exit \/ Fork
    \/ \E p \in Slots : MemTog(p)
    \/ \E n \in {1, 2} : Reboot(n)

\* The timer keeps interrupting.
ViewerSpec == ViewerInit /\ [][ViewerNext]_viewer_vars /\ WF_viewer_vars(Timer)

-----------------------------------------------------------------------------
(* Properties *)

ViewerTypeOK ==
    /\ alive \subseteq Pids /\ display_status \subseteq Pids
    /\ current \in alive \cup {0}
    /\ view.showing \in Slots /\ view.last_ticks \in 0 .. (TICKS - 1)
    /\ ticks \in 0 .. (TICKS - 1) /\ picture \in Slots

\* The viewer always settles on a process that is alive, if one is: the search
\* from any slot finds it before it gives up.
ShownAlive ==
    /\ []ViewerTypeOK
    /\ [][disp_global /\ current # 0 => view'.showing \in alive]_<<view, ticks, current>>

\* Every process that stays alive and visible has its picture drawn again and
\* again, while others come and go and the tick counter wraps.
EveryoneShown ==
    \A p \in Pids :
        <>[](p \in alive \cap display_status /\ disp_global) => []<>(picture = p)

=============================================================================
