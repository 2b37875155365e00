------------------------------ MODULE Console ------------------------------
(***************************************************************************)
(* The screen and who writes on it: app_printf and kernel_panic of the     *)
(* programs (uspace/process.c), the console printer of shared/lib.c, the   *)
(* kernel's memory viewer, status cell, fault line and panic               *)
(* (kernel/kernel.c, kernel/k-hardware.c), and the parallel port of the    *)
(* log.                                                                    *)
(*                                                                         *)
(* A cell holds who wrote it last.  Programs print character by character  *)
(* and the timer may switch to another one in between; the kernel runs     *)
(* with interrupts off.  The compiled app_printf loads the shared          *)
(* cursorpos once and stores it once, with the reset already applied.      *)
(***************************************************************************)
EXTENDS Integers, Sequences, SequencesExt, FiniteSets

CONSTANTS
    ROWS, COLS,     \* size of the screen: 25 and 80
    STATUS,         \* first row below the text: 23
    PHYSICAL,       \* rows of the picture of physical memory: 8
    TITLE,          \* row of the title of virtual memory: 10
    VIRTUAL,        \* rows of its picture: 12
    MARGIN,         \* column where the pictures start: 3
    WIDTH,          \* columns of a picture: an address and 64 pages
    POLLS,          \* polls of a busy parallel port: 12800
    Procs,          \* processes
    TwoDigits,      \* those with a pid of 10 or more
    Texts,          \* what they print, sequences of CHAR and NL
    Messages,       \* what they and the kernel say when they panic
    PREFIX,         \* length of "PANIC: "
    CALLS           \* prints between two boots: a bound of the model

CHAR == "char"
NL == "newline"
CELLS == ROWS * COLS
CPOS(row, col) == row * COLS + col
CROW(cpos) == cpos \div COLS
CCOL(cpos) == cpos % COLS

ASSUME ConsoleAssumption ==
    /\ {ROWS, COLS, STATUS, PHYSICAL, TITLE, VIRTUAL, MARGIN, WIDTH, POLLS, PREFIX, CALLS} \subseteq Nat
    /\ STATUS + 2 = ROWS /\ PREFIX <= COLS
    /\ PHYSICAL < TITLE /\ TITLE + VIRTUAL < STATUS /\ MARGIN + WIDTH <= COLS /\ MARGIN < COLS
    /\ \A text \in Texts \cup Messages : text \in Seq({CHAR, NL})
    /\ TwoDigits \subseteq Procs
    /\ Procs \cap {"blank", "behind", "memory", "status", "panic", "message", "end"} = {}

VARIABLES
    screen,     \* who wrote each cell, and the memory behind the last one
    cursorpos,  \* the shared cursor
    printing,   \* per process: what it is printing, see Idle
    running,    \* the current process
    disp_global,\* the memory viewer is on
    mode,       \* "user", "panic" while kernel_panic prints, "fail" after it
    todo,       \* what kernel_panic has left to print, pieces and characters
    cpos,       \* its position
    polls,      \* polls of the busy port for the current character
    log,        \* pieces of each character that reached the port
    alone,      \* processes nobody has disturbed since they started to print
    calls       \* prints so far

panic_vars == <<mode, todo, cpos, polls, log>>
vars == <<screen, cursorpos, printing, running, disp_global, panic_vars, alone, calls>>

Idle == [call |-> "none", left |-> <<>>, cursor |-> 0, from |-> 0]

\* console_putc starts again at the top behind the last cell
wrapped(cursor) == IF cursor >= CELLS THEN 0 ELSE cursor

\* the last cell a character fills: a newline fills its row with blanks
last_cell(c, at) == IF c = NL THEN at - CCOL(at) + COLS - 1 ELSE at

\* the screen s with the cells of C written by who
written(s, C, who) == [k \in DOMAIN s |-> IF k \in C THEN who ELSE s[k]]

\* Mutant: a newline moves the cursor and leaves the rest of its row.
putc_cells_bare(c, cursor) ==
    IF c = NL THEN {} ELSE wrapped(cursor) .. last_cell(c, wrapped(cursor))

\* console_putc: the cells it writes, and the cursor behind them
putc_cells(c, cursor) == wrapped(cursor) .. last_cell(c, wrapped(cursor))

putc_cursor(c, cursor) == last_cell(c, wrapped(cursor)) + 1

\* where console_vprintf starts
start_at(pos) == IF pos < 0 \/ pos >= CELLS THEN 0 ELSE pos

\* where the cursor is behind each character of a text
cursors(pos, text) ==
    LET cursor[k \in 0 .. Len(text)] ==
          IF k = 0 THEN start_at(pos) ELSE putc_cursor(text[k], cursor[k - 1])
    IN  cursor

\* a whole console_vprintf, as the kernel runs it
console_vprintf(s, pos, text, who) ==
    LET cursor == cursors(pos, text)
        cells == UNION {putc_cells(text[k], cursor[k - 1]) : k \in DOMAIN text}
    IN  [screen |-> written(s, cells, who), cursor |-> cursor[Len(text)]]

Chars(n) == [k \in 1 .. n |-> CHAR]

\* the cells of a picture of memory
picture(first, rows) ==
    {CPOS(first + r, MARGIN + c) : r \in 0 .. (rows - 1), c \in 0 .. (WIDTH - 1)}

\* memshow_physical, and memshow_virtual if the process shown has not hidden
\* itself; a title is one cell here
memshow(s, virtual) ==
    LET cells == {CPOS(0, MARGIN)} \cup picture(1, PHYSICAL)
                 \cup (IF virtual THEN {CPOS(TITLE, MARGIN)} \cup picture(TITLE + 1, VIRTUAL) ELSE {})
    IN  written(s, cells, "memory")

-----------------------------------------------------------------------------

\* console_clear
Cleared == [k \in 0 .. (CELLS + COLS) |-> IF k < CELLS THEN "blank" ELSE "behind"]

Init ==
    /\ screen = Cleared
    /\ cursorpos = 0
    /\ printing = [p \in Procs |-> Idle]
    /\ running \in Procs
    /\ disp_global = TRUE
    /\ mode = "user"
    /\ todo = <<>> /\ cpos = 0 /\ polls = 0 /\ log = <<>>
    /\ alone = {} /\ calls = 0

\* app_printf loads cursorpos; the panic of a program starts at the status rows
Begin(p, call, text) ==
    /\ mode = "user" /\ running = p /\ printing[p] = Idle
    /\ calls < CALLS /\ calls' = calls + 1
    /\ LET at == start_at(IF call = "printf" THEN cursorpos ELSE CPOS(STATUS, 0))
       IN  printing' = [printing EXCEPT ![p] =
                           [call |-> call, left |-> text, cursor |-> at, from |-> at]]
    /\ alone' = alone \cup {p}
    /\ UNCHANGED <<screen, cursorpos, running, disp_global, panic_vars>>

\* one character
Put(p) ==
    /\ mode = "user" /\ running = p /\ printing[p].left # <<>>
    /\ LET c == Head(printing[p].left)
           cursor == printing[p].cursor
       IN  /\ screen' = written(screen, putc_cells(c, cursor), p)
           /\ printing' = [printing EXCEPT ![p].left = Tail(@), ![p].cursor = putc_cursor(c, cursor)]
    /\ alone' = alone \cap {p}
    /\ UNCHANGED <<cursorpos, running, disp_global, panic_vars, calls>>

\* Mutant: the cursor is left where the text ended.
next_cursor_raw(cursor) == cursor

\* the cursor goes back to the top when it has reached the status rows
next_cursor(cursor) == IF CROW(cursor) >= STATUS THEN 0 ELSE cursor

\* app_printf stores cursorpos, once in the programs as they are compiled
\* (obj/p-test.asm:272-281), where process.c assigns it before and after the test
Store(p) ==
    /\ mode = "user" /\ running = p
    /\ printing[p].call = "printf" /\ printing[p].left = <<>>
    /\ cursorpos' = next_cursor(printing[p].cursor)
    /\ printing' = [printing EXCEPT ![p] = Idle]
    /\ alone' = alone \cap {p}
    /\ UNCHANGED <<screen, running, disp_global, panic_vars, calls>>

\* the top of exception(): the viewer
shown_on_entry(s) == IF disp_global THEN {memshow(s, v) : v \in BOOLEAN} ELSE {s}

\* run(): the pid in the last cell, its second digit in the first one
run(s, p) ==
    console_vprintf(s, CPOS(ROWS - 1, COLS - 1), Chars(IF p \in TwoDigits THEN 2 ELSE 1), "status").screen

\* An exception that only switches: timer, yield, or a call that prints nothing.
Switch(p) ==
    /\ mode = "user"
    /\ \E s \in shown_on_entry(screen) : screen' = run(s, p)
    /\ running' = p
    /\ alone' = {}
    /\ UNCHANGED <<cursorpos, printing, disp_global, panic_vars, calls>>

\* mem_tog(0)
MemTog ==
    /\ mode = "user"
    /\ \E s \in shown_on_entry(screen) : screen' = run(s, running)
    /\ disp_global' = ~disp_global
    /\ alone' = {}
    /\ UNCHANGED <<cursorpos, printing, running, panic_vars, calls>>

\* A page fault of the running process: a line in the last row, and the process
\* is gone; somebody else goes on.
Fault(p) ==
    /\ mode = "user" /\ p # running
    /\ \E s \in shown_on_entry(screen) :
          screen' = run(console_vprintf(s, CPOS(ROWS - 1, 0), <<CHAR, NL>>, "status").screen, p)
    /\ running' = p
    /\ printing' = [printing EXCEPT ![running] = Idle]
    /\ alone' = {}
    /\ UNCHANGED <<cursorpos, disp_global, panic_vars, calls>>

\* Mutant: the message starts where the prefix does.
prefix_end_ignored(pos) == CPOS(STATUS, 0)

\* where kernel_panic goes on behind a piece
prefix_end(pos) == pos

\* The pieces kernel_panic prints: its prefix and its message, or one word.
pieces(message) ==
    IF message = <<>> THEN <<[who |-> "panic", text |-> Chars(PREFIX)]>>
    ELSE <<[who |-> "panic", text |-> Chars(PREFIX)], [who |-> "message", text |-> message]>>

\* kernel_panic: by an assertion of the kernel on any exception, or by the panic
\* call of a program that has printed its message (none if an assertion failed).
Panic(message) ==
    /\ mode = "user"
    /\ \/ message # <<>>
       \/ printing[running].call = "panic" /\ printing[running].left = <<>>
    /\ \E s \in shown_on_entry(screen) : screen' = s
    /\ mode' = "panic"
    /\ todo' = pieces(message)
    /\ cpos' = CPOS(STATUS, 0)
    /\ alone' = {}
    /\ UNCHANGED <<cursorpos, printing, running, disp_global, polls, log, calls>>

\* characters of a piece in the log
logged_of(who) == {k \in DOMAIN log : log[k] = who}

logged == Cardinality(logged_of(Head(todo).who))

\* Mutant: the counter is too narrow and wraps before the limit.
next_poll_narrow == (polls + 1) % POLLS

next_poll == polls + 1

\* parallel_port_putc finds the port busy
Wait ==
    /\ mode = "panic" /\ todo # <<>> /\ logged < Len(Head(todo).text)
    /\ polls < POLLS
    /\ polls' = next_poll
    /\ UNCHANGED <<screen, cursorpos, printing, running, disp_global, mode, todo, cpos, log, alone, calls>>

\* the port is ready, or is given up on
Log ==
    /\ mode = "panic" /\ todo # <<>> /\ logged < Len(Head(todo).text)
    /\ polls' = 0
    /\ log' = Append(log, Head(todo).who)
    /\ UNCHANGED <<screen, cursorpos, printing, running, disp_global, mode, todo, cpos, alone, calls>>

\* error_vprintf has logged a piece and puts it on the screen; a message that does
\* not end its row gets a newline
Show ==
    /\ mode = "panic" /\ todo # <<>> /\ logged = Len(Head(todo).text)
    /\ LET pic == console_vprintf(screen, cpos, Head(todo).text, Head(todo).who)
       IN  /\ screen' = pic.screen /\ cpos' = prefix_end(pic.cursor)
           /\ todo' = Tail(todo) \o (IF Head(todo).who = "message" /\ CCOL(pic.cursor) # 0
                                     THEN <<[who |-> "end", text |-> <<NL>>]>> ELSE <<>>)
    /\ UNCHANGED <<cursorpos, printing, running, disp_global, mode, polls, log, alone, calls>>

\* then fail()
EndPanic ==
    /\ mode = "panic" /\ todo = <<>>
    /\ mode' = "fail"
    /\ UNCHANGED <<screen, cursorpos, printing, running, disp_global, todo, cpos, polls, log, alone, calls>>

\* A soft reboot from fail() or on the entry of an exception: kernel() clears the
\* screen and runs a process.
Reboot(p) ==
    /\ mode \in {"user", "fail"}
    /\ screen' = run(Cleared, p) /\ cursorpos' = 0
    /\ printing' = [q \in Procs |-> Idle]
    /\ running' = p
    /\ mode' = "user"
    /\ todo' = <<>> /\ cpos' = 0 /\ polls' = 0 /\ log' = <<>> /\ alone' = {} /\ calls' = 0
    /\ UNCHANGED disp_global

Next ==
    \/ \E p \in Procs :
          \/ \E text \in Texts : Begin(p, "printf", text)
          \/ \E text \in Messages : Begin(p, "panic", text)
          \/ Put(p) \/ Store(p) \/ Switch(p) \/ Fault(p) \/ Reboot(p)
    \/ MemTog
    \/ \E message \in Messages \cup {<<>>} : Panic(message)
    \/ Wait \/ Log \/ Show \/ EndPanic

\* The kernel does not stop in the middle of a panic; whether the port is busy is
\* not up to it.
Spec == Init /\ [][Next]_vars /\ WF_vars(Wait \/ Log \/ Show \/ EndPanic)

-----------------------------------------------------------------------------
(* Properties *)

Writers == Procs \cup {"blank", "behind", "memory", "status", "panic", "message", "end"}

TypeOK ==
    /\ \A k \in DOMAIN screen : screen[k] \in Writers
    /\ cursorpos \in 0 .. CELLS
    /\ \A p \in Procs : printing[p].cursor \in 0 .. CELLS
    /\ mode \in {"user", "panic", "fail"}
    /\ cpos \in 0 .. CELLS /\ polls \in 0 .. POLLS

\* No print, of whatever length and from whatever position, writes behind the
\* screen, where cursorpos itself lives, and the viewer's pictures end above the
\* status rows.  However the prints of several processes interleave, the shared
\* cursor is in the text, so that a print never starts in the status rows.
InScreen ==
    /\ TypeOK
    /\ \A k \in DOMAIN screen : /\ screen[k] = "behind" <=> k >= CELLS
                                /\ screen[k] = "memory" => CROW(k) < STATUS
    /\ cursorpos < CPOS(STATUS, 0)

\* the cells that the first n characters of a text fill at most
filled(text, n) == n + (COLS - 1) * Cardinality({k \in 1 .. n : text[k] = NL})

\* A panic that is longer than the screen comes round to its own beginning; the
\* message a program passes to the panic call is at most two rows long.
MessagesFit == \A m \in Messages : PREFIX + filled(m, Len(m)) + COLS <= CELLS

\* When the machine has stopped, the panic line is whole on the screen, prefix and
\* message one behind the other and its last row ended, and it is in the log in the
\* same order, whatever was being printed and however slow the port is.
PanicWhole ==
    mode = "fail" =>
        LET first == CPOS(STATUS, 0)
            said == logged_of("message") # {}
        IN  /\ \A k \in first .. (first + PREFIX - 1) : screen[k] = "panic"
            /\ \A k \in DOMAIN log : k <= PREFIX <=> log[k] = "panic"
            /\ Len(log) >= PREFIX
            /\ said => /\ screen[first + PREFIX] = "message"
                       /\ log[PREFIX + 1] = "message" /\ Last(log) \in {"message", "end"}
                       /\ CCOL(cpos) = 0

\* A print that nobody disturbed is whole: every cell between where it started and
\* where it ended is its own, unless it ran over its own beginning.
UndisturbedWhole ==
    \A p \in alone :
        printing[p].call # "none" /\ printing[p].cursor >= printing[p].from =>
            \A k \in printing[p].from .. (printing[p].cursor - 1) : screen[k] = p

\* A panic ends, even if the parallel port never gets ready.
PanicEnds == mode = "panic" ~> mode = "fail"

=============================================================================
