---------------------------- MODULE ConsoleProofs ----------------------------
(***************************************************************************)
(* Proofs about Console for any size of the screen, any processes and any  *)
(* texts: nothing is written behind the screen, the shared cursor stays in *)
(* the text, a print that nobody disturbs is whole, and so is a panic.     *)
(*                                                                         *)
(* The position behind each character is a recursive function.  Facts      *)
(* about it are proved by a least counterexample.                          *)
(***************************************************************************)
EXTENDS Console, Arith, SequenceTheorems, FiniteSetTheorems

-----------------------------------------------------------------------------
(* Cells *)

\* The constants, from the assumption.
LEMMA Constants ==
    /\ ROWS \in Nat \ {0} /\ COLS \in Nat \ {0} /\ STATUS \in Nat \ {0} /\ STATUS < ROWS
    /\ MARGIN \in Nat /\ WIDTH \in Nat /\ MARGIN + WIDTH <= COLS /\ MARGIN < COLS
    /\ PHYSICAL \in Nat /\ TITLE \in Nat /\ VIRTUAL \in Nat /\ POLLS \in Nat /\ PREFIX \in Nat
    /\ PHYSICAL < TITLE /\ TITLE + VIRTUAL < STATUS
  BY ConsoleAssumption

\* A cell is in the row of its quotient, and a row of the screen is in the screen.
LEMMA RowIs ==
    ASSUME NEW row \in Nat, NEW col \in 0 .. (COLS - 1)
    PROVE  /\ CPOS(row, col) \in Nat /\ CROW(CPOS(row, col)) = row
           /\ row < ROWS => CPOS(row, col) < CELLS
           /\ row < STATUS => CPOS(row, col) < CPOS(STATUS, 0)
<1> DEFINE at == CPOS(row, col)
           q == at \div COLS
           r == at % COLS
<1>1. COLS \in Nat \ {0} /\ ROWS \in Nat /\ STATUS \in Nat
  BY Constants
<1>2. at = COLS * row + col /\ at \in Nat
  BY <1>1 DEF CPOS
<1>3. q \in Nat /\ r \in 0 .. (COLS - 1) /\ at = COLS * q + r
  <2> HIDE DEF at
  <2> QED BY <1>1, <1>2, DivMod
<1> HIDE DEF at, q, r
<1>4. q = row
  <2>1. CASE q < row
    <3>1. COLS * (q + 1) <= COLS * row
      BY <1>1, <1>3, <2>1, MulMono
    <3>2. COLS * (q + 1) = COLS * q + COLS
      BY <1>1, <1>3
    <3> QED BY <1>1, <1>2, <1>3, <3>1, <3>2
  <2>2. CASE row < q
    <3>1. COLS * (row + 1) <= COLS * q
      BY <1>1, <1>3, <2>2, MulMono
    <3>2. COLS * (row + 1) = COLS * row + COLS
      BY <1>1
    <3> QED BY <1>1, <1>2, <1>3, <3>1, <3>2
  <2> QED BY <1>3, <2>1, <2>2
<1>5. ASSUME NEW n \in Nat, row < n
      PROVE  at < n * COLS
  <2>1. COLS * (row + 1) <= COLS * n
    BY <1>1, <1>5, MulMono
  <2>2. COLS * (row + 1) = COLS * row + COLS /\ COLS * n = n * COLS
    BY <1>1
  <2>3. COLS * row \in Nat
    BY <1>1
  <2>4. n * COLS \in Nat
    BY <1>1
  <2> QED BY <1>1, <1>2, <2>1, <2>2, <2>3, <2>4
<1>6. CPOS(STATUS, 0) = STATUS * COLS /\ CELLS = ROWS * COLS
  BY <1>1 DEF CPOS, CELLS
<1> QED BY <1>1, <1>2, <1>4, <1>5, <1>6 DEF CROW, at, q

\* Every cell of the screen is a row and a column.
LEMMA CellIs ==
    ASSUME NEW at \in Nat
    PROVE  /\ CROW(at) \in Nat /\ CCOL(at) \in 0 .. (COLS - 1)
           /\ at = CPOS(CROW(at), CCOL(at))
           /\ at < CELLS => CROW(at) < ROWS
           /\ CROW(at) < STATUS => at < CPOS(STATUS, 0)
<1>1. COLS \in Nat \ {0} /\ ROWS \in Nat /\ STATUS \in Nat
  BY Constants
<1>2. CROW(at) \in Nat /\ CCOL(at) \in 0 .. (COLS - 1) /\ at = COLS * CROW(at) + CCOL(at)
  BY <1>1, DivMod DEF CROW, CCOL
<1>3. at = CPOS(CROW(at), CCOL(at))
  BY <1>1, <1>2 DEF CPOS
<1>4. ASSUME at < CELLS, ~(CROW(at) < ROWS)
      PROVE  FALSE
  <2>1. COLS * ROWS <= COLS * CROW(at)
    BY <1>1, <1>2, <1>4, MulMono
  <2>2. CELLS = COLS * ROWS
    BY <1>1 DEF CELLS
  <2>3. COLS * ROWS \in Nat /\ COLS * CROW(at) \in Nat
    BY <1>1, <1>2
  <2> QED BY <1>1, <1>2, <1>4, <2>1, <2>2, <2>3
<1>5. CROW(at) < STATUS => at < CPOS(STATUS, 0)
  BY <1>2, <1>3, RowIs
<1> QED BY <1>2, <1>3, <1>4, <1>5

\* The screen has room for the text and the two rows below it.
LEMMA CellsAre ==
    /\ CELLS \in Nat \ {0} /\ CPOS(STATUS, 0) \in Nat \ {0}
    /\ CPOS(STATUS, 0) < CELLS
<1>1. 0 \in 0 .. (COLS - 1)
  BY Constants
<1>2. CPOS(STATUS, 0) \in Nat /\ CPOS(STATUS, 0) < CELLS
  BY <1>1, Constants, RowIs
<1>3. CELLS \in Nat /\ CPOS(0, 0) = 0
  BY Constants DEF CELLS, CPOS
<1>4. CPOS(0, 0) < CPOS(STATUS, 0)
  BY <1>1, Constants, RowIs
<1> QED BY <1>2, <1>3, <1>4

\* One character: where it is written, and the cursor behind it.
LEMMA PutcIs ==
    ASSUME NEW cursor \in 0 .. CELLS, NEW c
    PROVE  /\ wrapped(cursor) \in 0 .. (CELLS - 1)
           /\ last_cell(c, wrapped(cursor)) \in wrapped(cursor) .. (CELLS - 1)
           /\ putc_cursor(c, cursor) \in 0 .. CELLS
           /\ putc_cells(c, cursor) \subseteq 0 .. (CELLS - 1)
<1> DEFINE at == wrapped(cursor)
<1>1. at \in 0 .. (CELLS - 1)
  BY CellsAre DEF wrapped
<1>2. last_cell(c, at) \in at .. (CELLS - 1)
  <2>1. CASE c = NL
    <3> HIDE DEF at
    <3>1. /\ CROW(at) \in Nat /\ CCOL(at) \in 0 .. (COLS - 1)
          /\ at = CPOS(CROW(at), CCOL(at)) /\ CROW(at) < ROWS
      BY <1>1, CellsAre, CellIs
    <3>2. COLS \in Nat \ {0} /\ COLS - 1 \in 0 .. (COLS - 1) /\ CELLS \in Nat
      BY Constants, CellsAre
    <3>3. CPOS(CROW(at), COLS - 1) < CELLS
      BY <3>1, <3>2, RowIs
    <3>4. CPOS(CROW(at), COLS - 1) = at - CCOL(at) + COLS - 1
      BY <3>1, <3>2 DEF CPOS
    <3>5. last_cell(c, at) = at - CCOL(at) + COLS - 1
      BY <2>1 DEF last_cell
    <3> QED BY <1>1, <3>1, <3>2, <3>3, <3>4, <3>5
  <2>2. CASE c # NL
    BY <1>1, <2>2, CellsAre DEF last_cell
  <2> QED BY <2>1, <2>2
<1> HIDE DEF at
<1>3. last_cell(c, at) + 1 \in 0 .. CELLS /\ at .. last_cell(c, at) \subseteq 0 .. (CELLS - 1)
  BY <1>1, <1>2, CellsAre
<1> QED BY <1>1, <1>2, <1>3 DEF at, putc_cursor, putc_cells

\* the equation of cursors for the first n characters
Follows(f, pos, text, n) ==
    f = [k \in 0 .. n |-> IF k = 0 THEN start_at(pos) ELSE putc_cursor(text[k], f[k - 1])]

\* The recursive definition of cursors has a solution.
LEMMA CursorsExist ==
    ASSUME NEW pos, NEW text, NEW n \in Nat
    PROVE  \E f : Follows(f, pos, text, n)
<1> DEFINE Bad == {m \in Nat : ~\E f : Follows(f, pos, text, m)}
<1> SUFFICES ASSUME n \in Bad
             PROVE  FALSE
  OBVIOUS
<1>1. Bad \in SUBSET Nat /\ Bad # {}
  OBVIOUS
<1>2. PICK m \in Bad : \A i \in Bad : m <= i
  <2> HIDE DEF Bad
  <2> QED BY <1>1, LeastExists
<1>3. CASE m = 0
  <2> DEFINE g == [k \in 0 .. 0 |-> start_at(pos)]
  <2>1. Follows(g, pos, text, 0)
    BY DEF Follows
  <2> QED BY <1>3, <2>1
<1>4. CASE m > 0
  <2>1. m - 1 \in Nat /\ m - 1 \notin Bad
    BY <1>2, <1>4
  <2>2. PICK f : Follows(f, pos, text, m - 1)
    BY <2>1
  <2> DEFINE g == [k \in 0 .. m |-> IF k = m THEN putc_cursor(text[m], f[m - 1]) ELSE f[k]]
  <2>3. ASSUME NEW k \in 0 .. m
        PROVE  g[k] = IF k = 0 THEN start_at(pos) ELSE putc_cursor(text[k], g[k - 1])
    <3>1. m \in Nat /\ \A i \in 0 .. (m - 1) : f[i] = IF i = 0 THEN start_at(pos) ELSE putc_cursor(text[i], f[i - 1])
      BY <2>2 DEF Follows
    <3>2. CASE k = m
      <4>1. m - 1 \in 0 .. m /\ m - 1 # m /\ m # 0
        BY <1>4, <3>1
      <4>2. g[k] = putc_cursor(text[m], f[m - 1]) /\ g[m - 1] = f[m - 1]
        BY <3>2, <4>1
      <4> HIDE DEF g
      <4> QED BY <3>2, <4>1, <4>2
    <3>3. CASE k # m /\ k # 0
      <4>1. k - 1 \in 0 .. m /\ k - 1 # m /\ k \in 0 .. (m - 1)
        BY <3>1, <3>3
      <4>2. g[k] = f[k] /\ g[k - 1] = f[k - 1]
        BY <3>3, <4>1
      <4> HIDE DEF g
      <4> QED BY <3>1, <3>3, <4>1, <4>2
    <3>4. CASE k # m /\ k = 0
      <4>1. g[0] = f[0] /\ 0 \in 0 .. (m - 1)
        BY <3>1, <3>4
      <4> HIDE DEF g
      <4> QED BY <3>1, <3>4, <4>1
    <3> QED BY <3>2, <3>3, <3>4
  <2>4. g = [k \in 0 .. m |-> g[k]]
    OBVIOUS
  <2> HIDE DEF g
  <2>5. Follows(g, pos, text, m)
    BY <2>3, <2>4 DEF Follows
  <2> QED BY <2>5
<1> QED BY <1>2, <1>3, <1>4

\* cursors satisfies its own equation.
LEMMA CursorsFollow ==
    ASSUME NEW pos, NEW text, Len(text) \in Nat
    PROVE  Follows(cursors(pos, text), pos, text, Len(text))
<1>1. \E f : Follows(f, pos, text, Len(text))
  BY CursorsExist
<1>2. cursors(pos, text) = CHOOSE f : Follows(f, pos, text, Len(text))
  BY DEF cursors, Follows
<1> QED BY <1>1, <1>2

\* Wherever a print starts, the cursor stays in the screen or directly behind it.
LEMMA CursorsIn ==
    ASSUME NEW pos \in Int, NEW text, Len(text) \in Nat, NEW k \in 0 .. Len(text)
    PROVE  cursors(pos, text)[k] \in 0 .. CELLS
<1> DEFINE f == cursors(pos, text)
           Bad == {i \in 0 .. Len(text) : f[i] \notin 0 .. CELLS}
<1>1. Follows(f, pos, text, Len(text))
  BY CursorsFollow
<1> HIDE DEF f
<1>2. \A i \in 0 .. Len(text) : f[i] = IF i = 0 THEN start_at(pos) ELSE putc_cursor(text[i], f[i - 1])
  BY <1>1 DEF Follows
<1> SUFFICES ASSUME k \in Bad
             PROVE  FALSE
  BY DEF f
<1>3. Bad \in SUBSET Nat /\ Bad # {}
  OBVIOUS
<1>4. PICK i \in Bad : \A j \in Bad : i <= j
  <2> HIDE DEF Bad
  <2> QED BY <1>3, LeastExists
<1>5. CASE i = 0
  <2>1. f[0] = start_at(pos)
    BY <1>2
  <2>2. start_at(pos) \in 0 .. CELLS
    BY CellsAre DEF start_at
  <2> QED BY <1>4, <1>5, <2>1, <2>2
<1>6. CASE i # 0
  <2>1. i \in 0 .. Len(text) /\ i - 1 \in 0 .. Len(text) /\ i - 1 \notin Bad
    BY <1>4, <1>6
  <2>2. f[i - 1] \in 0 .. CELLS /\ f[i] = putc_cursor(text[i], f[i - 1])
    BY <1>2, <1>6, <2>1
  <2>3. f[i] \in 0 .. CELLS
    BY <2>2, PutcIs
  <2> QED BY <1>4, <2>3
<1> QED BY <1>5, <1>6

\* A whole print, from any position: it writes cells of the screen only.
LEMMA VprintfIs ==
    ASSUME NEW s, NEW pos \in Int, NEW text \in Seq({CHAR, NL}), NEW who
    PROVE  /\ \E C \in SUBSET (0 .. (CELLS - 1)) :
                console_vprintf(s, pos, text, who).screen = written(s, C, who)
           /\ console_vprintf(s, pos, text, who).cursor \in 0 .. CELLS
<1> DEFINE f == cursors(pos, text)
           C == UNION {putc_cells(text[k], f[k - 1]) : k \in DOMAIN text}
<1>1. Len(text) \in Nat /\ DOMAIN text = 1 .. Len(text)
  BY LenProperties
<1>2. \A k \in 0 .. Len(text) : f[k] \in 0 .. CELLS
  BY <1>1, CursorsIn
<1>3. /\ console_vprintf(s, pos, text, who).screen = written(s, C, who)
      /\ console_vprintf(s, pos, text, who).cursor = f[Len(text)]
  BY DEF console_vprintf
<1> HIDE DEF f
<1>4. ASSUME NEW k \in DOMAIN text
      PROVE  putc_cells(text[k], f[k - 1]) \subseteq 0 .. (CELLS - 1)
  <2>1. k - 1 \in 0 .. Len(text)
    BY <1>1
  <2> QED BY <1>2, <2>1, PutcIs
<1>5. C \in SUBSET (0 .. (CELLS - 1))
  BY <1>4
<1>6. f[Len(text)] \in 0 .. CELLS
  BY <1>1, <1>2
<1> HIDE DEF C
<1> QED BY <1>3, <1>5, <1>6

-----------------------------------------------------------------------------
(* The screen *)

\* what InScreen says of a screen, with its size
Whole(s) ==
    /\ DOMAIN s = 0 .. (CELLS + COLS)
    /\ \A k \in DOMAIN s : /\ s[k] \in Writers
                           /\ s[k] = "behind" <=> k >= CELLS
                           /\ s[k] = "memory" => CROW(k) < STATUS

\* who prints: anything but what is behind the screen, and the viewer's pictures
Printers == Writers \ {"behind", "memory"}

\* Printing into the screen keeps it whole.
LEMMA WrittenIs ==
    ASSUME NEW s, Whole(s), NEW C \in SUBSET (0 .. (CELLS - 1)), NEW who \in Printers
    PROVE  Whole(written(s, C, who))
<1> DEFINE t == written(s, C, who)
<1>1. DOMAIN t = DOMAIN s /\ \A k \in DOMAIN s : t[k] = IF k \in C THEN who ELSE s[k]
  BY DEF written
<1> HIDE DEF t
<1>2. who \in Writers /\ who # "behind" /\ who # "memory"
  BY DEF Printers
<1>3. \A k \in C : ~(k >= CELLS)
  BY CellsAre
<1>4. Whole(t)
  BY <1>1, <1>2, <1>3 DEF Whole
<1> QED BY <1>4 DEF t

\* A whole print keeps the screen whole.
LEMMA PrintIs ==
    ASSUME NEW s, Whole(s), NEW pos \in Int, NEW text \in Seq({CHAR, NL}), NEW who \in Printers
    PROVE  Whole(console_vprintf(s, pos, text, who).screen)
<1>1. PICK C \in SUBSET (0 .. (CELLS - 1)) :
        console_vprintf(s, pos, text, who).screen = written(s, C, who)
  BY VprintfIs
<1> QED BY <1>1, WrittenIs

\* The cells of a picture that ends above the status rows.
LEMMA PictureIs ==
    ASSUME NEW first \in Nat, NEW rows \in Nat, first + rows <= STATUS,
           NEW k \in picture(first, rows)
    PROVE  k \in Nat /\ k < CELLS /\ CROW(k) < STATUS
<1>1. PICK r \in 0 .. (rows - 1), c \in 0 .. (WIDTH - 1) : k = CPOS(first + r, MARGIN + c)
  BY DEF picture
<1>2. first + r \in Nat /\ first + r < STATUS /\ first + r < ROWS /\ MARGIN + c \in 0 .. (COLS - 1)
  BY Constants
<1> QED BY <1>1, <1>2, RowIs

\* The viewer keeps the screen whole.
LEMMA MemshowIs ==
    ASSUME NEW s, Whole(s), NEW virtual
    PROVE  Whole(memshow(s, virtual))
<1> DEFINE C == {CPOS(0, MARGIN)} \cup picture(1, PHYSICAL)
                \cup (IF virtual THEN {CPOS(TITLE, MARGIN)} \cup picture(TITLE + 1, VIRTUAL) ELSE {})
           t == written(s, C, "memory")
<1>1. ASSUME NEW k \in C
      PROVE  k \in Nat /\ k < CELLS /\ CROW(k) < STATUS
  <2>1. MARGIN \in 0 .. (COLS - 1) /\ 0 < STATUS /\ 0 < ROWS /\ TITLE < STATUS /\ TITLE < ROWS
    BY Constants
  <2>2. CASE k \in {CPOS(0, MARGIN), CPOS(TITLE, MARGIN)}
    BY <2>1, <2>2, Constants, RowIs
  <2>3. CASE k \in picture(1, PHYSICAL)
    BY <2>3, Constants, PictureIs
  <2>4. CASE k \in picture(TITLE + 1, VIRTUAL)
    BY <2>4, Constants, PictureIs
  <2> QED BY <2>2, <2>3, <2>4
<1>2. memshow(s, virtual) = t
  BY DEF memshow
<1> HIDE DEF C
<1>3. DOMAIN t = DOMAIN s /\ \A k \in DOMAIN s : t[k] = IF k \in C THEN "memory" ELSE s[k]
  BY DEF written
<1> HIDE DEF t
<1>4. \A k \in C : ~(k >= CELLS)
  BY <1>1, CellsAre
<1>5. Whole(t)
  BY <1>1, <1>3, <1>4 DEF Whole, Writers
<1> QED BY <1>2, <1>5

\* What exception() shows on entry, and what run() shows on the way out.
LEMMA EntryIs ==
    ASSUME Whole(screen), NEW s \in shown_on_entry(screen)
    PROVE  Whole(s)
  BY MemshowIs DEF shown_on_entry

\* The words of the kernel are texts.
LEMMA TextsAre ==
    /\ \A n \in Nat : Chars(n) \in Seq({CHAR, NL})
    /\ <<CHAR, NL>> \in Seq({CHAR, NL})
    /\ <<NL>> \in Seq({CHAR, NL}) /\ Chars(PREFIX) \in Seq({CHAR, NL})
    /\ {"status", "panic", "message", "end"} \cup Procs \subseteq Printers
<1>1. ASSUME NEW n \in Nat
      PROVE  Chars(n) \in Seq({CHAR, NL})
  <2>1. Chars(n) \in [1 .. n -> {CHAR, NL}]
    BY DEF Chars
  <2> QED BY <2>1, SeqDef
<1>2. Chars(PREFIX) \in Seq({CHAR, NL})
  BY <1>1, Constants
<1>3. {"status", "panic", "message", "end"} \cup Procs \subseteq Printers
  BY ConsoleAssumption DEF Printers, Writers
<1> QED BY <1>1, <1>2, <1>3

\* run() keeps the screen whole.
LEMMA RunIs ==
    ASSUME NEW s, Whole(s), NEW p
    PROVE  Whole(run(s, p))
<1>1. CPOS(ROWS - 1, COLS - 1) \in Int
  BY Constants DEF CPOS
<1>2. Chars(IF p \in TwoDigits THEN 2 ELSE 1) \in Seq({CHAR, NL})
  BY TextsAre
<1> QED BY <1>1, <1>2, TextsAre, PrintIs DEF run

-----------------------------------------------------------------------------
(* The invariant *)

\* an element of printing
Printer(d) ==
    /\ d = [call |-> d.call, left |-> d.left, cursor |-> d.cursor, from |-> d.from]
    /\ d.cursor \in 0 .. CELLS /\ d.from \in 0 .. CELLS

\* what a panic has left to print
Pieces == Seq([who : {"panic", "message", "end"}, text : Seq({CHAR, NL})])

\* the cells from where p started to its cursor are its own
Own(s, p, d) ==
    d.call # "none" /\ d.cursor >= d.from => \A k \in d.from .. (d.cursor - 1) : s[k] = p

\* The strengthening of InScreen and UndisturbedWhole that every step keeps: the
\* screen has its size, every cursor is in it or directly behind it, a panic has
\* texts left to print, and only the process that runs can be undisturbed.
IndInv ==
    /\ Whole(screen)
    /\ cursorpos \in Nat /\ cursorpos < CPOS(STATUS, 0)
    /\ printing = [p \in Procs |-> printing[p]] /\ \A p \in Procs : Printer(printing[p])
    /\ running \in Procs /\ mode \in {"user", "panic", "fail"}
    /\ todo \in Pieces /\ cpos \in 0 .. CELLS /\ polls \in 0 .. POLLS
    /\ alone \subseteq {running} /\ (mode # "user" => alone = {})
    /\ \A p \in alone : Own(screen, p, printing[p])

\* The invariant gives both properties.
LEMMA InvImplies ==
    ASSUME IndInv
    PROVE  InScreen /\ UndisturbedWhole
<1>1. /\ cursorpos \in 0 .. CELLS /\ cursorpos < CPOS(STATUS, 0)
  BY CellsAre DEF IndInv
<1>2. \A p \in Procs : printing[p].cursor \in 0 .. CELLS
  BY DEF IndInv, Printer
<1>3. InScreen
  BY <1>1, <1>2 DEF IndInv, InScreen, TypeOK, Whole
<1>4. UndisturbedWhole
  BY DEF IndInv, UndisturbedWhole, Own
<1> QED BY <1>3, <1>4

\* A print starts.
LEMMA BeginInv ==
    ASSUME IndInv, NEW p \in Procs, NEW call, NEW text, Begin(p, call, text)
    PROVE  IndInv'
<1> DEFINE at == start_at(IF call = "printf" THEN cursorpos ELSE CPOS(STATUS, 0))
           d == [call |-> call, left |-> text, cursor |-> at, from |-> at]
<1>1. /\ mode = "user" /\ running = p /\ printing' = [printing EXCEPT ![p] = d]
      /\ alone' = alone \cup {p}
      /\ UNCHANGED <<screen, cursorpos, running, disp_global, mode, todo, cpos, polls, log>>
  BY DEF Begin, panic_vars
<1>2. at \in 0 .. CELLS
  BY CellsAre DEF IndInv, start_at
<1>3. Printer(d) /\ d.cursor = d.from /\ d.from \in Int
  BY <1>2, CellsAre DEF Printer
<1> HIDE DEF d
<1>4. /\ printing' = [q \in Procs |-> printing'[q]] /\ printing'[p] = d
      /\ \A q \in Procs \ {p} : printing'[q] = printing[q]
  BY <1>1 DEF IndInv
<1>5. \A q \in Procs : Printer(printing'[q])
  BY <1>3, <1>4 DEF IndInv
<1>6. alone' = {p}
  BY <1>1 DEF IndInv
<1>7. Own(screen', p, d)
  BY <1>3 DEF Own
<1>8. \A q \in alone' : Own(screen', q, printing'[q])
  BY <1>4, <1>6, <1>7
<1> QED BY <1>1, <1>4, <1>5, <1>6, <1>8 DEF IndInv

\* A character is printed.
LEMMA PutInv ==
    ASSUME IndInv, NEW p \in Procs, Put(p)
    PROVE  IndInv'
<1> DEFINE c == Head(printing[p].left)
           cursor == printing[p].cursor
           from == printing[p].from
           at == wrapped(cursor)
           last == last_cell(c, at)
           C == at .. last
           d == [printing[p] EXCEPT !.left = Tail(@), !.cursor = last + 1]
<1>1. /\ mode = "user" /\ running = p /\ screen' = written(screen, C, p)
      /\ printing' = [printing EXCEPT ![p].left = Tail(@), ![p].cursor = last + 1]
      /\ alone' = alone \cap {p}
      /\ UNCHANGED <<cursorpos, running, disp_global, mode, todo, cpos, polls, log>>
  BY DEF Put, panic_vars, putc_cells, putc_cursor
<1>2. cursor \in 0 .. CELLS /\ from \in 0 .. CELLS /\ Printer(printing[p]) /\ CELLS \in Nat
  BY CellsAre DEF IndInv, Printer
<1>3. /\ at \in 0 .. (CELLS - 1) /\ last \in at .. (CELLS - 1) /\ last + 1 \in 0 .. CELLS
      /\ C \in SUBSET (0 .. (CELLS - 1)) /\ (at = cursor \/ at = 0)
  <2> HIDE DEF c, cursor
  <2>1. /\ at \in 0 .. (CELLS - 1) /\ last \in at .. (CELLS - 1) /\ last + 1 \in 0 .. CELLS
        /\ C \in SUBSET (0 .. (CELLS - 1))
    BY <1>2, PutcIs DEF putc_cells, putc_cursor
  <2> QED BY <2>1 DEF wrapped
<1> HIDE DEF c, at, last
<1>4. /\ printing' = [q \in Procs |-> printing'[q]] /\ printing'[p] = d
      /\ \A q \in Procs \ {p} : printing'[q] = printing[q]
  BY <1>1 DEF IndInv
<1>5. d = [call |-> printing[p].call, left |-> Tail(printing[p].left), cursor |-> last + 1, from |-> from]
  <2> DEFINE x == printing[p]
             rest == Tail(printing[p].left)
  <2>1. d = [[x EXCEPT !.left = rest] EXCEPT !.cursor = last + 1]
    OBVIOUS
  <2>2. x = [call |-> x.call, left |-> x.left, cursor |-> x.cursor, from |-> x.from]
    BY <1>2 DEF Printer
  <2> HIDE DEF rest, x, d
  <2>3. [x EXCEPT !.left = rest] = [call |-> x.call, left |-> rest, cursor |-> x.cursor, from |-> x.from]
    BY <2>2
  <2>4. d = [call |-> x.call, left |-> rest, cursor |-> last + 1, from |-> x.from]
    BY <2>1, <2>3
  <2> QED BY <2>4 DEF x, rest
<1>6. Printer(d) /\ d.cursor = last + 1 /\ d.from = from /\ d.call = printing[p].call
  BY <1>2, <1>3, <1>5 DEF Printer
<1> HIDE DEF d
<1>7. \A q \in Procs : Printer(printing'[q])
  BY <1>4, <1>6 DEF IndInv
<1>8. Whole(screen')
  BY <1>1, <1>3, TextsAre, WrittenIs DEF IndInv
<1>9. ASSUME p \in alone
      PROVE  Own(screen', p, d)
  <2> SUFFICES ASSUME d.call # "none", NEW k \in d.from .. (d.cursor - 1)
               PROVE  screen'[k] = p
    BY DEF Own
  <2>1. k \in from .. last /\ k \in Int
    BY <1>2, <1>3, <1>6
  <2>2. k \in 0 .. (CELLS + COLS)
    BY <1>2, <1>3, <2>1, Constants
  <2>3. DOMAIN screen = 0 .. (CELLS + COLS)
    BY DEF IndInv, Whole
  <2>4. screen'[k] = IF k \in C THEN p ELSE screen[k]
    BY <1>1, <2>2, <2>3 DEF written
  <2>5. CASE k \in C
    BY <2>4, <2>5
  <2>6. CASE k \notin C
    <3>1. k < at /\ at = cursor
      BY <1>2, <1>3, <2>1, <2>6
    <3>2. k \in from .. (cursor - 1) /\ cursor >= from
      BY <1>2, <2>1, <3>1
    <3>3. Own(screen, p, printing[p])
      BY <1>9 DEF IndInv
    <3>4. screen[k] = p
      BY <1>6, <3>2, <3>3 DEF Own
    <3> QED BY <2>4, <2>6, <3>4
  <2> QED BY <2>5, <2>6
<1>10. \A q \in alone' : Own(screen', q, printing'[q])
  BY <1>1, <1>4, <1>9
<1> QED BY <1>1, <1>4, <1>7, <1>8, <1>10 DEF IndInv

\* app_printf stores the cursor, in the text.
LEMMA StoreInv ==
    ASSUME IndInv, NEW p \in Procs, Store(p)
    PROVE  IndInv'
<1> DEFINE cursor == printing[p].cursor
<1>1. /\ mode = "user" /\ running = p /\ cursorpos' = next_cursor(cursor)
      /\ printing' = [printing EXCEPT ![p] = Idle] /\ alone' = alone \cap {p}
      /\ UNCHANGED <<screen, running, disp_global, mode, todo, cpos, polls, log>>
  BY DEF Store, panic_vars
<1>2. cursor \in Nat
  BY CellsAre DEF IndInv, Printer
<1>3. cursorpos' \in Nat /\ cursorpos' < CPOS(STATUS, 0)
  <2> HIDE DEF cursor
  <2>1. CASE CROW(cursor) >= STATUS
    BY <1>1, <2>1, CellsAre DEF next_cursor
  <2>2. CASE ~(CROW(cursor) >= STATUS)
    <3>1. CROW(cursor) \in Nat /\ STATUS \in Nat
      BY <1>2, CellIs, Constants
    <3>2. CROW(cursor) < STATUS
      BY <2>2, <3>1
    <3> QED BY <1>1, <1>2, <2>2, <3>2, CellIs DEF next_cursor
  <2> QED BY <2>1, <2>2
<1>4. /\ printing' = [q \in Procs |-> printing'[q]] /\ printing'[p] = Idle
      /\ \A q \in Procs \ {p} : printing'[q] = printing[q]
  BY <1>1 DEF IndInv
<1>5. Printer(Idle) /\ Idle.call = "none"
  BY CellsAre DEF Idle, Printer
<1>6. \A q \in Procs : Printer(printing'[q])
  BY <1>4, <1>5 DEF IndInv
<1>7. \A q \in alone' : Own(screen', q, printing'[q])
  BY <1>1, <1>4, <1>5 DEF Own
<1> QED BY <1>1, <1>3, <1>4, <1>6, <1>7 DEF IndInv

\* A step of the kernel between two programs: whatever it shows, nobody is left
\* undisturbed.
LEMMA KernelInv ==
    ASSUME IndInv, Whole(screen'), running' \in Procs, alone' = {},
           printing' = [p \in Procs |-> printing'[p]], \A p \in Procs : Printer(printing'[p]),
           cursorpos' \in {0, cursorpos}, mode' \in {"user", "panic", "fail"},
           todo' \in Pieces, cpos' \in 0 .. CELLS, polls' \in 0 .. POLLS
    PROVE  IndInv'
<1>1. cursorpos' \in Nat /\ cursorpos' < CPOS(STATUS, 0)
  BY CellsAre DEF IndInv
<1> QED BY <1>1 DEF IndInv

\* Switches, with the viewer and the status cell.
LEMMA SwitchInv ==
    ASSUME IndInv, (\E p \in Procs : Switch(p)) \/ MemTog
    PROVE  IndInv'
<1>1. PICK s \in shown_on_entry(screen), p \in Procs : screen' = run(s, p) /\ running' = p
  BY DEF Switch, MemTog, IndInv
<1>2. Whole(screen')
  BY <1>1, EntryIs, RunIs DEF IndInv
<1>3. alone' = {} /\ UNCHANGED <<cursorpos, printing, mode, todo, cpos, polls>>
  BY DEF Switch, MemTog, panic_vars
<1>4. /\ printing' = [q \in Procs |-> printing'[q]] /\ \A q \in Procs : Printer(printing'[q])
      /\ cursorpos' = cursorpos /\ mode' \in {"user", "panic", "fail"}
      /\ todo' \in Pieces /\ cpos' \in 0 .. CELLS /\ polls' \in 0 .. POLLS
  BY <1>3 DEF IndInv
<1> QED BY <1>1, <1>2, <1>3, <1>4, KernelInv

\* A fault kills the running process.
LEMMA FaultInv ==
    ASSUME IndInv, NEW p \in Procs, Fault(p)
    PROVE  IndInv'
<1>1. PICK s \in shown_on_entry(screen) :
        screen' = run(console_vprintf(s, CPOS(ROWS - 1, 0), <<CHAR, NL>>, "status").screen, p)
  BY DEF Fault
<1>2. CPOS(ROWS - 1, 0) \in Int
  BY Constants DEF CPOS
<1>3. Whole(s)
  BY EntryIs DEF IndInv
<1>4. Whole(console_vprintf(s, CPOS(ROWS - 1, 0), <<CHAR, NL>>, "status").screen)
  BY <1>2, <1>3, PrintIs, TextsAre
<1>5. Whole(screen')
  BY <1>1, <1>4, RunIs
<1>6. /\ alone' = {} /\ running' = p /\ printing' = [printing EXCEPT ![running] = Idle]
      /\ UNCHANGED <<cursorpos, mode, todo, cpos, polls>>
  BY DEF Fault, panic_vars
<1>7. Printer(Idle)
  BY CellsAre DEF Idle, Printer
<1>8. /\ printing' = [q \in Procs |-> printing'[q]]
      /\ \A q \in Procs : printing'[q] = printing[q] \/ printing'[q] = Idle
  BY <1>6 DEF IndInv
<1>9. \A q \in Procs : Printer(printing'[q])
  BY <1>7, <1>8 DEF IndInv
<1>10. /\ mode' \in {"user", "panic", "fail"} /\ todo' \in Pieces
       /\ cpos' \in 0 .. CELLS /\ polls' \in 0 .. POLLS
  BY <1>6 DEF IndInv
<1> QED BY <1>5, <1>6, <1>8, <1>9, <1>10, KernelInv

\* The pieces of a panic.
LEMMA PiecesAre ==
    ASSUME NEW message \in Messages \cup {<<>>}
    PROVE  pieces(message) \in Pieces
<1> DEFINE Piece == [who : {"panic", "message", "end"}, text : Seq({CHAR, NL})]
<1>1. [who |-> "panic", text |-> Chars(PREFIX)] \in Piece
  BY TextsAre
<1>2. message # <<>> => [who |-> "message", text |-> message] \in Piece
  BY ConsoleAssumption
<1> HIDE DEF Piece
<1>3. pieces(message) \in Seq(Piece)
  BY <1>1, <1>2 DEF pieces
<1> QED BY <1>3 DEF Pieces, Piece

\* kernel_panic begins.
LEMMA PanicInv ==
    ASSUME IndInv, NEW message \in Messages \cup {<<>>}, Panic(message)
    PROVE  IndInv'
<1>1. /\ \E s \in shown_on_entry(screen) : screen' = s
      /\ mode' = "panic" /\ todo' = pieces(message) /\ cpos' = CPOS(STATUS, 0) /\ alone' = {}
      /\ UNCHANGED <<cursorpos, printing, running, polls>>
  BY DEF Panic
<1>2. Whole(screen')
  BY <1>1, EntryIs DEF IndInv
<1>3. todo' \in Pieces
  BY <1>1, PiecesAre
<1>4. cpos' \in 0 .. CELLS
  BY <1>1, CellsAre
<1>5. /\ printing' = [q \in Procs |-> printing'[q]] /\ \A q \in Procs : Printer(printing'[q])
      /\ polls' \in 0 .. POLLS /\ running' \in Procs /\ cursorpos' = cursorpos
  BY <1>1 DEF IndInv
<1> QED BY <1>1, <1>2, <1>3, <1>4, <1>5, KernelInv

\* A piece of a panic comes on the screen.
LEMMA ShowInv ==
    ASSUME IndInv, Show
    PROVE  IndInv'
<1> DEFINE Piece == [who : {"panic", "message", "end"}, text : Seq({CHAR, NL})]
           piece == Head(todo)
           pic == console_vprintf(screen, cpos, piece.text, piece.who)
           more == IF piece.who = "message" /\ CCOL(pic.cursor) # 0
                   THEN <<[who |-> "end", text |-> <<NL>>]>> ELSE <<>>
<1>1. /\ mode = "panic" /\ todo # <<>> /\ screen' = pic.screen /\ cpos' = pic.cursor
      /\ todo' = Tail(todo) \o more
      /\ UNCHANGED <<cursorpos, printing, running, mode, polls, alone>>
  BY DEF Show, prefix_end
<1>2. Whole(screen) /\ todo \in Seq(Piece) /\ cpos \in Int
  BY CellsAre DEF IndInv, Pieces
<1>3. piece \in Piece /\ Tail(todo) \in Seq(Piece)
  <2> HIDE DEF Piece
  <2> QED BY <1>1, <1>2
<1>4. piece.who \in Printers /\ piece.text \in Seq({CHAR, NL})
  <2>1. piece.who \in {"panic", "message", "end"} /\ piece.text \in Seq({CHAR, NL})
    BY <1>3
  <2> QED BY <2>1, TextsAre
<1>5. [who |-> "end", text |-> <<NL>>] \in Piece
  BY TextsAre
<1>6. more \in Seq(Piece)
  <2> HIDE DEF Piece
  <2> QED BY <1>5
<1>7. Whole(screen') /\ cpos' \in 0 .. CELLS
  <2> HIDE DEF piece
  <2> QED BY <1>1, <1>2, <1>4, PrintIs, VprintfIs
<1>8. todo' \in Pieces
  <2>1. Tail(todo) \o more \in Seq(Piece)
    <3> HIDE DEF Piece, more
    <3> QED BY <1>3, <1>6, ConcatProperties
  <2> QED BY <1>1, <2>1 DEF Pieces
<1>9. /\ printing' = [q \in Procs |-> printing'[q]] /\ \A q \in Procs : Printer(printing'[q])
      /\ polls' \in 0 .. POLLS /\ running' \in Procs /\ cursorpos' = cursorpos
      /\ mode' \in {"user", "panic", "fail"} /\ alone' = {}
  BY <1>1 DEF IndInv
<1> QED BY <1>7, <1>8, <1>9, KernelInv

\* The steps of a panic that print nothing.
LEMMA LogInv ==
    ASSUME IndInv, Wait \/ Log \/ EndPanic
    PROVE  IndInv'
<1>1. /\ mode = "panic" /\ mode' \in {"panic", "fail"}
      /\ polls' = polls \/ polls' = 0 \/ (polls < POLLS /\ polls' = polls + 1)
      /\ UNCHANGED <<screen, cursorpos, printing, running, todo, cpos, alone>>
  BY DEF Wait, Log, EndPanic, next_poll
<1>2. polls' \in 0 .. POLLS
  BY <1>1, Constants DEF IndInv
<1> QED BY <1>1, <1>2 DEF IndInv

\* kernel() starts again.
LEMMA RebootInv ==
    ASSUME IndInv, NEW p \in Procs, Reboot(p)
    PROVE  IndInv'
<1>1. /\ screen' = run(Cleared, p) /\ cursorpos' = 0 /\ printing' = [q \in Procs |-> Idle]
      /\ running' = p /\ mode' = "user" /\ todo' = <<>> /\ cpos' = 0 /\ polls' = 0 /\ alone' = {}
  BY DEF Reboot
<1>2. Whole(Cleared)
  BY CellsAre, Constants DEF Whole, Cleared, Writers
<1>3. Whole(screen')
  BY <1>1, <1>2, RunIs
<1>4. Printer(Idle) /\ <<>> \in Pieces
  BY CellsAre DEF Idle, Printer, Pieces
<1>5. /\ printing' = [q \in Procs |-> printing'[q]] /\ \A q \in Procs : Printer(printing'[q])
      /\ cpos' \in 0 .. CELLS /\ polls' \in 0 .. POLLS /\ todo' \in Pieces
  BY <1>1, <1>4, CellsAre, Constants
<1> QED BY <1>1, <1>3, <1>5, KernelInv

\* The invariant holds however the prints of several processes and the kernel
\* interleave.
THEOREM Inductive == Spec => []IndInv
<1>1. Init => IndInv
  <2> SUFFICES ASSUME Init
               PROVE  IndInv
    OBVIOUS
  <2>1. Whole(Cleared)
    BY CellsAre, Constants DEF Whole, Cleared, Writers
  <2>2. Printer(Idle) /\ <<>> \in Pieces
    BY CellsAre DEF Idle, Printer, Pieces
  <2> QED BY <2>1, <2>2, CellsAre, Constants DEF Init, IndInv
<1>2. IndInv /\ [Next]_vars => IndInv'
  <2> SUFFICES ASSUME IndInv, [Next]_vars
               PROVE  IndInv'
    OBVIOUS
  <2>1. CASE Next
    <3>1. ASSUME NEW p \in Procs, NEW text \in Texts, Begin(p, "printf", text)
          PROVE  IndInv'
      BY <3>1, BeginInv
    <3>2. ASSUME NEW p \in Procs, NEW text \in Messages, Begin(p, "panic", text)
          PROVE  IndInv'
      BY <3>2, BeginInv
    <3>3. ASSUME NEW p \in Procs, Put(p) \/ Store(p) \/ Switch(p) \/ Fault(p) \/ Reboot(p)
          PROVE  IndInv'
      BY <3>3, PutInv, StoreInv, SwitchInv, FaultInv, RebootInv
    <3>4. CASE MemTog
      BY <3>4, SwitchInv
    <3>5. ASSUME NEW message \in Messages \cup {<<>>}, Panic(message)
          PROVE  IndInv'
      BY <3>5, PanicInv
    <3>6. CASE Wait \/ Log \/ EndPanic
      BY <3>6, LogInv
    <3>7. CASE Show
      BY <3>7, ShowInv
    <3> QED BY <2>1, <3>1, <3>2, <3>3, <3>4, <3>5, <3>6, <3>7 DEF Next
  <2>2. CASE UNCHANGED vars
    BY <2>2 DEF vars, panic_vars, IndInv
  <2> QED BY <2>1, <2>2
<1> QED BY <1>1, <1>2, PTL DEF Spec

\* Nobody writes behind the screen, the pictures end above the status rows, and
\* the shared cursor stays in the text, for every size of the screen and all texts.
THEOREM ScreenKept == Spec => []InScreen
<1>1. IndInv => InScreen
  BY InvImplies
<1> QED BY <1>1, Inductive, PTL

\* A print that nobody disturbs is whole, also across the end of the screen.
THEOREM PrintsWhole == Spec => []UndisturbedWhole
<1>1. IndInv => UndisturbedWhole
  BY InvImplies
<1> QED BY <1>1, Inductive, PTL

-----------------------------------------------------------------------------
(* The panic line *)

\* where it begins, and where its message does
Line == CPOS(STATUS, 0)
Start == Line + PREFIX

PrefixPiece == [who |-> "panic", text |-> Chars(PREFIX)]
Said(m) == [who |-> "message", text |-> m]
EndPiece == [who |-> "end", text |-> <<NL>>]

\* the log l holds a characters of the prefix, b of the message, c of its end
LogIs(l, a, b, c) ==
    l = [k \in 1 .. (a + b + c) |->
           IF k <= a THEN "panic" ELSE IF k <= a + b THEN "message" ELSE "end"]

PrefixShown(s) == \A k \in Line .. (Start - 1) : s[k] = "panic"

\* a cursor that is behind the beginning of the message, or in the text again
Clear(c) == c \in 0 .. CELLS /\ (c < Line \/ c > Start)

\* The stages of a panic: the prefix is logged, then shown, then the message, then
\* the end of its row.
AtPrefix ==
    \E m \in Messages \cup {<<>>}, a \in 0 .. PREFIX :
        todo = pieces(m) /\ cpos = Line /\ LogIs(log, a, 0, 0)
AtMessage ==
    \E m \in Messages \ {<<>>} : \E b \in 0 .. Len(m) :
        /\ todo = <<Said(m)>> /\ cpos = Start /\ LogIs(log, PREFIX, b, 0)
        /\ PrefixShown(screen)
AtEnd ==
    \E b \in Nat \ {0}, c \in 0 .. 1 :
        /\ todo = <<EndPiece>> /\ LogIs(log, PREFIX, b, c)
        /\ PrefixShown(screen) /\ screen[Start] = "message" /\ Clear(cpos) /\ CCOL(cpos) # 0
Printed ==
    \E b \in Nat, c \in 0 .. 1 :
        /\ LogIs(log, PREFIX, b, c) /\ (b = 0 => c = 0) /\ PrefixShown(screen)
        /\ b > 0 => screen[Start] = "message" /\ CCOL(cpos) = 0

AllPrinted == todo = <<>> /\ Printed

\* What a panic has logged and shown at each stage; nothing is logged without one.
Panicking ==
    /\ mode = "user" => log = <<>>
    /\ mode = "panic" => AtPrefix \/ AtMessage \/ AtEnd \/ AllPrinted
    /\ mode = "fail" => Printed

\* The log grows by one character of the piece it is at.
LEMMA LogGrows ==
    ASSUME NEW l, NEW a \in Nat, NEW b \in Nat, NEW c \in Nat, LogIs(l, a, b, c)
    PROVE  /\ Len(l) = a + b + c /\ DOMAIN l = 1 .. (a + b + c)
           /\ b = 0 /\ c = 0 => LogIs(Append(l, "panic"), a + 1, 0, 0)
           /\ c = 0 => LogIs(Append(l, "message"), a, b + 1, 0)
           /\ LogIs(Append(l, "end"), a, b, c + 1)
<1> DEFINE n == a + b + c
           S == {"panic", "message", "end"}
           at(k) == IF k <= a THEN "panic" ELSE IF k <= a + b THEN "message" ELSE "end"
<1>1. n \in Nat /\ l = [k \in 1 .. n |-> at(k)]
  BY DEF LogIs
<1>2. l \in [1 .. n -> S]
  BY <1>1
<1>3. l \in Seq(S)
  BY <1>1, <1>2, SeqDef
<1>4. Len(l) = n
  BY <1>1, <1>2, <1>3, LenProperties
<1>5. ASSUME NEW x \in S
      PROVE  Append(l, x) = [k \in 1 .. (n + 1) |-> IF k <= n THEN at(k) ELSE x]
  <2>1. /\ Append(l, x) \in Seq(S) /\ Len(Append(l, x)) = n + 1
        /\ \A k \in 1 .. n : Append(l, x)[k] = l[k]
        /\ Append(l, x)[n + 1] = x
    BY <1>3, <1>4, AppendProperties
  <2>2. Append(l, x) = [k \in 1 .. (n + 1) |-> Append(l, x)[k]]
    BY <2>1, LenProperties, <1>1
  <2>3. \A k \in 1 .. (n + 1) : Append(l, x)[k] = IF k <= n THEN at(k) ELSE x
    BY <1>1, <2>1
  <2> QED BY <2>2, <2>3
<1>6. ASSUME b = 0, c = 0
      PROVE  LogIs(Append(l, "panic"), a + 1, 0, 0)
  BY <1>1, <1>5, <1>6 DEF LogIs
<1>7. ASSUME c = 0
      PROVE  LogIs(Append(l, "message"), a, b + 1, 0)
  BY <1>1, <1>5, <1>7 DEF LogIs
<1>8. LogIs(Append(l, "end"), a, b, c + 1)
  BY <1>1, <1>5 DEF LogIs
<1> QED BY <1>1, <1>4, <1>6, <1>7, <1>8

\* How often each piece is in the log.
LEMMA LogCounts ==
    ASSUME NEW a \in Nat, NEW b \in Nat, NEW c \in Nat, LogIs(log, a, b, c)
    PROVE  /\ logged_of("panic") = 1 .. a /\ Cardinality(logged_of("panic")) = a
           /\ logged_of("message") = (a + 1) .. (a + b) /\ Cardinality(logged_of("message")) = b
           /\ Cardinality(logged_of("end")) = c
<1>1. /\ DOMAIN log = 1 .. (a + b + c)
      /\ \A k \in 1 .. (a + b + c) :
            log[k] = IF k <= a THEN "panic" ELSE IF k <= a + b THEN "message" ELSE "end"
  BY DEF LogIs
<1>2. /\ logged_of("panic") = 1 .. a
      /\ logged_of("message") = (a + 1) .. (a + b)
      /\ logged_of("end") = (a + b + 1) .. (a + b + c)
  BY <1>1 DEF logged_of
<1>3. ASSUME NEW i \in Nat, NEW n \in Nat
      PROVE  Cardinality((i + 1) .. (i + n)) = n
  <2>1. Cardinality((i + 1) .. (i + n)) = IF i + 1 > i + n THEN 0 ELSE (i + n) - (i + 1) + 1
    BY FS_Interval
  <2> QED BY <2>1
<1>4. a + b \in Nat /\ 1 .. a = (0 + 1) .. (0 + a)
  OBVIOUS
<1>5. Cardinality(1 .. a) = a
  BY <1>3, <1>4
<1>6. Cardinality((a + 1) .. (a + b)) = b
  BY <1>3
<1>7. Cardinality((a + b + 1) .. (a + b + c)) = c
  BY <1>3, <1>4
<1> QED BY <1>2, <1>5, <1>6, <1>7

\* The panic line in the screen.
LEMMA LineIs ==
    /\ Line \in Nat \ {0} /\ Start \in Nat /\ PREFIX \in Nat /\ COLS \in Nat \ {0}
    /\ Line <= Start /\ Start = Line + PREFIX /\ Start < CELLS /\ COLS <= Line
    /\ CELLS \in Nat /\ CCOL(CELLS) = 0
<1>1. /\ COLS \in Nat \ {0} /\ STATUS \in Nat \ {0} /\ PREFIX \in Nat /\ PREFIX <= COLS
      /\ ROWS = STATUS + 2 /\ ROWS \in Nat
  BY Constants, ConsoleAssumption
<1>2. Line = COLS * STATUS /\ CELLS = COLS * ROWS /\ CELLS \in Nat /\ Line \in Nat
  BY <1>1 DEF Line, CPOS, CELLS
<1>3. COLS * (STATUS + 2) = COLS * STATUS + COLS + COLS
  BY <1>1
<1>4. COLS * STATUS >= COLS
  BY <1>1, MulPos
<1>5. CCOL(CELLS) = 0
  BY <1>1, <1>2, ModMultiple DEF CCOL
<1> QED BY <1>1, <1>2, <1>3, <1>4, <1>5 DEF Start

\* A row that begins above the panic line ends above it, and the next row begins at
\* column 0.
LEMMA RowEnds ==
    ASSUME NEW at \in Nat
    PROVE  /\ at - CCOL(at) + COLS \in (at + 1) .. (at + COLS)
           /\ at < Line => at - CCOL(at) + COLS <= Line
           /\ CCOL(at - CCOL(at) + COLS) = 0
<1>1. COLS \in Nat \ {0} /\ STATUS \in Nat /\ Line = COLS * STATUS
  BY Constants DEF Line, CPOS
<1> DEFINE r == CROW(at)
           e == at - CCOL(at) + COLS
<1>2. r \in Nat /\ CCOL(at) \in 0 .. (COLS - 1) /\ at = COLS * r + CCOL(at)
  BY <1>1, DivMod DEF CROW, CCOL
<1> HIDE DEF r
<1>3. e = COLS * (r + 1) /\ COLS * (r + 1) = COLS * r + COLS
  BY <1>1, <1>2
<1>4. ASSUME at < Line, r >= STATUS
      PROVE  FALSE
  <2>1. COLS * STATUS <= COLS * r /\ COLS * STATUS \in Nat
    BY <1>1, <1>2, <1>4, MulMono
  <2> QED BY <1>1, <1>2, <1>4, <2>1
<1>5. ASSUME at < Line
      PROVE  e <= Line
  <2>1. r + 1 <= STATUS /\ r + 1 \in Nat
    BY <1>1, <1>2, <1>4, <1>5
  <2>2. COLS * (r + 1) <= COLS * STATUS
    BY <1>1, <2>1, MulMono
  <2> QED BY <1>1, <1>3, <2>2
<1>6. e \in (at + 1) .. (at + COLS)
  BY <1>1, <1>2
<1> HIDE DEF e
<1>7. CCOL(e) = 0
  <2>1. e \in Nat /\ r + 1 \in Nat /\ e = COLS * (r + 1)
    BY <1>1, <1>2, <1>3, <1>6
  <2> QED BY <1>1, <2>1, ModMultiple DEF CCOL
<1> QED BY <1>5, <1>6, <1>7 DEF e

\* how far the cursor moves at most
Weight(x) == IF x = NL THEN COLS ELSE 1

\* One character moves the cursor at most by its weight; in the text it stays above
\* the panic line.
LEMMA PutcMoves ==
    ASSUME NEW at \in 0 .. (CELLS - 1), NEW x
    PROVE  /\ last_cell(x, at) + 1 \in (at + 1) .. (at + Weight(x))
           /\ at < Line => last_cell(x, at) < Line
           /\ x = NL => CCOL(last_cell(x, at) + 1) = 0
<1>1. at \in Nat /\ COLS \in Nat \ {0} /\ Line \in Nat /\ CCOL(at) \in 0 .. (COLS - 1)
  BY LineIs, CellIs
<1>2. CASE x = NL
  <2> DEFINE e == at - CCOL(at) + COLS
  <2>1. e \in (at + 1) .. (at + COLS) /\ (at < Line => e <= Line) /\ CCOL(e) = 0
    BY <1>1, RowEnds
  <2>2. last_cell(x, at) + 1 = e /\ Weight(x) = COLS /\ last_cell(x, at) = e - 1
    BY <1>1, <1>2 DEF last_cell, Weight
  <2> HIDE DEF e
  <2> QED BY <1>1, <2>1, <2>2
<1>3. CASE x # NL
  BY <1>1, <1>3 DEF last_cell, Weight
<1> QED BY <1>2, <1>3

\* a cursor behind w cells of the message: below its beginning, or round at the top
Behind(c, w) ==
    /\ c \in 0 .. CELLS
    /\ (c > Start /\ c <= Start + w) \/ (c < Line /\ c + CELLS <= Start + w)

\* One more character of a message that fits does not come round to the prefix.
LEMMA PutcBehind ==
    ASSUME NEW c, NEW x, NEW w \in Nat, c = Start \/ Behind(c, w),
           PREFIX + w + Weight(x) + COLS <= CELLS
    PROVE  /\ Behind(putc_cursor(x, c), w + Weight(x))
           /\ \A k \in Line .. (Start - 1) : k \notin putc_cells(x, c)
<1> DEFINE at == wrapped(c)
           n == last_cell(x, at) + 1
<1>1. c \in 0 .. CELLS
  BY LineIs DEF Behind
<1>2. at \in 0 .. (CELLS - 1) /\ n \in 0 .. CELLS
  BY <1>1, PutcIs DEF putc_cursor
<1>3. at = (IF c >= CELLS THEN 0 ELSE c)
  BY DEF wrapped
<1> HIDE DEF at
<1>4. n \in (at + 1) .. (at + Weight(x)) /\ (at < Line => n <= Line) /\ last_cell(x, at) = n - 1
  <2>1. last_cell(x, at) \in at .. (CELLS - 1)
    BY <1>1, PutcIs DEF at
  <2>2. n \in (at + 1) .. (at + Weight(x)) /\ (at < Line => last_cell(x, at) < Line)
    BY <1>2, PutcMoves
  <2>3. at \in Nat /\ CELLS \in Nat /\ Line \in Nat
    BY <1>2, LineIs
  <2> QED BY <2>1, <2>2, <2>3
<1> HIDE DEF n
<1>5. /\ Line \in Nat \ {0} /\ Start \in Nat /\ PREFIX \in Nat /\ COLS \in Nat \ {0}
      /\ Start = Line + PREFIX /\ Start < CELLS /\ CELLS \in Nat /\ Weight(x) \in Nat
  BY LineIs DEF Weight
<1>6. Behind(n, w + Weight(x))
  <2>1. CASE at >= Start /\ at <= Start + w
    <3>1. n > Start /\ n <= Start + (w + Weight(x))
      BY <1>2, <1>4, <1>5, <2>1
    <3> QED BY <1>2, <3>1 DEF Behind
  <2>2. CASE at < Line /\ at + CELLS <= Start + w
    <3>1. n + CELLS <= Start + (w + Weight(x))
      BY <1>2, <1>4, <1>5, <2>2
    <3>2. n < Line
      BY <1>2, <1>5, <3>1
    <3> QED BY <1>2, <3>1, <3>2 DEF Behind
  <2> QED BY <1>1, <1>3, <1>5, <2>1, <2>2 DEF Behind
<1>7. \A k \in Line .. (Start - 1) : k \notin at .. (n - 1)
  <2>1. at >= Start \/ at < Line
    BY <1>1, <1>3, <1>5 DEF Behind
  <2> QED BY <1>2, <1>4, <1>5, <2>1
<1>8. putc_cursor(x, c) = n /\ putc_cells(x, c) = at .. (n - 1)
  BY <1>4 DEF putc_cursor, putc_cells, at, n
<1> QED BY <1>6, <1>7, <1>8

\* What one more character adds to the cells filled.
LEMMA FilledStep ==
    ASSUME NEW m \in Seq({CHAR, NL}), NEW k \in 1 .. Len(m)
    PROVE  /\ filled(m, k - 1) \in Nat /\ filled(m, k) = filled(m, k - 1) + Weight(m[k])
           /\ filled(m, k) <= filled(m, Len(m)) /\ filled(m, Len(m)) \in Nat
<1> DEFINE N(n) == {i \in 1 .. n : m[i] = NL}
           C(n) == Cardinality(N(n))
<1>1. Len(m) \in Nat /\ COLS \in Nat \ {0} /\ COLS - 1 \in Nat
  BY LenProperties, Constants
<1>2. ASSUME NEW n \in Nat
      PROVE  IsFiniteSet(N(n)) /\ C(n) \in Nat
  <2>1. IsFiniteSet(1 .. n) /\ N(n) \subseteq 1 .. n
    BY FS_Interval
  <2>2. IsFiniteSet(N(n))
    BY <2>1, FS_Subset
  <2> QED BY <2>2, FS_CardinalityType
<1>3. filled(m, k) = filled(m, k - 1) + Weight(m[k])
  <2>1. CASE m[k] = NL
    <3>1. N(k) = N(k - 1) \cup {k} /\ k \notin N(k - 1) /\ k - 1 \in Nat
      BY <1>1, <2>1
    <3>2. IsFiniteSet(N(k - 1)) /\ C(k - 1) \in Nat
      BY <1>2, <3>1
    <3>3. C(k) = C(k - 1) + 1
      <4> HIDE DEF N
      <4> QED BY <3>1, <3>2, FS_AddElement
    <3>4. (COLS - 1) * (C(k - 1) + 1) = (COLS - 1) * C(k - 1) + (COLS - 1)
      <4> HIDE DEF C
      <4> QED BY <1>1, <3>2
    <3>5. (COLS - 1) * C(k - 1) \in Nat
      <4> HIDE DEF C
      <4> QED BY <1>1, <3>2
    <3>6. filled(m, k) = k + (COLS - 1) * C(k) /\ filled(m, k - 1) = k - 1 + (COLS - 1) * C(k - 1)
      BY DEF filled
    <3> HIDE DEF C
    <3> QED BY <1>1, <2>1, <3>3, <3>4, <3>5, <3>6 DEF Weight
  <2>2. CASE m[k] # NL
    <3>1. N(k) = N(k - 1) /\ k - 1 \in Nat
      BY <1>1, <2>2
    <3>2. C(k - 1) \in Nat /\ C(k) = C(k - 1)
      BY <1>2, <3>1
    <3>3. filled(m, k) = k + (COLS - 1) * C(k) /\ filled(m, k - 1) = k - 1 + (COLS - 1) * C(k - 1)
      BY DEF filled
    <3>4. (COLS - 1) * C(k - 1) \in Nat
      <4> HIDE DEF C
      <4> QED BY <1>1, <3>2
    <3> HIDE DEF C
    <3> QED BY <1>1, <2>2, <3>2, <3>3, <3>4 DEF Weight
  <2> QED BY <2>1, <2>2
<1>4. ASSUME NEW n \in Nat
      PROVE  filled(m, n) = n + (COLS - 1) * C(n) /\ (COLS - 1) * C(n) \in Nat
  <2>1. C(n) \in Nat
    BY <1>2
  <2>2. filled(m, n) = n + (COLS - 1) * C(n)
    BY DEF filled
  <2> HIDE DEF C
  <2> QED BY <1>1, <2>1, <2>2
<1>5. C(k) <= C(Len(m)) /\ C(k) \in Nat /\ C(Len(m)) \in Nat
  <2>1. IsFiniteSet(N(Len(m))) /\ C(Len(m)) \in Nat
    BY <1>1, <1>2
  <2>2. k \in Nat
    BY <1>1
  <2>3. C(k) \in Nat
    BY <1>2, <2>2
  <2>4. N(k) \in SUBSET N(Len(m))
    BY <1>1
  <2> HIDE DEF N
  <2> QED BY <2>1, <2>3, <2>4, FS_Subset
<1> HIDE DEF C
<1>6. (COLS - 1) * C(k) <= (COLS - 1) * C(Len(m))
  BY <1>1, <1>5, MulMono
<1>7. k \in Nat /\ k - 1 \in Nat /\ k <= Len(m)
  BY <1>1
<1>8. filled(m, k) <= filled(m, Len(m))
  BY <1>1, <1>4, <1>6, <1>7
<1>9. filled(m, k - 1) \in Nat /\ filled(m, Len(m)) \in Nat
  <2>1. \A i \in Nat, j \in Nat : i + j \in Nat
    OBVIOUS
  <2>2. filled(m, k - 1) \in Nat
    BY <1>4, <1>7, <2>1
  <2>3. filled(m, Len(m)) \in Nat
    BY <1>1, <1>4, <2>1
  <2> QED BY <2>2, <2>3
<1> QED BY <1>3, <1>8, <1>9

\* what a print leaves on the screen, and the cursor at each of its n characters
Shows(s, pos, text, who, n) ==
    /\ console_vprintf(s, pos, text, who).cursor = cursors(pos, text)[n]
    /\ cursors(pos, text)[0] = start_at(pos)
    /\ \A i \in 1 .. n : cursors(pos, text)[i] = putc_cursor(text[i], cursors(pos, text)[i - 1])
    /\ \A k \in DOMAIN s :
          console_vprintf(s, pos, text, who).screen[k] =
            IF \E i \in 1 .. n : k \in putc_cells(text[i], cursors(pos, text)[i - 1])
            THEN who ELSE s[k]

\* A whole print shows its characters one behind the other.
LEMMA VprintfShows ==
    ASSUME NEW s, NEW pos, NEW text, NEW who, DOMAIN text = 1 .. Len(text), Len(text) \in Nat
    PROVE  Shows(s, pos, text, who, Len(text))
<1> DEFINE f == cursors(pos, text)
           C == UNION {putc_cells(text[i], f[i - 1]) : i \in DOMAIN text}
<1>1. Follows(f, pos, text, Len(text))
  BY CursorsFollow
<1>2. /\ console_vprintf(s, pos, text, who).screen = written(s, C, who)
      /\ console_vprintf(s, pos, text, who).cursor = f[Len(text)]
  BY DEF console_vprintf
<1> HIDE DEF f
<1>3. /\ f[0] = start_at(pos)
      /\ \A i \in 1 .. Len(text) : f[i] = putc_cursor(text[i], f[i - 1])
  <2>1. \A i \in 0 .. Len(text) : f[i] = IF i = 0 THEN start_at(pos) ELSE putc_cursor(text[i], f[i - 1])
    BY <1>1 DEF Follows
  <2> QED BY <2>1
<1>4. ASSUME NEW k \in DOMAIN s
      PROVE  written(s, C, who)[k] =
               IF \E i \in 1 .. Len(text) : k \in putc_cells(text[i], f[i - 1]) THEN who ELSE s[k]
  <2>1. k \in C <=> \E i \in 1 .. Len(text) : k \in putc_cells(text[i], f[i - 1])
    OBVIOUS
  <2> HIDE DEF C
  <2> QED BY <2>1 DEF written
<1> QED BY <1>2, <1>3, <1>4 DEF f, Shows

\* The cells of the panic line are cells of the screen.
LEMMA LineShown ==
    ASSUME NEW s, DOMAIN s = 0 .. (CELLS + COLS)
    PROVE  Start \in DOMAIN s /\ \A k \in Line .. (Start - 1) : k \in DOMAIN s
  BY LineIs

\* The prefix of a panic is put at the beginning of the line.
LEMMA PrefixIsShown ==
    ASSUME NEW s, DOMAIN s = 0 .. (CELLS + COLS)
    PROVE  /\ PrefixShown(console_vprintf(s, Line, Chars(PREFIX), "panic").screen)
           /\ console_vprintf(s, Line, Chars(PREFIX), "panic").cursor = Start
<1> DEFINE text == Chars(PREFIX)
           f == cursors(Line, text)
           Bad == {i \in 0 .. PREFIX : f[i] # Line + i}
<1>1. /\ Line \in Nat /\ Start = Line + PREFIX /\ PREFIX \in Nat /\ Start < CELLS
      /\ CELLS \in Nat /\ Start \in Nat
  BY LineIs
<1>2. text \in Seq({CHAR}) /\ Len(text) = PREFIX /\ DOMAIN text = 1 .. PREFIX
      /\ \A i \in 1 .. PREFIX : text[i] = CHAR
  <2>1. text \in [1 .. PREFIX -> {CHAR}]
    BY DEF Chars
  <2>2. text \in Seq({CHAR})
    BY <1>1, <2>1, SeqDef
  <2> HIDE DEF text
  <2> QED BY <1>1, <2>1, <2>2, LenProperties
<1> HIDE DEF text
<1>3. /\ console_vprintf(s, Line, text, "panic").cursor = f[PREFIX]
      /\ f[0] = start_at(Line)
      /\ \A i \in 1 .. PREFIX : f[i] = putc_cursor(text[i], f[i - 1])
      /\ \A k \in DOMAIN s :
            console_vprintf(s, Line, text, "panic").screen[k] =
              IF \E i \in 1 .. PREFIX : k \in putc_cells(text[i], f[i - 1]) THEN "panic" ELSE s[k]
  <2>1. DOMAIN text = 1 .. Len(text) /\ Len(text) \in Nat /\ Len(text) = PREFIX
    BY <1>1, <1>2
  <2>2. Shows(s, Line, text, "panic", PREFIX)
    BY <2>1, VprintfShows
  <2> QED BY <2>2 DEF Shows
<1> HIDE DEF f
<1>4. ASSUME NEW i \in 1 .. PREFIX, f[i - 1] = Line + (i - 1)
      PROVE  f[i] = Line + i /\ putc_cells(text[i], f[i - 1]) = (Line + (i - 1)) .. (Line + (i - 1))
  <2>1. wrapped(f[i - 1]) = Line + (i - 1)
    BY <1>1, <1>4 DEF wrapped
  <2>2. last_cell(text[i], wrapped(f[i - 1])) = Line + (i - 1)
    BY <1>2, <2>1 DEF last_cell, CHAR, NL
  <2>3. Line + (i - 1) + 1 = Line + i
    BY <1>1
  <2> QED BY <1>3, <2>1, <2>2, <2>3 DEF putc_cursor, putc_cells
<1>5. ASSUME NEW j \in Bad
      PROVE  FALSE
  <2>1. Bad \in SUBSET Nat /\ Bad # {}
    BY <1>1
  <2>2. PICK i \in Bad : \A h \in Bad : i <= h
    <3> HIDE DEF Bad
    <3> QED BY <2>1, LeastExists
  <2>3. CASE i = 0
    <3>1. start_at(Line) = Line /\ Line + 0 = Line
      BY <1>1 DEF start_at
    <3> QED BY <1>3, <2>2, <2>3, <3>1
  <2>4. CASE i # 0
    <3>1. i \in 1 .. PREFIX /\ i - 1 \in 0 .. PREFIX /\ i - 1 \notin Bad
      BY <1>1, <2>2, <2>4
    <3>2. f[i - 1] = Line + (i - 1)
      BY <3>1
    <3>3. f[i] = Line + i
      BY <1>4, <3>1, <3>2
    <3> QED BY <2>2, <3>3
  <2> QED BY <2>3, <2>4
<1>6. \A i \in 0 .. PREFIX : f[i] = Line + i
  BY <1>5
<1>7. ASSUME NEW k \in Line .. (Start - 1)
      PROVE  console_vprintf(s, Line, text, "panic").screen[k] = "panic"
  <2> DEFINE i == k - Line + 1
  <2>1. i \in 1 .. PREFIX /\ i - 1 \in 0 .. PREFIX /\ k = Line + (i - 1) /\ k \in k .. k
    BY <1>1
  <2> HIDE DEF i
  <2>2. f[i - 1] = Line + (i - 1)
    BY <1>6, <2>1
  <2>3. k \in putc_cells(text[i], f[i - 1])
    BY <1>4, <2>1, <2>2
  <2>4. k \in DOMAIN s
    BY LineShown
  <2> QED BY <1>3, <2>1, <2>3, <2>4
<1>8. f[PREFIX] = Start
  BY <1>1, <1>6
<1> QED BY <1>3, <1>7, <1>8 DEF PrefixShown, text

\* A part of what fits, fits.
LEMMA RoomLeft ==
    ASSUME NEW p \in Nat, NEW w \in Nat, NEW x \in Nat, NEW n \in Nat, NEW c \in Nat, NEW all \in Nat,
           w + x <= n, p + n + c <= all
    PROVE  p + w + x + c <= all
  OBVIOUS

\* Behind each character of a message that fits, the cursor is clear of the prefix.
LEMMA MessageCursors ==
    ASSUME MessagesFit, NEW m \in Messages, m \in Seq({CHAR, NL}), NEW k \in 0 .. Len(m)
    PROVE  cursors(Start, m)[k] = Start \/ Behind(cursors(Start, m)[k], filled(m, k))
<1> DEFINE f == cursors(Start, m)
           Good(i) == f[i] = Start \/ Behind(f[i], filled(m, i))
           Bad == {i \in 0 .. Len(m) : ~Good(i)}
<1>1. Len(m) \in Nat /\ DOMAIN m = 1 .. Len(m)
  BY LenProperties
<1>2. f[0] = start_at(Start) /\ \A i \in 1 .. Len(m) : f[i] = putc_cursor(m[i], f[i - 1])
  <2>1. Shows(<<>>, Start, m, "message", Len(m))
    BY <1>1, VprintfShows
  <2> QED BY <2>1 DEF Shows
<1> HIDE DEF f
<1>3. ASSUME NEW j \in Bad
      PROVE  FALSE
  <2>1. Bad \in SUBSET Nat /\ Bad # {}
    BY <1>1
  <2>2. PICK i \in Bad : \A h \in Bad : i <= h
    <3> HIDE DEF Bad
    <3> QED BY <2>1, LeastExists
  <2>3. CASE i = 0
    <3>1. start_at(Start) = Start
      BY LineIs DEF start_at
    <3> QED BY <1>2, <2>2, <2>3, <3>1
  <2>4. CASE i # 0
    <3>1. i \in 1 .. Len(m) /\ i - 1 \in 0 .. Len(m) /\ i - 1 \notin Bad
      BY <1>1, <2>2, <2>4
    <3>2. Good(i - 1)
      BY <3>1
    <3>3. /\ filled(m, i - 1) \in Nat /\ filled(m, i) = filled(m, i - 1) + Weight(m[i])
          /\ filled(m, i) <= filled(m, Len(m)) /\ filled(m, Len(m)) \in Nat
      BY <3>1, FilledStep
    <3>4. PREFIX + filled(m, Len(m)) + COLS <= CELLS
      BY DEF MessagesFit
    <3>5. PREFIX + filled(m, i - 1) + Weight(m[i]) + COLS <= CELLS
      <4>1. PREFIX \in Nat /\ COLS \in Nat /\ CELLS \in Nat
        BY LineIs
      <4>2. Weight(m[i]) \in Nat
        BY <4>1 DEF Weight
      <4> QED BY <3>3, <3>4, <4>1, <4>2, RoomLeft, SMTT(30)
    <3>6. Behind(putc_cursor(m[i], f[i - 1]), filled(m, i - 1) + Weight(m[i]))
      BY <3>2, <3>3, <3>5, PutcBehind
    <3>7. Behind(f[i], filled(m, i))
      BY <1>2, <3>1, <3>3, <3>6
    <3> QED BY <2>2, <3>7
  <2> QED BY <2>3, <2>4
<1>4. Good(k)
  BY <1>3
<1> QED BY <1>4 DEF f

\* The message is put behind the prefix and leaves it alone.
LEMMA MessageIsShown ==
    ASSUME MessagesFit, NEW m \in Messages, m \in Seq({CHAR, NL}), m # <<>>,
           NEW s, DOMAIN s = 0 .. (CELLS + COLS), PrefixShown(s)
    PROVE  /\ PrefixShown(console_vprintf(s, Start, m, "message").screen)
           /\ console_vprintf(s, Start, m, "message").screen[Start] = "message"
           /\ Clear(console_vprintf(s, Start, m, "message").cursor)
<1> DEFINE f == cursors(Start, m)
           t == console_vprintf(s, Start, m, "message").screen
<1>1. Len(m) \in Nat /\ DOMAIN m = 1 .. Len(m) /\ Len(m) > 0
  <2>1. Len(m) \in Nat /\ DOMAIN m = 1 .. Len(m)
    BY LenProperties
  <2>2. Len(m) # 0
    BY EmptySeq
  <2> QED BY <2>1, <2>2
<1>2. /\ console_vprintf(s, Start, m, "message").cursor = f[Len(m)]
      /\ f[0] = start_at(Start)
      /\ \A i \in 1 .. Len(m) : f[i] = putc_cursor(m[i], f[i - 1])
      /\ \A k \in DOMAIN s :
            t[k] = IF \E i \in 1 .. Len(m) : k \in putc_cells(m[i], f[i - 1]) THEN "message" ELSE s[k]
  <2>1. Shows(s, Start, m, "message", Len(m))
    BY <1>1, VprintfShows
  <2> QED BY <2>1 DEF Shows
<1>3. \A i \in 0 .. Len(m) : f[i] = Start \/ Behind(f[i], filled(m, i))
  BY MessageCursors
<1> HIDE DEF f, t
<1>4. ASSUME NEW i \in 1 .. Len(m)
      PROVE  /\ \A k \in Line .. (Start - 1) : k \notin putc_cells(m[i], f[i - 1])
             /\ Behind(f[i], filled(m, i))
  <2>1. i - 1 \in 0 .. Len(m)
    BY <1>1
  <2>2. /\ filled(m, i - 1) \in Nat /\ filled(m, i) = filled(m, i - 1) + Weight(m[i])
        /\ filled(m, i) <= filled(m, Len(m)) /\ filled(m, Len(m)) \in Nat
    BY FilledStep
  <2>3. PREFIX + filled(m, Len(m)) + COLS <= CELLS
    BY DEF MessagesFit
  <2>4. PREFIX + filled(m, i - 1) + Weight(m[i]) + COLS <= CELLS
    <3>1. PREFIX \in Nat /\ COLS \in Nat /\ CELLS \in Nat
      BY LineIs
    <3>2. Weight(m[i]) \in Nat
      BY <3>1 DEF Weight
    <3> QED BY <2>2, <2>3, <3>1, <3>2, RoomLeft, SMTT(30)
  <2>5. /\ Behind(putc_cursor(m[i], f[i - 1]), filled(m, i - 1) + Weight(m[i]))
        /\ \A k \in Line .. (Start - 1) : k \notin putc_cells(m[i], f[i - 1])
    BY <1>3, <2>1, <2>2, <2>4, PutcBehind
  <2> QED BY <1>2, <2>2, <2>5
<1>5. PrefixShown(t)
  <2>1. ASSUME NEW k \in Line .. (Start - 1)
        PROVE  t[k] = "panic"
    <3>1. k \in DOMAIN s /\ s[k] = "panic"
      BY LineShown DEF PrefixShown
    <3> QED BY <1>2, <1>4, <3>1
  <2> QED BY <2>1 DEF PrefixShown
<1>6. t[Start] = "message"
  <2>1. start_at(Start) = Start /\ wrapped(Start) = Start /\ Start \in Nat /\ Start \in 0 .. (CELLS - 1)
    BY LineIs DEF start_at, wrapped
  <2>2. last_cell(m[1], Start) + 1 \in (Start + 1) .. (Start + Weight(m[1]))
    BY <2>1, PutcMoves
  <2>3. last_cell(m[1], Start) \in Start .. (CELLS - 1)
    <3>1. Start \in 0 .. CELLS
      BY LineIs
    <3> QED BY <2>1, <3>1, PutcIs
  <2>4. Start \in putc_cells(m[1], f[1 - 1])
    <3>1. f[1 - 1] = Start
      BY <1>2, <2>1
    <3>2. Start \in Start .. last_cell(m[1], Start)
      BY <2>1, <2>3, LineIs
    <3> QED BY <2>1, <3>1, <3>2 DEF putc_cells
  <2>5. 1 \in 1 .. Len(m)
    BY <1>1
  <2>6. Start \in DOMAIN s
    BY LineShown
  <2> QED BY <1>2, <2>4, <2>5, <2>6
<1>7. Clear(f[Len(m)])
  <2>1. Len(m) \in 1 .. Len(m)
    BY <1>1
  <2>2. Behind(f[Len(m)], filled(m, Len(m)))
    BY <1>4, <2>1
  <2> QED BY <2>2 DEF Behind, Clear
<1> QED BY <1>2, <1>5, <1>6, <1>7 DEF t

\* The end of the message's row leaves both alone, and the row is ended.
LEMMA EndIsShown ==
    ASSUME NEW c, Clear(c), CCOL(c) # 0,
           NEW s, DOMAIN s = 0 .. (CELLS + COLS), PrefixShown(s), s[Start] = "message"
    PROVE  /\ PrefixShown(console_vprintf(s, c, <<NL>>, "end").screen)
           /\ console_vprintf(s, c, <<NL>>, "end").screen[Start] = "message"
           /\ CCOL(console_vprintf(s, c, <<NL>>, "end").cursor) = 0
<1> DEFINE f == cursors(c, <<NL>>)
           t == console_vprintf(s, c, <<NL>>, "end").screen
<1>1. Len(<<NL>>) = 1 /\ DOMAIN <<NL>> = 1 .. 1 /\ <<NL>>[1] = NL
  OBVIOUS
<1>2. /\ console_vprintf(s, c, <<NL>>, "end").cursor = f[1]
      /\ f[0] = start_at(c) /\ f[1] = putc_cursor(NL, f[0])
      /\ \A k \in DOMAIN s : t[k] = IF k \in putc_cells(NL, f[0]) THEN "end" ELSE s[k]
  <2> DEFINE text == <<NL>>
  <2>1. DOMAIN text = 1 .. Len(text) /\ Len(text) \in Nat /\ Len(text) = 1 /\ text[1] = NL
    BY <1>1
  <2> HIDE DEF text
  <2>2. Shows(s, c, text, "end", 1)
    BY <2>1, VprintfShows
  <2>3. 1 .. 1 = {1} /\ 1 - 1 = 0
    OBVIOUS
  <2>4. /\ console_vprintf(s, c, text, "end").cursor = cursors(c, text)[1]
        /\ cursors(c, text)[1] = putc_cursor(NL, cursors(c, text)[0])
        /\ \A k \in DOMAIN s :
              console_vprintf(s, c, text, "end").screen[k] =
                IF k \in putc_cells(NL, cursors(c, text)[0]) THEN "end" ELSE s[k]
    BY <2>1, <2>2, <2>3 DEF Shows
  <2>5. cursors(c, text)[0] = start_at(c)
    BY <2>2 DEF Shows
  <2> QED BY <2>4, <2>5 DEF text
<1> HIDE DEF f, t
<1>3. c \in 0 .. (CELLS - 1) /\ (c < Line \/ c > Start) /\ c \in Nat
  BY LineIs DEF Clear
<1>4. start_at(c) = c /\ wrapped(c) = c
  BY <1>3, LineIs DEF start_at, wrapped
<1> DEFINE e == last_cell(NL, c)
<1>5. CCOL(e + 1) = 0 /\ (c < Line => e < Line)
  BY <1>3, PutcMoves
<1>6. e \in c .. (CELLS - 1)
  <2>1. c \in 0 .. CELLS
    BY <1>3, LineIs
  <2> QED BY <1>4, <2>1, PutcIs
<1>7. putc_cells(NL, f[0]) = c .. e /\ f[1] = e + 1
  BY <1>2, <1>4 DEF putc_cells, putc_cursor
<1> HIDE DEF e
<1>8. ASSUME NEW k \in Line .. Start
      PROVE  k \notin c .. e
  BY <1>3, <1>5, <1>6, LineIs
<1>9. ASSUME NEW k \in Line .. (Start - 1)
      PROVE  t[k] = "panic"
  <2>1. k \in DOMAIN s /\ s[k] = "panic"
    BY LineShown DEF PrefixShown
  <2>2. k \in Line .. Start
    BY LineIs
  <2> QED BY <1>2, <1>7, <1>8, <2>1, <2>2
<1>10. t[Start] = "message"
  <2>1. Start \in DOMAIN s /\ Start \in Line .. Start
    BY LineShown, LineIs
  <2> QED BY <1>2, <1>7, <1>8, <2>1
<1> QED BY <1>2, <1>5, <1>7, <1>9, <1>10 DEF t, PrefixShown

-----------------------------------------------------------------------------
(* The stages of a panic *)

\* The pieces of a panic, one behind the other.
LEMMA PiecesSplit ==
    ASSUME NEW m
    PROVE  /\ pieces(m) # <<>> /\ Head(pieces(m)) = PrefixPiece
           /\ m = <<>> => Tail(pieces(m)) = <<>>
           /\ m # <<>> => Tail(pieces(m)) = <<Said(m)>>
           /\ Head(<<Said(m)>>) = Said(m) /\ Tail(<<Said(m)>>) = <<>> /\ <<Said(m)>> # <<>>
           /\ Head(<<EndPiece>>) = EndPiece /\ Tail(<<EndPiece>>) = <<>> /\ <<EndPiece>> # <<>>
<1>1. /\ m = <<>> => pieces(m) = <<PrefixPiece>>
      /\ m # <<>> => pieces(m) = <<PrefixPiece, Said(m)>>
  BY DEF pieces, PrefixPiece, Said
<1>2. \A x, y : /\ Head(<<x>>) = x /\ Tail(<<x>>) = <<>> /\ <<x>> # <<>>
                /\ Head(<<x, y>>) = x /\ Tail(<<x, y>>) = <<y>> /\ <<x, y>> # <<>>
  OBVIOUS
<1> QED BY <1>1, <1>2

\* Their writers and texts.
LEMMA PieceIs ==
    ASSUME NEW m
    PROVE  /\ PrefixPiece.who = "panic" /\ PrefixPiece.text = Chars(PREFIX) /\ Len(Chars(PREFIX)) = PREFIX
           /\ Said(m).who = "message" /\ Said(m).text = m
           /\ EndPiece.who = "end" /\ EndPiece.text = <<NL>> /\ Len(<<NL>>) = 1
<1>1. Len(Chars(PREFIX)) = PREFIX
  BY Constants DEF Chars
<1> QED BY <1>1 DEF PrefixPiece, Said, EndPiece

\* A message of a panic is a text with a character in it.
LEMMA MessageIs ==
    ASSUME NEW m \in Messages, m # <<>>
    PROVE  m \in Seq({CHAR, NL}) /\ Len(m) \in Nat \ {0}
<1>1. m \in Seq({CHAR, NL})
  BY ConsoleAssumption
<1> QED BY <1>1, EmptySeq

\* A character of the prefix is logged.
LEMMA LogPrefix ==
    ASSUME AtPrefix, Log
    PROVE  AtPrefix'
<1>1. PICK m \in Messages \cup {<<>>}, a \in 0 .. PREFIX :
        todo = pieces(m) /\ cpos = Line /\ LogIs(log, a, 0, 0)
  BY DEF AtPrefix
<1>2. Head(todo).who = "panic" /\ Len(Head(todo).text) = PREFIX
  BY <1>1, PiecesSplit, PieceIs
<1>3. logged < PREFIX /\ log' = Append(log, "panic") /\ todo' = todo /\ cpos' = cpos
  BY <1>2 DEF Log
<1>4. a \in Nat /\ 0 \in Nat /\ PREFIX \in Nat
  BY Constants
<1>5. logged = a
  BY <1>1, <1>2, <1>4, LogCounts DEF logged
<1>6. LogIs(log', a + 1, 0, 0)
  BY <1>1, <1>3, <1>4, LogGrows
<1>7. a + 1 \in 0 .. PREFIX
  BY <1>3, <1>4, <1>5
<1> QED BY <1>1, <1>3, <1>6, <1>7 DEF AtPrefix

\* A character of the message is logged.
LEMMA LogMessage ==
    ASSUME AtMessage, Log
    PROVE  AtMessage'
<1>1. PICK m \in Messages \ {<<>>} : \E b \in 0 .. Len(m) :
        /\ todo = <<Said(m)>> /\ cpos = Start /\ LogIs(log, PREFIX, b, 0) /\ PrefixShown(screen)
  BY DEF AtMessage
<1>2. PICK b \in 0 .. Len(m) :
        /\ todo = <<Said(m)>> /\ cpos = Start /\ LogIs(log, PREFIX, b, 0) /\ PrefixShown(screen)
  BY <1>1
<1>3. Head(todo).who = "message" /\ Head(todo).text = m
  BY <1>2, PiecesSplit, PieceIs
<1>4. /\ logged < Len(m) /\ log' = Append(log, "message")
      /\ todo' = todo /\ cpos' = cpos /\ screen' = screen
  BY <1>3 DEF Log
<1>5. b \in Nat /\ 0 \in Nat /\ PREFIX \in Nat /\ Len(m) \in Nat
  BY Constants, MessageIs
<1>6. logged = b
  BY <1>2, <1>3, <1>5, LogCounts DEF logged
<1>7. LogIs(log', PREFIX, b + 1, 0)
  BY <1>2, <1>4, <1>5, LogGrows
<1>8. b + 1 \in 0 .. Len(m)
  BY <1>4, <1>5, <1>6
<1> QED BY <1>2, <1>4, <1>7, <1>8 DEF AtMessage

\* The end of its row is logged.
LEMMA LogEnd ==
    ASSUME AtEnd, Log
    PROVE  AtEnd'
<1>1. PICK b \in Nat \ {0}, c \in 0 .. 1 :
        /\ todo = <<EndPiece>> /\ LogIs(log, PREFIX, b, c)
        /\ PrefixShown(screen) /\ screen[Start] = "message" /\ Clear(cpos) /\ CCOL(cpos) # 0
  BY DEF AtEnd
<1>2. Head(todo).who = "end" /\ Head(todo).text = <<NL>> /\ Len(<<NL>>) = 1
  BY <1>1, PiecesSplit, PieceIs
<1>3. /\ logged < 1 /\ log' = Append(log, "end")
      /\ todo' = todo /\ cpos' = cpos /\ screen' = screen
  BY <1>2 DEF Log
<1>4. b \in Nat /\ c \in Nat /\ PREFIX \in Nat
  BY Constants
<1>5. logged = c
  BY <1>1, <1>2, <1>4, LogCounts DEF logged
<1>6. LogIs(log', PREFIX, b, c + 1)
  BY <1>1, <1>3, <1>4, LogGrows
<1>7. c + 1 \in 0 .. 1
  BY <1>3, <1>4, <1>5
<1> QED BY <1>1, <1>3, <1>6, <1>7 DEF AtEnd

\* The prefix comes on the screen, and the message is next if there is one.
LEMMA ShowPrefix ==
    ASSUME IndInv, AtPrefix, Show
    PROVE  (AtMessage \/ AllPrinted)'
<1>1. PICK m \in Messages \cup {<<>>}, a \in 0 .. PREFIX :
        todo = pieces(m) /\ cpos = Line /\ LogIs(log, a, 0, 0)
  BY DEF AtPrefix
<1>2. Head(todo).who = "panic" /\ Head(todo).text = Chars(PREFIX) /\ Len(Head(todo).text) = PREFIX
  BY <1>1, PiecesSplit, PieceIs
<1> DEFINE pic == console_vprintf(screen, Line, Chars(PREFIX), "panic")
<1>3. logged = PREFIX
  BY <1>2 DEF Show
<1>4. screen' = pic.screen /\ cpos' = pic.cursor /\ log' = log
  BY <1>1, <1>2 DEF Show, prefix_end
<1>5. todo' = Tail(todo) \o <<>>
  BY <1>2 DEF Show
<1>6. a \in Nat /\ 0 \in Nat /\ PREFIX \in Nat
  BY Constants
<1>7. logged = a
  BY <1>1, <1>2, <1>6, LogCounts DEF logged
<1>8. LogIs(log', PREFIX, 0, 0)
  BY <1>1, <1>3, <1>4, <1>7
<1>9. PrefixShown(screen') /\ cpos' = Start
  <2>1. DOMAIN screen = 0 .. (CELLS + COLS)
    BY DEF IndInv, Whole
  <2> QED BY <1>4, <2>1, PrefixIsShown
<1>10. CASE m = <<>>
  <2>1. todo' = <<>>
    BY <1>1, <1>5, <1>10, PiecesSplit
  <2> QED BY <1>6, <1>8, <1>9, <2>1 DEF AllPrinted, Printed
<1>11. CASE m # <<>>
  <2>1. todo' = <<Said(m)>>
    BY <1>1, <1>5, <1>11, PiecesSplit
  <2>2. m \in Messages \ {<<>>} /\ 0 \in 0 .. Len(m)
    BY <1>11, MessageIs
  <2> QED BY <1>8, <1>9, <2>1, <2>2 DEF AtMessage
<1> QED BY <1>10, <1>11

\* The message comes on the screen, and the end of its row is next if it needs one.
LEMMA ShowMessage ==
    ASSUME MessagesFit, IndInv, AtMessage, Show
    PROVE  (AtEnd \/ AllPrinted)'
<1>1. PICK m \in Messages \ {<<>>} : \E b \in 0 .. Len(m) :
        /\ todo = <<Said(m)>> /\ cpos = Start /\ LogIs(log, PREFIX, b, 0) /\ PrefixShown(screen)
  BY DEF AtMessage
<1>2. PICK b \in 0 .. Len(m) :
        /\ todo = <<Said(m)>> /\ cpos = Start /\ LogIs(log, PREFIX, b, 0) /\ PrefixShown(screen)
  BY <1>1
<1>3. Head(todo).who = "message" /\ Head(todo).text = m /\ Tail(todo) = <<>>
  BY <1>2, PiecesSplit, PieceIs
<1> DEFINE pic == console_vprintf(screen, Start, m, "message")
<1>4. logged = Len(m) /\ screen' = pic.screen /\ cpos' = pic.cursor /\ log' = log
  BY <1>2, <1>3 DEF Show, prefix_end
<1>5. todo' = <<>> \o (IF CCOL(pic.cursor) # 0 THEN <<EndPiece>> ELSE <<>>)
  BY <1>2, <1>3 DEF Show, EndPiece
<1>6. b \in Nat /\ 0 \in Nat /\ PREFIX \in Nat /\ Len(m) \in Nat \ {0} /\ m \in Seq({CHAR, NL})
  BY Constants, MessageIs
<1>7. logged = b
  BY <1>2, <1>3, <1>6, LogCounts DEF logged
<1>8. LogIs(log', PREFIX, Len(m), 0)
  BY <1>2, <1>4, <1>7
<1>9. PrefixShown(screen') /\ screen'[Start] = "message" /\ Clear(cpos')
  <2>1. DOMAIN screen = 0 .. (CELLS + COLS)
    BY DEF IndInv, Whole
  <2> QED BY <1>2, <1>4, <1>6, <2>1, MessageIsShown
<1> HIDE DEF pic
<1>10. CASE CCOL(pic.cursor) # 0
  <2>1. todo' = <<EndPiece>> /\ CCOL(cpos') # 0
    BY <1>4, <1>5, <1>10
  <2>2. 0 \in 0 .. 1
    OBVIOUS
  <2> QED BY <1>6, <1>8, <1>9, <2>1, <2>2 DEF AtEnd
<1>11. CASE CCOL(pic.cursor) = 0
  <2>1. todo' = <<>> /\ CCOL(cpos') = 0
    BY <1>4, <1>5, <1>11
  <2>2. 0 \in 0 .. 1
    OBVIOUS
  <2> QED BY <1>6, <1>8, <1>9, <2>1, <2>2 DEF AllPrinted, Printed
<1> QED BY <1>10, <1>11

\* The end of its row comes on the screen.
LEMMA ShowEnd ==
    ASSUME IndInv, AtEnd, Show
    PROVE  AllPrinted'
<1>1. PICK b \in Nat \ {0}, c \in 0 .. 1 :
        /\ todo = <<EndPiece>> /\ LogIs(log, PREFIX, b, c)
        /\ PrefixShown(screen) /\ screen[Start] = "message" /\ Clear(cpos) /\ CCOL(cpos) # 0
  BY DEF AtEnd
<1>2. Head(todo).who = "end" /\ Head(todo).text = <<NL>> /\ Tail(todo) = <<>>
  BY <1>1, PiecesSplit, PieceIs
<1> DEFINE pic == console_vprintf(screen, cpos, <<NL>>, "end")
<1>3. screen' = pic.screen /\ cpos' = pic.cursor /\ log' = log
  BY <1>2 DEF Show, prefix_end
<1>4. todo' = <<>>
  BY <1>2 DEF Show
<1>5. PrefixShown(screen') /\ screen'[Start] = "message" /\ CCOL(cpos') = 0
  <2>1. DOMAIN screen = 0 .. (CELLS + COLS)
    BY DEF IndInv, Whole
  <2> QED BY <1>1, <1>3, <2>1, EndIsShown
<1>6. b \in Nat /\ b # 0 /\ LogIs(log', PREFIX, b, c)
  BY <1>1, <1>3
<1> QED BY <1>4, <1>5, <1>6 DEF AllPrinted, Printed

\* A panic begins with an empty log.
LEMMA PanicBegins ==
    ASSUME Panicking, NEW message \in Messages \cup {<<>>}, Panic(message)
    PROVE  Panicking'
<1>1. /\ log = <<>> /\ log' = log /\ mode' = "panic"
      /\ todo' = pieces(message) /\ cpos' = Line
  BY DEF Panic, Panicking, Line
<1>2. LogIs(log', 0, 0, 0)
  BY <1>1 DEF LogIs
<1>3. 0 \in 0 .. PREFIX
  BY Constants
<1>4. AtPrefix'
  BY <1>1, <1>2, <1>3 DEF AtPrefix
<1> QED BY <1>1, <1>4 DEF Panicking

\* Each step of a panic leads from one stage to it or to a later one.
LEMMA PanicSteps ==
    ASSUME MessagesFit, IndInv, Panicking, Wait \/ Log \/ Show \/ EndPanic
    PROVE  Panicking'
<1>1. mode = "panic" /\ (AtPrefix \/ AtMessage \/ AtEnd \/ AllPrinted)
  BY DEF Wait, Log, Show, EndPanic, Panicking
<1>2. CASE Wait
  <2>1. UNCHANGED <<screen, mode, todo, cpos, log>>
    BY <1>2 DEF Wait
  <2>2. (AtPrefix \/ AtMessage \/ AtEnd \/ AllPrinted)'
    BY <1>1, <2>1 DEF AtPrefix, AtMessage, AtEnd, AllPrinted, Printed
  <2> QED BY <1>1, <2>1, <2>2 DEF Panicking
<1>3. CASE Log \/ Show
  <2>1. mode' = "panic" /\ ~AllPrinted
    BY <1>3 DEF Log, Show, AllPrinted
  <2>2. (AtPrefix \/ AtMessage \/ AtEnd \/ AllPrinted)'
    BY <1>1, <1>3, <2>1, LogPrefix, LogMessage, LogEnd, ShowPrefix, ShowMessage, ShowEnd
  <2> QED BY <2>1, <2>2 DEF Panicking
<1>4. CASE EndPanic
  <2>1. todo = <<>> /\ mode' = "fail" /\ UNCHANGED <<screen, cpos, log>>
    BY <1>4 DEF EndPanic
  <2>2. ~AtPrefix /\ ~AtMessage /\ ~AtEnd
    BY <2>1, PiecesSplit DEF AtPrefix, AtMessage, AtEnd
  <2>3. Printed
    BY <1>1, <2>2 DEF AllPrinted
  <2>4. Printed'
    BY <2>1, <2>3 DEF Printed
  <2> QED BY <2>1, <2>4 DEF Panicking
<1> QED BY <1>2, <1>3, <1>4

\* The stages give the property.
LEMMA PrintedIsWhole ==
    ASSUME Panicking
    PROVE  PanicWhole
<1> SUFFICES ASSUME mode = "fail"
             PROVE  PanicWhole
  BY DEF PanicWhole
<1>1. PICK b \in Nat, c \in 0 .. 1 :
        /\ LogIs(log, PREFIX, b, c) /\ (b = 0 => c = 0) /\ PrefixShown(screen)
        /\ b > 0 => screen[Start] = "message" /\ CCOL(cpos) = 0
  BY DEF Panicking, Printed
<1>2. PREFIX \in Nat /\ c \in Nat /\ Start = Line + PREFIX /\ Line = CPOS(STATUS, 0)
  BY Constants DEF Start, Line
<1>3. Len(log) = PREFIX + b + c /\ DOMAIN log = 1 .. (PREFIX + b + c)
  BY <1>1, <1>2, LogGrows
<1>4. \A k \in 1 .. (PREFIX + b + c) :
        log[k] = IF k <= PREFIX THEN "panic" ELSE IF k <= PREFIX + b THEN "message" ELSE "end"
  BY <1>1 DEF LogIs
<1>5. \A k \in DOMAIN log : k <= PREFIX <=> log[k] = "panic"
  BY <1>3, <1>4
<1>6. Len(log) >= PREFIX
  BY <1>2, <1>3
<1>7. ASSUME logged_of("message") # {}
      PROVE  /\ screen[Start] = "message" /\ CCOL(cpos) = 0
             /\ log[PREFIX + 1] = "message" /\ Last(log) \in {"message", "end"}
  <2>1. logged_of("message") = (PREFIX + 1) .. (PREFIX + b)
    BY <1>1, <1>2, LogCounts
  <2>2. b > 0
    BY <1>2, <1>7, <2>1
  <2>3. log[PREFIX + 1] = "message"
    BY <1>2, <1>4, <2>2
  <2>4. log[Len(log)] \in {"message", "end"}
    BY <1>2, <1>3, <1>4, <2>2
  <2> QED BY <1>1, <2>2, <2>3, <2>4 DEF Last
<1>8. \A k \in CPOS(STATUS, 0) .. (CPOS(STATUS, 0) + PREFIX - 1) : screen[k] = "panic"
  <2>1. Start - 1 = CPOS(STATUS, 0) + PREFIX - 1
    BY <1>2, CellsAre
  <2> QED BY <1>1, <1>2, <2>1 DEF PrefixShown
<1>9. logged_of("message") # {} =>
        /\ screen[CPOS(STATUS, 0) + PREFIX] = "message"
        /\ log[PREFIX + 1] = "message" /\ Last(log) \in {"message", "end"}
        /\ CCOL(cpos) = 0
  BY <1>2, <1>7
<1> QED BY <1>5, <1>6, <1>8, <1>9, Zenon DEF PanicWhole

\* When kernel_panic has stopped the machine, its line is whole on the screen and in
\* the log, whatever was being printed and however slow the port is: for every screen,
\* all processes and all messages that do not come round to their own prefix.
THEOREM PanicIsWhole ==
    ASSUME MessagesFit
    PROVE  Spec => []PanicWhole
<1>1. Init => Panicking
  BY DEF Init, Panicking
<1>2. IndInv /\ Panicking /\ [Next]_vars => Panicking'
  <2> SUFFICES ASSUME IndInv, Panicking, [Next]_vars
               PROVE  Panicking'
    OBVIOUS
  <2>1. ASSUME mode = "user", mode' = "user", log' = <<>>
        PROVE  Panicking'
    BY <2>1 DEF Panicking
  <2>2. CASE Next
    <3>1. ASSUME NEW p \in Procs, NEW call, NEW text, Begin(p, call, text)
          PROVE  Panicking'
      BY <2>1, <3>1 DEF Begin, panic_vars, Panicking
    <3>2. ASSUME NEW p \in Procs, Put(p) \/ Store(p) \/ Switch(p) \/ Fault(p)
          PROVE  Panicking'
      BY <2>1, <3>2 DEF Put, Store, Switch, Fault, panic_vars, Panicking
    <3>3. ASSUME NEW p \in Procs, Reboot(p)
          PROVE  Panicking'
      BY <3>3 DEF Reboot, Panicking
    <3>4. CASE MemTog
      BY <2>1, <3>4 DEF MemTog, panic_vars, Panicking
    <3>5. ASSUME NEW message \in Messages \cup {<<>>}, Panic(message)
          PROVE  Panicking'
      BY <3>5, PanicBegins
    <3>6. CASE Wait \/ Log \/ Show \/ EndPanic
      BY <3>6, PanicSteps
    <3> QED BY <2>2, <3>1, <3>2, <3>3, <3>4, <3>5, <3>6 DEF Next
  <2>3. CASE UNCHANGED vars
    BY <2>3 DEF vars, panic_vars, Panicking, AtPrefix, AtMessage, AtEnd, AllPrinted, Printed
  <2> QED BY <2>2, <2>3
<1>3. Panicking => PanicWhole
  BY PrintedIsWhole
<1> QED BY <1>1, <1>2, <1>3, Inductive, PTL DEF Spec

==============================================================================
