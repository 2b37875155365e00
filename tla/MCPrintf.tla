------------------------------ MODULE MCPrintf ------------------------------
(***************************************************************************)
(* Printf for TLC: int of 4 bits, long of 5; all flags, numbers at the     *)
(* limits of both types, and messages around the length of the buffer.     *)
(***************************************************************************)
EXTENDS Printf

Numbers ==
    {<<Directive(f, w, p, l, c, n)>> :
        f \in SUBSET {"#", "0", "-", " ", "+"}, w \in {-1, 5}, p \in {-1, 0, 3},
        l \in BOOLEAN, c \in {"d", "x"}, n \in {0, 7, 8, 15, 16, 31}}
    \cup {<<Directive(f, w, p, l, c, n)>> :
        f \in {{}, {"#"}, {"0"}}, w \in {-1, 4}, p \in {-1}, l \in BOOLEAN,
        c \in {"u", "X", "p"}, n \in {0, 10, 31}}

Texts ==
    {<<Directive(f, w, p, FALSE, "s", t)>> :
        f \in {{}, {"-"}, {"0"}}, w \in {-1, 4}, p \in -1 .. 2, t \in {<<>>, <<97>>, <<97, 98, 99>>}}
    \cup {<<Directive({}, 3, -1, FALSE, "c", <<99>>)>>, <<Directive({}, -1, -1, FALSE, "C", 1)>>}

Calls == Numbers \cup Texts

Literal(c) == Directive({}, -1, -1, FALSE, "literal", <<c>>)

\* messages of up to 9 characters, with and without a newline at the end
Lines ==
    {[k \in 1 .. n |-> Literal(97)] : n \in 0 .. 9}
    \cup {[k \in 1 .. n |-> Literal(IF k = n THEN 10 ELSE 97)] : n \in 1 .. 9}

=============================================================================
