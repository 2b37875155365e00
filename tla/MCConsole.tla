----------------------------- MODULE MCConsole -----------------------------
(***************************************************************************)
(* Console for TLC: a screen of 6 rows and 2 columns, two processes.       *)
(***************************************************************************)
EXTENDS Console

CONSTANTS p1, p2

\* a short line, and a text over four rows that reaches the end of the screen
Words == {<<NL>>, <<CHAR, NL, NL, CHAR, NL, CHAR>>}

\* a panic message that comes round to the top of the screen and does not end its
\* row there
Lines == {<<CHAR, NL, CHAR>>}

\* what the theorem on PanicWhole assumes
ASSUME Fits == MessagesFit

=============================================================================
