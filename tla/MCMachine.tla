----------------------------- MODULE MCMachine -----------------------------
(***************************************************************************)
(* Machine for TLC: two processes, two fillings of their registers.        *)
(***************************************************************************)
EXTENDS Machine

\* every call, one that no case handles, and a breakpoint and another vector that
\* programs may not use
Used == {GETPID, YIELD, PAGE_ALLOC, FORK, EXIT, MAPPING, MEM_TOG, BRK, SBRK, 55, 3, 33}

=============================================================================
