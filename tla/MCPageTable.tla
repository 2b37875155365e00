----------------------------- MODULE MCPageTable ----------------------------
(***************************************************************************)
(* PageTable scaled down for TLC: tables of 10 entries; 18 physical pages, *)
(* of which 0 and 6, the console, are reserved, 1 to 5 hold the kernel and *)
(* its tables, and 11 are free, the low page 7 among them: two processes   *)
(* and one page.  The programs use page 10, the first of the second L4     *)
(* table, and 20, beyond the tables.                                       *)
(***************************************************************************)
EXTENDS PageTable, TLC

Interchangeable == Permutations(Procs)

=============================================================================
