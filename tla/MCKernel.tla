------------------------------ MODULE MCKernel ------------------------------
(***************************************************************************)
(* Kernel scaled down for TLC: pages of 2 bytes; physical page 0 reserved, *)
(* page 1 the kernel's, page 3 the console, the others free; virtual pages *)
(* 0-3 below the program, 4 its text, 5 and 6 for the heap, 7 the stack,   *)
(* and 8 beyond MEMSIZE_VIRTUAL but within reach of the page tables.       *)
(***************************************************************************)
EXTENDS Kernel

\* what the theorems of KernelProofs assume of the programs; the run for page_alloc
\* is an instance of those that do without NoPageAlloc
ASSUME ForkedKeepBreak /\ ("page_alloc" \in Calls \/ NoPageAlloc)

\* whole pages, as malloc asks for them
WholePages == {-4, -2, 0, 2, 4}

\* any number of bytes, as tests/p-sbrk-simple.c asks for them
AnyBytes == {-2, 0, 3}

=============================================================================
