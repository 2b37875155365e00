------------------------------ MODULE MCMalloc ------------------------------
(***************************************************************************)
(* Malloc with the scaled sizes of MCHeap.                                 *)
(***************************************************************************)
EXTENDS Malloc

\* calloc of nothing, of a small array, and of two arrays whose size wraps
MCArrays == {<<0, 3>>, <<2, 3>>, <<16, 16>>, <<13, 20>>}

=============================================================================
