------------------------------- MODULE MCHeap -------------------------------
(***************************************************************************)
(* Heap scaled down for TLC: sizes are multiples of 2, the header takes 4  *)
(* bytes, a chunk is 16 bytes and a word has 256 values.  A free block can *)
(* then leave a remainder of nothing, of less than a header, of exactly a  *)
(* header and of more, and two chunks fit below the limit.                 *)
(***************************************************************************)
EXTENDS Heap

\* the runs that claim the library's promises meet their preconditions
ASSUME NoWrap /\ AlignedGaps

\* calloc of nothing, of a small array, and of two arrays whose size wraps
MCArrays == {<<0, 3>>, <<2, 3>>, <<16, 16>>, <<13, 20>>}

=============================================================================
