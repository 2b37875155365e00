------------------------------ MODULE MCLoader ------------------------------
(***************************************************************************)
(* Loader for TLC: pages of 4 bytes and sectors of 2; files with a text    *)
(* segment, a header that is not to be loaded, and a data segment with     *)
(* bss, all sizes around the sector and page boundaries included.  The     *)
(* segments of a kernel begin with a sector of the file, those of a        *)
(* program anywhere.                                                       *)
(***************************************************************************)
EXTENDS Loader

\* files with the text at offset o
TwoSegments(o) ==
    { LET data == ROUNDUP(t, 4)
      IN  << ProgramHeader("load", o, 0, t, t, FALSE),
             ProgramHeader("note", 0, 0, 0, 0, FALSE),
             ProgramHeader("load", IF f = 0 THEN 0 ELSE o + data, data, f, m, TRUE) >>
      : t \in 1 .. 5, f \in 0 .. 5, m \in 1 .. 9 }

Files(o) == {im \in TwoSegments(o) : im[3].filesz <= im[3].memsz}

KernelFiles == Files(4) \cup Files(2)
ProgramFiles == Files(4) \cup Files(3)

=============================================================================
