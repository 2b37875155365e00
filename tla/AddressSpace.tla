---------------------------- MODULE AddressSpace ----------------------------
(***************************************************************************)
(* What the kernel's page tables promise, without the tables: every        *)
(* process has a map from virtual pages to physical pages with rights.     *)
(* A new one shows low memory to the kernel and the console to the user,   *)
(* a page that is added belongs to one process at one place, and a change  *)
(* of one map leaves all others as they are.                               *)
(***************************************************************************)
EXTENDS Integers

CONSTANTS
    Procs,       \* processes
    Pages,       \* physical pages
    VPages,      \* virtual pages
    Low,         \* virtual pages below PROC_START_ADDR
    Kept,        \* physical pages nobody is given
    ConsolePage  \* the page of the CGA console

VARIABLE space   \* process -> its map, or Nothing

Nothing == [v \in {} |-> 0]
Absent == [pn |-> -1, perm |-> {}]
Mapping(n, rights) == [pn |-> n, perm |-> rights \cup {"P"}]

Fresh == [v \in VPages |-> IF v = ConsolePage THEN Mapping(v, {"W", "U"})
                           ELSE IF v \in Low THEN Mapping(v, {"W"})
                           ELSE Absent]

None == [p \in Procs |-> Nothing]

\* no user reaches physical page n in the maps s
Private(s, n) ==
    \A p \in Procs : \A v \in DOMAIN s[p] : s[p][v].pn = n => "U" \notin s[p][v].perm

\* what a page that was mapped as old may be mapped as next: not at all, to a
\* page nobody has, or to the page it had and read-only
Successor(s, old, new) ==
    \/ new = Absent
    \/ new = Mapping(new.pn, {"W", "U"}) /\ Private(s, new.pn) /\ new.pn \in Pages \ Kept
    \/ new = Mapping(old.pn, {"U"})

Create(s, t, p) == s[p] = Nothing /\ t[p] = Fresh

Change(s, t, p) ==
    /\ s[p] # Nothing /\ t[p] # Nothing
    /\ \E v \in VPages \ Low : /\ t[p] = [s[p] EXCEPT ![v] = t[p][v]]
                              /\ Successor(s, s[p][v], t[p][v])

Destroy(s, t, p) == s[p] # Nothing /\ t[p] = Nothing

\* one step takes the maps s to t
Step(s, t) ==
    \/ t = None
    \/ \E p \in Procs : /\ \A q \in Procs \ {p} : t[q] = s[q]
                        /\ Create(s, t, p) \/ Change(s, t, p) \/ Destroy(s, t, p)

SpaceInit == space = None

SpaceNext == \E before \in {space}, after \in {space'} : Step(before, after)

SpaceSpec == SpaceInit /\ [][SpaceNext]_space

=============================================================================
