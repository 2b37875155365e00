---------------------------- MODULE DeviceProofs ----------------------------
(***************************************************************************)
(* Proofs about what the user of the machine sees and types.               *)
(*                                                                         *)
(* Viewer, for any number of slots and any width of ticks: the search of   *)
(* memshow_virtual_animate ends at a living process.                       *)
(*                                                                         *)
(* Keyboard, for any set of keys: whatever is typed and however long,      *)
(* keyboard_readc returns documented codes only, and no modifier sticks.   *)
(***************************************************************************)
EXTENDS Viewer, Keyboard, Arith

-----------------------------------------------------------------------------
(* The viewer *)

\* The loop that skips free slots leaves a number whose remainder is a slot, and
\* the slot of a living process if there is one: every slot has a number between
\* NPROC and 2 * NPROC, and the loop starts at NPROC or before.
LEMMA SkipFree ==
    ASSUME NEW from \in 0 .. NPROC, NEW S \in SUBSET Pids
    PROVE  /\ skip_free(from, S) % NPROC \in Slots
           /\ S # {} => skip_free(from, S) % NPROC \in S
<1> DEFINE stops == {s \in from .. (search_end + 1) : s > search_end \/ s % NPROC \in S}
           least == CHOOSE s \in stops : \A t \in stops : s <= t
<1>1. NPROC \in Nat \ {0} /\ search_end \in Nat /\ from <= search_end
  BY ViewerAssumption DEF search_end
<1>2. stops \in SUBSET Nat /\ search_end + 1 \in stops
  BY <1>1
<1>3. \E s \in stops : \A t \in stops : s <= t
  <2> HIDE DEF stops
  <2> QED BY <1>2, LeastExists
<1>4. least \in stops /\ \A t \in stops : least <= t
  <2> HIDE DEF stops
  <2> QED BY <1>3
<1>5. skip_free(from, S) = least /\ least \in Nat
  BY <1>1, <1>2, <1>4 DEF skip_free
<1>6. least % NPROC \in Slots
  <2> HIDE DEF least
  <2>1. least % NPROC \in 0 .. (NPROC - 1)
    BY <1>1, <1>5, DivMod
  <2> QED BY <2>1 DEF Slots
<1>7. ASSUME S # {}
      PROVE  least % NPROC \in S
  <2>0. PICK p \in S : TRUE
    BY <1>7
  <2>1. p \in Nat /\ p < NPROC
    BY <1>1 DEF Pids, Slots
  <2>2. p \in 0 .. (NPROC - 1) /\ NPROC * 1 + p = NPROC + p
    BY <1>1, <2>1
  <2>3. (NPROC + p) % NPROC = p
    <3>1. (NPROC * 1 + p) % NPROC = p
      BY <1>1, <2>2, ModUnique
    <3> QED BY <2>2, <3>1
  <2>4. NPROC + p \in from .. (search_end + 1) /\ NPROC + p <= search_end
    BY <1>1, <2>1 DEF search_end
  <2>5. NPROC + p \in stops
    BY <2>1, <2>3, <2>4
  <2> HIDE DEF least
  <2>6. least <= NPROC + p
    <3> HIDE DEF stops
    <3> QED BY <1>4, <2>5
  <2>7. ~(least > search_end)
    BY <1>1, <1>5, <2>1, <2>4, <2>6
  <2> QED BY <1>4, <2>7
<1> QED BY <1>5, <1>6, <1>7

\* schedule() chooses a living process, or none when there is none.
LEMMA NextPid ==
    ASSUME NEW S \in SUBSET Pids, current \in Slots
    PROVE  next_pid(S) \in S \cup {0}
<1> DEFINE distance(q) == IF q > current THEN q - current ELSE q - current + NPROC
           D == {distance(q) : q \in S}
<1>1. CASE S = {}
  BY <1>1 DEF next_pid
<1>2. CASE S # {}
  <2>1. \A q \in S : distance(q) \in Nat
    BY ViewerAssumption DEF Pids, Slots
  <2>2. D \in SUBSET Nat /\ D # {}
    BY <1>2, <2>1
  <2>3. PICK d \in D : \A e \in D : d <= e
    <3> HIDE DEF D
    <3> QED BY <2>2, LeastExists
  <2>4. \E q \in S : \A r \in S : distance(q) <= distance(r)
    BY <2>3
  <2>5. (CHOOSE q \in S : \A r \in S : distance(q) <= distance(r)) \in S
    <3> HIDE DEF distance
    <3> QED BY <2>4
  <2> QED BY <1>2, <2>5 DEF next_pid
<1> QED BY <1>1, <1>2

\* What the top of exception() does to the viewer.
LEMMA EnterIs ==
    ASSUME ViewerTypeOK, Enter
    PROVE  /\ view'.showing \in Slots /\ view'.last_ticks \in 0 .. (TICKS - 1)
           /\ picture' \in Slots
           /\ disp_global => view'.showing \in alive
<1> DEFINE next == memshow_virtual_animate(view, ticks, alive)
           from == IF due(view, ticks) THEN view.showing + 1 ELSE view.showing
<1>1. /\ current \in alive /\ alive \in SUBSET Pids /\ picture \in Slots
      /\ view.showing \in Slots /\ view.last_ticks \in 0 .. (TICKS - 1)
      /\ ticks \in 0 .. (TICKS - 1)
  BY DEF ViewerTypeOK, Enter
<1>2. from \in 0 .. NPROC
  BY <1>1, ViewerAssumption DEF Slots
<1>3. next.showing = skip_free(from, alive) % NPROC
  BY DEF memshow_virtual_animate
<1>4. next.showing \in Slots /\ next.showing \in alive
  <2> HIDE DEF next, from
  <2> QED BY <1>1, <1>2, <1>3, SkipFree
<1>5. next.last_ticks \in 0 .. (TICKS - 1)
  BY <1>1 DEF memshow_virtual_animate
<1>6. CASE disp_global
  <2>1. view' = next /\ picture' \in {next.showing, picture}
    BY <1>6 DEF Enter
  <2> HIDE DEF next
  <2> QED BY <1>1, <1>4, <1>5, <2>1
<1>7. CASE ~disp_global
  BY <1>1, <1>7 DEF Enter
<1> QED BY <1>6, <1>7

\* Every exception keeps the types and ends with a living process on the screen.
LEMMA StepShows ==
    ASSUME ViewerTypeOK, ViewerNext
    PROVE  ViewerTypeOK' /\ (disp_global /\ current # 0 => view'.showing \in alive)
<1>1. /\ alive \in SUBSET Pids /\ display_status \in SUBSET Pids
      /\ current \in alive \cup {0} /\ current \in Slots
      /\ ticks \in 0 .. (TICKS - 1)
  BY ViewerAssumption DEF ViewerTypeOK, Pids, Slots
<1>2. next_pid(alive) \in alive \cup {0}
  BY <1>1, NextPid
<1>3. CASE Timer
  <2>1. (ticks + 1) % TICKS \in 0 .. (TICKS - 1)
    BY <1>1, ViewerAssumption, DivMod
  <2> QED BY <1>1, <1>2, <1>3, <2>1, EnterIs DEF Timer, ViewerTypeOK
<1>4. CASE Call
  BY <1>1, <1>2, <1>4, EnterIs DEF Call, ViewerTypeOK
<1>5. CASE Exit
  <2>1. next_pid(alive \ {current}) \in (alive \ {current}) \cup {0}
    BY <1>1, NextPid
  <2> QED BY <1>1, <1>5, <2>1, EnterIs DEF Exit, ViewerTypeOK
<1>6. CASE Fork
  <2>1. PICK child \in Pids \ alive : /\ alive' \in {alive, alive \cup {child}}
                                     /\ display_status' = display_status \cup {child}
    BY <1>6 DEF Fork
  <2> QED BY <1>1, <1>6, <2>1, EnterIs DEF Fork, ViewerTypeOK
<1>7. ASSUME NEW p \in Slots, MemTog(p)
      PROVE  ViewerTypeOK' /\ (disp_global => view'.showing \in alive)
  <2>1. current # 0 /\ current \in Pids
    BY <1>1, <1>7 DEF MemTog, Enter
  <2>2. display_status' \in SUBSET Pids
    BY <1>1, <1>7, <2>1 DEF MemTog, may_toggle
  <2> QED BY <1>1, <1>7, <2>2, EnterIs DEF MemTog, ViewerTypeOK
<1>8. ASSUME NEW n \in {1, 2}, Reboot(n)
      PROVE  ViewerTypeOK' /\ (disp_global /\ current # 0 => view'.showing \in alive)
  <2>1. 1 .. n \in SUBSET Pids /\ 1 \in 1 .. n
    BY ViewerAssumption DEF Pids, Slots
  <2>2. CASE Enter
    BY <1>1, <1>8, <2>1, <2>2, EnterIs DEF Reboot, Booted, ViewerTypeOK
  <2>3. CASE current = 0 /\ UNCHANGED <<view, picture>>
    BY <1>1, <1>8, <2>1, <2>3 DEF Reboot, Booted, ViewerTypeOK
  <2> QED BY <1>8, <2>2, <2>3 DEF Reboot
<1> QED BY <1>3, <1>4, <1>5, <1>6, <1>7, <1>8 DEF ViewerNext

\* memshow_virtual_animate always settles on a living process, for every number of
\* slots, whoever exits, forks or is hidden and however often ticks wraps.
THEOREM ViewerSettles == ViewerSpec => ShownAlive
<1>1. ViewerInit => ViewerTypeOK
  BY ViewerAssumption DEF ViewerInit, ViewerTypeOK, FirstView, Pids, Slots
<1>2. ViewerTypeOK /\ [ViewerNext]_viewer_vars
        => ViewerTypeOK' /\ [disp_global /\ current # 0 => view'.showing \in alive]_<<view, ticks, current>>
  <2>1. CASE ViewerNext
    BY <2>1, StepShows
  <2>2. CASE UNCHANGED viewer_vars
    BY <2>2 DEF viewer_vars, ViewerTypeOK
  <2> QED BY <2>1, <2>2
<1> QED BY <1>1, <1>2, PTL DEF ViewerSpec, ShownAlive

-----------------------------------------------------------------------------
(* The tables of the keyboard *)

\* what an entry of keymap may be: a character, a complex key, a special key or
\* a modifier
Codes == 0 .. 127 \cup CKEY(0) .. CKEY(21) \cup 192 .. 201 \cup KEY_SHIFT .. 255

\* The entries of the table for extended keys.
LEMMA ExtendedIs == \A k \in 0 .. 255 : extended_keymap(k) \in Codes
  BY DEF extended_keymap, Codes, CKEY, KEY_SHIFT

\* The entries of the table for plain keys.
LEMMA PlainIs ==
    Len(plain_keymap) = 84 /\ \A k \in 1 .. 84 : plain_keymap[k] \in Codes
<1>1. Len(plain_keymap) = 84
  BY DEF plain_keymap
<1>2. \A k \in 1 .. 84 : plain_keymap[k] \in Codes
  BY DEF plain_keymap, Codes, CKEY, KEY_SHIFT
<1> QED BY <1>1, <1>2

\* The characters of the complex keys.
LEMMA ComplexIs ==
    \A k \in 1 .. 22, i \in 1 .. 4 : complex_keymap[k][i] \in 0 .. 127
  BY DEF complex_keymap

\* The whole table.
LEMMA KeymapIs == \A k \in 0 .. 255 : keymap[k] \in Codes
<1> TAKE k \in 0 .. 255
<1>1. keymap[k] = IF k < 84 THEN plain_keymap[k + 1] ELSE extended_keymap(k)
  BY PlainIs DEF keymap
<1>2. k < 84 => k + 1 \in 1 .. 84
  OBVIOUS
<1> QED BY <1>1, <1>2, PlainIs, ExtendedIs

\* The character of any key under any modifiers.
LEMMA CharacterIs ==
    ASSUME NEW m, NEW ch \in Codes
    PROVE  character(m, ch) \in 0 .. 127 \cup 192 .. 201
<1>1. ch \in Int
  BY DEF Codes, CKEY, KEY_SHIFT
<1>2. CASE ch \in 97 .. 122
  BY <1>2 DEF character
<1>3. CASE ch >= KEY_SHIFT
  BY <1>1, <1>3, SMTT(30) DEF character, KEY_SHIFT
<1>4. CASE ch \in 128 .. 149
  <2>1. is_complex(ch) /\ ch \notin 97 .. 122 /\ ~(ch >= KEY_SHIFT)
    BY <1>4 DEF is_complex, CKEY, KEY_SHIFT
  <2>2. ch - CKEY(0) + 1 \in 1 .. 22 /\ map_index(m) \in 1 .. 4
    BY <1>4 DEF CKEY, map_index
  <2>3. character(m, ch) = complex_keymap[ch - CKEY(0) + 1][map_index(m)]
    BY <2>1 DEF character
  <2> QED BY <2>2, <2>3, ComplexIs
<1>5. CASE ch \notin 97 .. 122 /\ ch \in 0 .. 127 \cup 192 .. 201
  <2>1. ~is_complex(ch) /\ ~(ch >= KEY_SHIFT)
    BY <1>5 DEF is_complex, CKEY, KEY_SHIFT
  <2>2. character(m, ch) = plain(m, ch)
    BY <1>5, <2>1 DEF character
  <2> QED BY <1>5, <2>2 DEF plain
<1> QED BY <1>1, <1>2, <1>3, <1>4, <1>5 DEF Codes, CKEY, KEY_SHIFT

\* Any byte in any state.
LEMMA ReadcIs ==
    ASSUME NEW m, NEW escape, NEW byte \in 0 .. 255
    PROVE  keyboard_readc(m, escape, byte).ch \in 0 .. 127 \cup 192 .. 201
<1>1. CASE byte >= 128
  BY <1>1 DEF keyboard_readc
<1>2. CASE byte < 128
  <2> DEFINE k == IF escape THEN byte + 128 ELSE byte
  <2>1. keyboard_readc(m, escape, byte).ch = character(m, keymap[k])
    BY <1>2, SMTT(30) DEF keyboard_readc
  <2>2. k \in 0 .. 255
    BY <1>2
  <2>3. keymap[k] \in Codes
    BY <2>2, KeymapIs
  <2> HIDE DEF k
  <2> QED BY <2>1, <2>3, CharacterIs
<1> QED BY <1>1, <1>2

\* No code of the internal tables is ever returned.
THEOREM CodesDocumented == KeyboardSpec => []ReturnsDocumented
<1>1. ReturnsDocumented
  <2>1. ASSUME NEW byte \in 0 .. 255, NEW escape \in BOOLEAN
        PROVE  keyboard_readc(modifiers, escape, byte).ch \in 0 .. 127 \cup 192 .. 201
    BY ReadcIs, ZenonT(60)
  <2> QED BY <2>1, ZenonT(60) DEF ReturnsDocumented
<1> QED BY <1>1, PTL

-----------------------------------------------------------------------------
(* Modifiers *)

\* where keymap has a key
Index(key) == IF key[2] THEN key[1] + 128 ELSE key[1]

\* A key has a code of 7 bits, its release is no prefix, and its entry is typed.
LEMMA KeyIs ==
    ASSUME NEW key \in Keys
    PROVE  /\ key[1] \in 1 .. 127 /\ key[1] + 128 # 224 /\ key[2] \in BOOLEAN
           /\ Index(key) \in 0 .. 255 /\ keymap[Index(key)] \in Codes
           /\ keymap[Index(key)] \in 0 .. 255
           /\ ModifierOf(key) = keymap[Index(key)] - 250
<1>1. key \in ((1 .. 127) \ {96}) \X BOOLEAN
  BY KeyboardAssumption
<1>2. key[1] \in 1 .. 127 /\ key[1] # 96 /\ key[2] \in BOOLEAN
  BY <1>1
<1>3. Index(key) \in 0 .. 255
  BY <1>2 DEF Index
<1>4. keymap[Index(key)] \in Codes
  BY <1>3, KeymapIs
<1>5. keymap[Index(key)] \in 0 .. 255
  BY <1>4 DEF Codes, CKEY, KEY_SHIFT
<1>6. ModifierOf(key) = keymap[Index(key)] - 250
  BY DEF ModifierOf, Index, KEY_SHIFT
<1> QED BY <1>2, <1>3, <1>4, <1>5, <1>6

\* every modifier that is on is in S or has a key that is held
Backed(m, S) == \A b \in m \cap 0 .. 2 : b \in S \/ \E key \in down : ModifierOf(key) = b

\* The bytes of a key are under way, all of them or the last.
Sending(key, pressed) ==
    LET code == IF pressed THEN key[1] ELSE key[1] + 128
    IN  /\ IF pressed THEN Backed(modifiers, {}) /\ (IsModifier(key) => key \in down)
           ELSE Backed(modifiers, {ModifierOf(key)})
        /\ \/ queue = scan_bytes(key, code) /\ ~last_escape
           \/ queue = <<code>> /\ last_escape /\ key[2]

\* The strengthening of NoStuckModifier that every step keeps: what is in the queue
\* is the rest of one key, and it accounts for the only modifier that may be on
\* without a key being held.
IndInv ==
    /\ modifiers \subseteq 0 .. 5 /\ last_escape \in BOOLEAN
    /\ down \subseteq Keys /\ status \in {"running", "fail", "off"}
    /\ program \in {setup(c) : c \in {"", "malloc", "alloctests", "test", "test2"}}
    /\ \/ queue = <<>> /\ ~last_escape /\ Backed(modifiers, {})
       \/ \E key \in Keys, pressed \in BOOLEAN : Sending(key, pressed)

\* Reading the last byte of a press.
LEMMA PressRead ==
    ASSUME NEW key \in Keys, NEW m \in SUBSET (0 .. 5), Backed(m, {}),
           IsModifier(key) => key \in down
    PROVE  LET r == keyboard_readc(m, key[2], key[1])
           IN  r.modifiers \in SUBSET (0 .. 5) /\ ~r.last_escape /\ Backed(r.modifiers, {})
<1> DEFINE ch == keymap[Index(key)]
           new == modifiers_after(m, ch)
<1>1. /\ key[1] \in 1 .. 127 /\ key[2] \in BOOLEAN
      /\ ch \in 0 .. 255 /\ ModifierOf(key) = ch - 250
  BY KeyIs
<1>2. /\ keyboard_readc(m, key[2], key[1]).modifiers = new
      /\ keyboard_readc(m, key[2], key[1]).last_escape = FALSE
  BY <1>1 DEF keyboard_readc, Index, escape_after
<1> HIDE DEF ch
<1>3. new \in SUBSET (0 .. 5) /\ Backed(new, {})
  <2>1. CASE ch >= 253
    <3>1. ch - 250 \in 3 .. 5 /\ new = Toggle(m, ch - 250)
      BY <1>1, <2>1 DEF modifiers_after, KEY_CAPSLOCK, KEY_SHIFT
    <3>2. \A b \in new : b \in m \/ b = ch - 250
      BY <3>1 DEF Toggle
    <3>3. new \in SUBSET (0 .. 5)
      <4> HIDE DEF new
      <4>1. ASSUME NEW b \in new
            PROVE  b \in 0 .. 5
        <5>1. CASE b \in m
          BY <5>1
        <5>2. CASE b = ch - 250
          BY <3>1, <5>2
        <5> QED BY <3>2, <5>1, <5>2
      <4> QED BY <4>1
    <3>4. new \cap 0 .. 2 \subseteq m
      BY <3>1, <3>2
    <3> QED BY <3>3, <3>4 DEF Backed
  <2>2. CASE ch >= 250 /\ ~(ch >= 253)
    <3>1. ch - 250 \in 0 .. 2 /\ new = m \cup {ch - 250}
      BY <1>1, <2>2 DEF modifiers_after, KEY_CAPSLOCK, KEY_SHIFT
    <3>2. key \in down
      BY <1>1, <3>1 DEF IsModifier
    <3> HIDE DEF new
    <3>3. new \in SUBSET (0 .. 5)
      <4>1. ASSUME NEW b \in new
            PROVE  b \in 0 .. 5
        BY <3>1
      <4> QED BY <4>1
    <3> QED BY <1>1, <3>1, <3>2, <3>3 DEF Backed
  <2>3. CASE ~(ch >= 250)
    <3>1. new = m
      BY <1>1, <2>3 DEF modifiers_after, KEY_CAPSLOCK, KEY_SHIFT
    <3> QED BY <3>1
  <2> QED BY <2>1, <2>2, <2>3
<1> QED BY <1>2, <1>3

\* Reading the last byte of a release.
LEMMA ReleaseRead ==
    ASSUME NEW key \in Keys, NEW m \in SUBSET (0 .. 5), Backed(m, {ModifierOf(key)})
    PROVE  LET r == keyboard_readc(m, key[2], key[1] + 128)
           IN  r.modifiers \in SUBSET (0 .. 5) /\ ~r.last_escape /\ Backed(r.modifiers, {})
<1> DEFINE ch == keymap[Index(key)]
           new == m \ released_bits(ch)
<1>1. /\ key[1] \in 1 .. 127 /\ key[1] + 128 # 224 /\ key[2] \in BOOLEAN
      /\ ch \in 0 .. 255 /\ ModifierOf(key) = ch - 250
  BY KeyIs
<1>2. key[1] + 128 >= 128 /\ (key[1] + 128) - 128 = key[1]
  BY <1>1
<1>3. /\ keyboard_readc(m, key[2], key[1] + 128).modifiers = new
      /\ keyboard_readc(m, key[2], key[1] + 128).last_escape = FALSE
  BY <1>1, <1>2 DEF keyboard_readc, Index, escape_after
<1> HIDE DEF ch
<1>4. new \in SUBSET (0 .. 5)
  OBVIOUS
<1>5. \A b \in new \cap 0 .. 2 : b \in m \cap 0 .. 2 /\ b # ch - 250
  BY <1>1 DEF released_bits, KEY_SHIFT, KEY_CAPSLOCK
<1>6. Backed(new, {})
  <2> HIDE DEF new
  <2> QED BY <1>1, <1>5 DEF Backed
<1> QED BY <1>3, <1>4, <1>6

\* The two bytes of an extended key, or the one byte of another.
LEMMA BytesAre ==
    ASSUME NEW key \in Keys, NEW code \in 0 .. 255
    PROVE  /\ key[2] => /\ scan_bytes(key, code) = <<224, code>> /\ scan_bytes(key, code) # <<>>
                        /\ Head(scan_bytes(key, code)) = 224 /\ Tail(scan_bytes(key, code)) = <<code>>
                        /\ Len(scan_bytes(key, code)) = 2
           /\ ~key[2] => /\ scan_bytes(key, code) = <<code>>
           /\ Head(<<code>>) = code /\ Tail(<<code>>) = <<>> /\ <<code>> # <<>> /\ Len(<<code>>) = 1
  BY DEF scan_bytes

\* What keyboard_readc does with the prefix.
LEMMA PrefixRead ==
    ASSUME NEW m, NEW escape
    PROVE  keyboard_readc(m, escape, 224) = [modifiers |-> m, last_escape |-> TRUE, ch |-> 0]
  BY DEF keyboard_readc

\* The user types.
LEMMA TypingInv ==
    ASSUME IndInv, NEW key \in Keys, Press(key) \/ Release(key)
    PROVE  IndInv'
<1>1. /\ queue = <<>> /\ ~last_escape /\ Backed(modifiers, {})
      /\ UNCHANGED <<modifiers, last_escape, status, program>>
  <2>1. queue = <<>> /\ UNCHANGED <<modifiers, last_escape, status, program>>
    BY DEF Press, Release
  <2>2. ASSUME NEW k \in Keys, NEW pressed \in BOOLEAN, Sending(k, pressed)
        PROVE  FALSE
    <3> DEFINE code == IF pressed THEN k[1] ELSE k[1] + 128
    <3>1. code \in 0 .. 255
      BY KeyIs
    <3>2. queue = scan_bytes(k, code) \/ queue = <<code>>
      BY <2>2 DEF Sending
    <3> HIDE DEF code
    <3> QED BY <2>1, <3>1, <3>2, BytesAre
  <2> QED BY <2>1, <2>2 DEF IndInv
<1>2. CASE Press(key)
  <2>1. queue' = scan_bytes(key, key[1]) /\ down' = IF IsModifier(key) THEN down \cup {key} ELSE down
    BY <1>2 DEF Press
  <2>2. Backed(modifiers, {})' /\ (IsModifier(key) => key \in down')
    BY <1>1, <2>1 DEF Backed
  <2>3. Sending(key, TRUE)'
    BY <1>1, <2>1, <2>2 DEF Sending
  <2>4. down' \subseteq Keys
    BY <2>1 DEF IndInv
  <2> QED BY <1>1, <2>3, <2>4 DEF IndInv
<1>3. CASE Release(key)
  <2>1. queue' = scan_bytes(key, key[1] + 128) /\ down' = down \ {key}
    BY <1>3 DEF Release
  <2>2. Backed(modifiers, {ModifierOf(key)})'
    BY <1>1, <2>1 DEF Backed
  <2>3. Sending(key, FALSE)'
    BY <1>1, <2>1, <2>2 DEF Sending
  <2>4. down' \subseteq Keys
    BY <2>1 DEF IndInv
  <2> QED BY <1>1, <2>3, <2>4 DEF IndInv
<1> QED BY <1>2, <1>3

\* The kernel reads a byte.
LEMMA CheckInv ==
    ASSUME IndInv, CheckKeyboard
    PROVE  IndInv'
<1> DEFINE r == keyboard_readc(modifiers, last_escape, Head(queue))
<1>1. /\ queue # <<>> /\ modifiers' = r.modifiers /\ last_escape' = r.last_escape
      /\ status' \in {"running", "off", status} /\ queue' = Tail(queue) /\ down' = down
      /\ program' = program \/ \E ch \in Reboots : program' = setup(argument(ch))
  BY DEF CheckKeyboard
<1>2. /\ program' \in {setup(c) : c \in {"", "malloc", "alloctests", "test", "test2"}}
      /\ status' \in {"running", "fail", "off"} /\ down' \subseteq Keys
  <2>1. ASSUME NEW ch \in Reboots
        PROVE  setup(argument(ch)) \in {setup(c) : c \in {"", "malloc", "alloctests", "test", "test2"}}
    <3>1. argument(ch) \in {"allocator", "malloc", "alloctests", "test", "test2"}
      BY DEF argument
    <3>2. setup("allocator") = setup("")
      BY DEF setup
    <3> QED BY <3>1, <3>2
  <2> QED BY <1>1, <2>1 DEF IndInv
<1>3. PICK key \in Keys, pressed \in BOOLEAN : Sending(key, pressed)
  BY <1>1 DEF IndInv
<1> DEFINE code == IF pressed THEN key[1] ELSE key[1] + 128
<1>4. code \in 0 .. 255 /\ key[2] \in BOOLEAN
  BY KeyIs
<1>5. modifiers \in SUBSET (0 .. 5) /\ last_escape \in BOOLEAN
  BY DEF IndInv
<1>6. CASE key[2] /\ ~last_escape
  <2>1. queue = scan_bytes(key, code)
    BY <1>3, <1>6 DEF Sending
  <2>2. Head(queue) = 224 /\ Tail(queue) = <<code>>
    <3> HIDE DEF code
    <3>1. queue = <<224, code>>
      BY <1>6, <2>1 DEF scan_bytes
    <3> QED BY <3>1
  <2>3. r = [modifiers |-> modifiers, last_escape |-> TRUE, ch |-> 0]
    BY <2>2, PrefixRead
  <2>4. modifiers' = modifiers /\ last_escape' = TRUE /\ queue' = <<code>>
    BY <1>1, <2>2, <2>3
  <2>5. Sending(key, pressed)'
    BY <1>1, <1>3, <1>6, <2>4 DEF Sending, Backed
  <2> QED BY <1>2, <1>5, <2>4, <2>5 DEF IndInv
<1>7. CASE ~key[2] \/ last_escape
  <2>1. queue = <<code>> /\ (last_escape <=> key[2])
    <3>1. CASE queue = scan_bytes(key, code) /\ ~last_escape
      <4> HIDE DEF code
      <4> QED BY <1>4, <1>7, <3>1, BytesAre
    <3>2. CASE queue = <<code>> /\ last_escape /\ key[2]
      BY <3>2
    <3> QED BY <1>3, <3>1, <3>2 DEF Sending
  <2>2. Head(queue) = code /\ Tail(queue) = <<>>
    <3> HIDE DEF code
    <3> QED BY <1>4, <2>1, BytesAre
  <2>3. r = keyboard_readc(modifiers, key[2], code)
    BY <1>4, <1>5, <2>1, <2>2
  <2>4. r.modifiers \in SUBSET (0 .. 5) /\ ~r.last_escape /\ Backed(r.modifiers, {})
    <3>1. CASE pressed
      <4>1. code = key[1] /\ Backed(modifiers, {}) /\ (IsModifier(key) => key \in down)
        BY <1>3, <3>1 DEF Sending
      <4> QED BY <1>5, <2>3, <4>1, PressRead
    <3>2. CASE ~pressed
      <4>1. code = key[1] + 128 /\ Backed(modifiers, {ModifierOf(key)})
        BY <1>3, <3>2 DEF Sending
      <4> QED BY <1>5, <2>3, <4>1, ReleaseRead
    <3> QED BY <3>1, <3>2
  <2> HIDE DEF r
  <2>5. /\ modifiers' \subseteq 0 .. 5 /\ last_escape' = FALSE /\ queue' = <<>>
        /\ Backed(modifiers, {})'
    BY <1>1, <2>2, <2>4 DEF Backed
  <2> QED BY <1>2, <2>5 DEF IndInv
<1> QED BY <1>4, <1>5, <1>6, <1>7

\* The invariant holds whatever is typed.
THEOREM Inductive == KeyboardSpec => []IndInv
<1>1. KeyboardInit => IndInv
  BY DEF KeyboardInit, IndInv, Backed
<1>2. IndInv /\ [KeyboardNext]_keyboard_vars => IndInv'
  <2> SUFFICES ASSUME IndInv, [KeyboardNext]_keyboard_vars
               PROVE  IndInv'
    OBVIOUS
  <2>1. CASE KeyboardNext
    <3>1. CASE \E key \in Keys : Press(key) \/ Release(key)
      BY <3>1, TypingInv
    <3>2. CASE CheckKeyboard
      BY <3>2, CheckInv
    <3>3. CASE Fail
      BY <3>3 DEF Fail, IndInv, Sending, Backed
    <3> QED BY <2>1, <3>1, <3>2, <3>3 DEF KeyboardNext
  <2>2. CASE UNCHANGED keyboard_vars
    BY <2>2 DEF keyboard_vars, IndInv, Sending, Backed
  <2> QED BY <2>1, <2>2
<1> QED BY <1>1, <1>2, PTL DEF KeyboardSpec

\* No modifier sticks, for any set of keys, however many are held and however often
\* the machine fails or is rebooted in between.
THEOREM NothingSticks == KeyboardSpec => []NoStuckModifier
<1>1. IndInv => NoStuckModifier
  <2> SUFFICES ASSUME IndInv
               PROVE  NoStuckModifier
    OBVIOUS
  <2>1. CASE queue = <<>> /\ ~last_escape /\ Backed(modifiers, {})
    <3>1. Len(queue) <= 2
      BY <2>1
    <3>2. \A b \in modifiers \cap 0 .. 2 : \E key \in down : ModifierOf(key) = b
      BY <2>1 DEF Backed
    <3> QED BY <2>1, <3>1, <3>2 DEF IndInv, NoStuckModifier, KeyboardTypeOK
  <2>2. ASSUME NEW key \in Keys, NEW pressed \in BOOLEAN, Sending(key, pressed)
        PROVE  NoStuckModifier
    <3> DEFINE code == IF pressed THEN key[1] ELSE key[1] + 128
    <3>1. code \in 0 .. 255 /\ key[2] \in BOOLEAN
      BY KeyIs
    <3>2. queue = scan_bytes(key, code) \/ queue = <<code>>
      BY <2>2 DEF Sending
    <3> HIDE DEF code
    <3>3. queue # <<>> /\ Len(queue) <= 2
      <4>1. CASE queue = <<224, code>>
        BY <4>1
      <4>2. CASE queue = <<code>>
        BY <4>2
      <4>3. scan_bytes(key, code) = <<224, code>> \/ scan_bytes(key, code) = <<code>>
        BY DEF scan_bytes
      <4> QED BY <3>2, <4>1, <4>2, <4>3
    <3> QED BY <3>3 DEF IndInv, NoStuckModifier, KeyboardTypeOK
  <2> QED BY <2>1, <2>2 DEF IndInv
<1> QED BY <1>1, Inductive, PTL

=============================================================================
