------------------------------ MODULE Keyboard ------------------------------
(***************************************************************************)
(* keyboard_readc and check_keyboard of kernel/k-hardware.c, and what the  *)
(* kernel runs after a soft reboot (kernel() of kernel/kernel.c).          *)
(*                                                                         *)
(* A key has a code of 7 bits; an extended one sends 0xE0 first; a release *)
(* sends the code with its top bit set.  The kernel reads one byte on      *)
(* every exception, and in a loop when it has nothing to run or has        *)
(* failed.  modifiers and last_escape are static: they survive a soft      *)
(* reboot.                                                                 *)
(***************************************************************************)
EXTENDS Integers, Sequences, FiniteSets, TLC

CONSTANTS
    Keys,       \* the keys of the keyboard that are used, <<code, extended>>
    HELD        \* modifier keys held down at a time: a bound of the model

\* no key has code 96: the byte of its release would be the prefix 0xE0
ASSUME KeyboardAssumption == Keys \subseteq ((1 .. 127) \ {96}) \X BOOLEAN /\ HELD \in Nat

KEY_SHIFT == 250
KEY_CAPSLOCK == 253
CKEY(n) == 128 + n

\* modifiers as a set of bits
SHIFT == 0
CONTROL == 1
CAPSLOCK == 3

\* the first 84 entries of keymap, by key code
plain_keymap == <<
    0, 27, CKEY(0), CKEY(1), CKEY(2), CKEY(3), CKEY(4), CKEY(5),
    CKEY(6), CKEY(7), CKEY(8), CKEY(9), CKEY(10), CKEY(11), 8, 9,
    113, 119, 101, 114, 116, 121, 117, 105, 111, 112, CKEY(12), CKEY(13), CKEY(14), 251, 97, 115,
    100, 102, 103, 104, 106, 107, 108, CKEY(15), CKEY(16), CKEY(17), 250, CKEY(18), 122, 120, 99, 118,
    98, 110, 109, CKEY(19), CKEY(20), CKEY(21), 250, 42, 252, 32, 253, 0, 0, 0, 0, 0,
    0, 0, 0, 0, 0, 254, 255, 55, 56, 57, 45, 52, 53, 54, 43, 49, 50, 51, 48, 46>>

\* its entries from 0x80, the extended keys
extended_keymap(k) ==
    CASE k = 156 -> CKEY(14) [] k = 157 -> 251 [] k = 181 -> 47  [] k = 184 -> 252
      [] k = 199 -> 196 [] k = 200 -> 192 [] k = 201 -> 198 [] k = 203 -> 195 [] k = 205 -> 193
      [] k = 207 -> 197 [] k = 208 -> 194 [] k = 209 -> 199 [] k = 210 -> 200 [] k = 211 -> 201
      [] OTHER -> 0

keymap == [k \in 0 .. 255 |->
    IF k < Len(plain_keymap) THEN plain_keymap[k + 1] ELSE extended_keymap(k)]

\* complex_keymap: plain, with shift, with control, with both
complex_keymap == <<
    <<49, 33, 0, 0>>, <<50, 64, 0, 0>>, <<51, 35, 0, 0>>, <<52, 36, 0, 0>>, <<53, 37, 0, 0>>,
    <<54, 94, 0, 30>>, <<55, 38, 0, 0>>, <<56, 42, 0, 0>>, <<57, 40, 0, 0>>, <<48, 41, 0, 0>>,
    <<45, 95, 0, 31>>, <<61, 43, 0, 0>>, <<91, 123, 27, 0>>, <<93, 125, 29, 0>>, <<10, 10, 13, 13>>,
    <<59, 58, 0, 0>>, <<39, 34, 0, 0>>, <<96, 126, 0, 0>>, <<92, 124, 28, 0>>, <<44, 60, 0, 0>>,
    <<46, 62, 0, 0>>, <<47, 63, 0, 0>>>>

-----------------------------------------------------------------------------

VARIABLES
    modifiers, last_escape,  \* the statics of keyboard_readc
    queue,                   \* bytes the controller has for the kernel
    down,                    \* modifier keys that are held down
    status,                  \* "running", "fail" or "off"
    program                  \* the processes kernel() sets up: pid |-> program

keyboard_vars == <<modifiers, last_escape, queue, down, status, program>>

\* Mutant: only shift and control are released.
released_bits_few(ch) == IF ch >= KEY_SHIFT /\ ch < KEY_CAPSLOCK - 1 THEN {ch - KEY_SHIFT} ELSE {}

\* the modifier a release clears; the locks stay
released_bits(ch) == IF ch >= KEY_SHIFT /\ ch < KEY_CAPSLOCK THEN {ch - KEY_SHIFT} ELSE {}

Toggle(S, b) == IF b \in S THEN S \ {b} ELSE S \cup {b}

\* what a press does to the modifiers
modifiers_after(m, ch) ==
    IF ch >= KEY_CAPSLOCK THEN Toggle(m, ch - KEY_SHIFT)
    ELSE IF ch >= KEY_SHIFT THEN m \cup {ch - KEY_SHIFT} ELSE m

map_index(m) == 1 + (IF SHIFT \in m THEN 1 ELSE 0) + (IF CONTROL \in m THEN 2 ELSE 0)

\* Mutant: the last complex key is taken for a special key.
is_complex_short(ch) == ch >= CKEY(0) /\ ch < CKEY(21)

is_complex(ch) == ch >= CKEY(0) /\ ch <= CKEY(21)

\* a plain key that is no letter
plain(m, ch) == IF ch < 128 /\ CONTROL \in m THEN 0 ELSE ch

\* the character of a press
character(m, ch) ==
    IF ch \in 97 .. 122
    THEN IF CONTROL \in m THEN ch - 96
         ELSE IF (SHIFT \in m) # (CAPSLOCK \in m) THEN ch - 32 ELSE ch
    ELSE IF ch >= KEY_SHIFT THEN 0
    ELSE IF is_complex(ch) THEN complex_keymap[ch - CKEY(0) + 1][map_index(m)]
    ELSE plain(m, ch)

escape_after(escape) == FALSE

\* keyboard_readc on a byte
keyboard_readc(m, escape, byte) ==
    LET entry(b, ext) == keymap[IF ext THEN b + 128 ELSE b]
    IN  IF byte = 224 THEN [modifiers |-> m, last_escape |-> TRUE, ch |-> 0]
        ELSE IF byte >= 128
        THEN [modifiers |-> m \ released_bits(entry(byte - 128, escape)),
              last_escape |-> escape_after(escape), ch |-> 0]
        ELSE [modifiers |-> modifiers_after(m, entry(byte, escape)),
              last_escape |-> escape_after(escape), ch |-> character(m, entry(byte, escape))]

\* the command line of a soft reboot
argument(ch) ==
    CASE ch = 97 -> "allocator" [] ch = 99 -> "alloctests" [] ch = 116 -> "test"
      [] ch = 50 -> "test2" [] OTHER -> "malloc"

\* the processes kernel() sets up for a command
setup(command) ==
    CASE command = "malloc" -> (1 :> 1) [] command = "alloctests" -> (1 :> 2)
      [] command = "test" -> (1 :> 3) [] command = "test2" -> (1 :> 3 @@ 2 :> 3)
      [] OTHER -> (1 :> 0)

KeyboardInit ==
    /\ modifiers = {} /\ last_escape = FALSE
    /\ queue = <<>> /\ down = {}
    /\ status = "running" /\ program = setup("")

ModifierOf(key) == keymap[IF key[2] THEN key[1] + 128 ELSE key[1]] - KEY_SHIFT
IsModifier(key) == ModifierOf(key) \in 0 .. 2

scan_bytes(key, byte) == IF key[2] THEN <<224, byte>> ELSE <<byte>>

\* The user presses a key, or the keyboard repeats it.
Press(key) ==
    /\ status # "off" /\ queue = <<>>
    /\ IsModifier(key) => Cardinality(down \cup {key}) <= HELD
    /\ queue' = scan_bytes(key, key[1])
    /\ down' = IF IsModifier(key) THEN down \cup {key} ELSE down
    /\ UNCHANGED <<modifiers, last_escape, status, program>>

Release(key) ==
    /\ status # "off" /\ queue = <<>>
    /\ IsModifier(key) => key \in down
    /\ queue' = scan_bytes(key, key[1] + 128)
    /\ down' = down \ {key}
    /\ UNCHANGED <<modifiers, last_escape, status, program>>

Reboots == {97, 109, 99, 116, 50}
PowersOff == {3, 113}

\* Mutant: fail() loops without looking at the keyboard.
polled_running == status = "running"

\* exception() and schedule() call check_keyboard, and fail() does nothing else
polled == status \in {"running", "fail"}

\* check_keyboard with a byte to read
CheckKeyboard ==
    /\ polled /\ queue # <<>>
    /\ LET r == keyboard_readc(modifiers, last_escape, Head(queue))
       IN  /\ modifiers' = r.modifiers /\ last_escape' = r.last_escape
           /\ status' = IF r.ch \in Reboots THEN "running"
                        ELSE IF r.ch \in PowersOff THEN "off" ELSE status
           /\ program' = IF r.ch \in Reboots THEN setup(argument(r.ch)) ELSE program
    /\ queue' = Tail(queue)
    /\ UNCHANGED down

\* A panic: fail() polls from now on.
Fail ==
    /\ status = "running"
    /\ status' = "fail"
    /\ UNCHANGED <<modifiers, last_escape, queue, down, program>>

KeyboardNext == (\E key \in Keys : Press(key) \/ Release(key)) \/ CheckKeyboard \/ Fail

\* Exceptions keep coming, or fail() loops.
KeyboardSpec == KeyboardInit /\ [][KeyboardNext]_keyboard_vars /\ WF_keyboard_vars(CheckKeyboard)

-----------------------------------------------------------------------------
(* Properties *)

KeyboardTypeOK ==
    /\ modifiers \subseteq 0 .. 5 /\ last_escape \in BOOLEAN
    /\ Len(queue) <= 2 /\ down \subseteq Keys
    /\ status \in {"running", "fail", "off"}
    /\ program \in {setup(c) : c \in {"", "malloc", "alloctests", "test", "test2"}}
    /\ last_escape => queue # <<>>

\* While the machine is on, whatever is held and whatever byte comes next,
\* keyboard_readc returns nothing, a character or one of the special keys of
\* kernel.h, never a code of its own tables.
ReturnsDocumented ==
    status # "off" /\ queue = <<>> =>
        \A byte \in 0 .. 255, escape \in BOOLEAN :
            keyboard_readc(modifiers, escape, byte).ch \in 0 .. 127 \cup 192 .. 201

\* No modifier sticks: once all bytes are read, shift, control or alt is on only
\* while a key for it is held, left or right, through soft reboots and failures,
\* and no escape is left over for the next byte.
NoStuckModifier ==
    /\ KeyboardTypeOK
    /\ queue = <<>> => \A b \in modifiers \cap 0 .. 2 : \E key \in down : ModifierOf(key) = b

\* Every byte is read, also after a panic, so that a machine that has failed can be
\* rebooted or powered off.
KeysRead == queue # <<>> ~> queue = <<>>

=============================================================================
