------------------------------- MODULE Printf -------------------------------
(***************************************************************************)
(* Formatted output of shared/lib.c into a buffer: printer_vprintf with    *)
(* the string printer, vsnprintf, and the user's kernel_panic of           *)
(* uspace/process.c, which builds its message with them.                   *)
(*                                                                         *)
(* A format is a sequence of directives, already split into flags, width,  *)
(* precision and conversion; the parser that splits it (lib.c:152-190) is  *)
(* not modelled.  Characters are their ASCII codes; long and int have LONG *)
(* and INT bits.                                                           *)
(***************************************************************************)
EXTENDS Integers, Sequences, SequencesExt, FiniteSets, FiniteSetsExt

CONSTANTS
    LONG, INT,   \* bits of long and int
    NUMBUFSIZ,   \* bytes of numbuf
    Formats,     \* formats given to snprintf, see Directive
    Messages,    \* formats given to kernel_panic
    Sizes,       \* sizes given to snprintf
    PANICBUF,    \* sizeof(buf) in kernel_panic: 160
    PANICPREFIX  \* length of "PANIC: ": 7

SPACE == 32
NEWLINE == 10
NUL == 0
UNSET == -1

ASSUME PrintfAssumption ==
    /\ INT \in Nat \ {0} /\ LONG \in Nat /\ INT <= LONG
    /\ PANICPREFIX \in Nat /\ PANICBUF \in Nat /\ PANICPREFIX + 2 <= PANICBUF
    /\ Sizes \subseteq 0 .. PANICBUF

\* One directive.  The argument is the value of the register it is passed in, or
\* a string, or a character; a literal character is a directive of its own.
Directive(flags, width, precision, long, conv, arg) ==
    [flags |-> flags, width |-> width, precision |-> precision,
     long |-> long, conv |-> conv, arg |-> arg]

numeric(d) == d.conv \in {"d", "u", "x", "X", "p"}
base(d) == IF d.conv \in {"x", "X", "p"} THEN 16 ELSE 10

\* the w low bits of n, read as a signed number
signed(n, w) == IF n % 2^w >= 2^(w - 1) THEN (n % 2^w) - 2^w ELSE n % 2^w

bits(d) == IF d.long \/ d.conv = "p" THEN LONG ELSE INT

\* what va_arg yields
value(d) == IF d.conv = "d" THEN signed(d.arg, bits(d)) ELSE d.arg % 2^bits(d)

\* Mutant: the sign is dropped after the number was cut to int.
num_int(d) == IF value(d) < 0 THEN (-value(d)) % 2^(INT - 1) ELSE value(d)

\* num: -x is computed in a long
num(d) == IF value(d) < 0 THEN (-value(d)) % 2^LONG ELSE value(d)

digit(k, upper) == IF k < 10 THEN 48 + k ELSE IF upper THEN 55 + k ELSE 87 + k

fill_numbuf(n, b, upper) ==
    LET digits[k \in 0 .. 2^LONG] ==
          IF k < b THEN <<digit(k, upper)>> ELSE Append(digits[k \div b], digit(k % b, upper))
    IN  digits[n]

prefix(d) ==
    IF d.conv = "d"
    THEN IF value(d) < 0 THEN <<45>>
         ELSE IF "+" \in d.flags THEN <<43>>
         ELSE IF " " \in d.flags THEN <<SPACE>> ELSE <<>>
    ELSE IF d.conv = "p" \/ (numeric(d) /\ base(d) = 16 /\ "#" \in d.flags /\ num(d) # 0)
    THEN <<48, IF d.conv = "X" THEN 88 ELSE 120>> ELSE <<>>

\* the characters of the conversion, cut to the precision if it is no number
data(d) ==
    IF numeric(d) THEN fill_numbuf(num(d), base(d), d.conv = "X")
    ELSE IF d.precision >= 0 THEN SubSeq(d.arg, 1, Min({d.precision, Len(d.arg)}))
    ELSE d.arg

\* Mutant: the prefix is not counted.
zeros_wide(d) ==
    IF numeric(d) /\ d.precision >= 0 THEN Max({0, d.precision - Len(data(d))})
    ELSE IF numeric(d) /\ "0" \in d.flags /\ "-" \notin d.flags
    THEN Max({0, d.width - Len(data(d))}) ELSE 0

zeros(d) ==
    IF numeric(d) /\ d.precision >= 0 THEN Max({0, d.precision - Len(data(d))})
    ELSE IF numeric(d) /\ "0" \in d.flags /\ "-" \notin d.flags
    THEN Max({0, d.width - Len(data(d)) - Len(prefix(d))}) ELSE 0

times(n, c) == [k \in 1 .. n |-> c]

\* what printer_vprintf passes to putc for one directive; %C only changes the color
output(d) ==
    LET text == prefix(d) \o times(zeros(d), 48) \o data(d)
        pad == times(Max({0, d.width - Len(text)}), SPACE)
    IN  IF d.conv = "C" THEN <<>>
        ELSE IF "-" \in d.flags THEN text \o pad ELSE pad \o text

-----------------------------------------------------------------------------

VARIABLES
    caller,  \* "snprintf" or "panic"
    size,    \* size passed to vsnprintf
    fmt,     \* the whole format
    todo,    \* what is left of it
    buf,     \* the buffer and two bytes behind it
    s,       \* sp.s as an index
    stage    \* "print", "newline" or "done"

printf_vars == <<caller, size, fmt, todo, buf, s, stage>>

start == IF caller = "panic" THEN PANICPREFIX ELSE 0
ret == s - start

Blank == [k \in 0 .. (PANICBUF + 1) |-> UNSET]

PrintfInit ==
    /\ \/ caller = "snprintf" /\ fmt \in Formats /\ size \in Sizes /\ buf = Blank
       \/ /\ caller = "panic" /\ fmt \in Messages /\ size = PANICBUF - PANICPREFIX
          /\ buf = [k \in DOMAIN Blank |-> IF k < PANICPREFIX THEN 80 ELSE UNSET]
    /\ todo = fmt
    /\ s = start
    /\ stage = IF size = 0 THEN "done" ELSE "print"

\* Mutant: room for the terminator is not kept.
string_end_full == start + size

string_end == start + size - 1

\* one directive through string_putc
Convert ==
    /\ stage = "print" /\ todo # <<>>
    /\ LET out == output(Head(todo))
           n == Min({Len(out), string_end - s})
       IN  /\ buf' = [k \in DOMAIN buf |-> IF k \in s .. (s + n - 1) THEN out[k - s + 1] ELSE buf[k]]
           /\ s' = s + n
    /\ todo' = Tail(todo)
    /\ UNCHANGED <<caller, size, fmt, stage>>

\* the end of vsnprintf
Finish ==
    /\ stage = "print" /\ todo = <<>>
    /\ buf' = [buf EXCEPT ![s] = NUL]
    /\ stage' = IF caller = "panic" THEN "newline" ELSE "done"
    /\ UNCHANGED <<caller, size, fmt, todo, s>>

\* Mutant: a full buffer is not treated apart.
newline_at_end(len) == len

\* where kernel_panic puts the newline it adds
newline_at(len) == len - (IF len = PANICBUF - 1 THEN 1 ELSE 0)

\* kernel_panic adds a newline if there is none, overwriting the last character
\* of a message that fills the buffer
Newline ==
    /\ stage = "newline"
    /\ LET len == ret + PANICPREFIX
       IN  buf' = IF buf[len - 1] = NEWLINE THEN buf
                  ELSE [buf EXCEPT ![newline_at(len)] = NEWLINE, ![newline_at(len) + 1] = NUL]
    /\ stage' = "done"
    /\ UNCHANGED <<caller, size, fmt, todo, s>>

PrintfNext == Convert \/ Finish \/ Newline

PrintfSpec == PrintfInit /\ [][PrintfNext]_printf_vars

-----------------------------------------------------------------------------
(* Properties *)

\* numbuf is large enough for every number, with its terminator
PrintfTypeOK ==
    /\ \A k \in DOMAIN buf : buf[k] \in UNSET .. 127
    /\ s \in start .. Max({start, start + size - 1})
    /\ stage \in {"print", "newline", "done"}
    /\ \A k \in DOMAIN fmt : numeric(fmt[k]) => Len(data(fmt[k])) + 1 <= NUMBUFSIZ

\* snprintf never writes at or behind s + size, and leaves a terminated string
\* whose length it returns; kernel_panic stays inside its buffer, and no number
\* needs more than numbuf.
BufferKept ==
    /\ PrintfTypeOK
    /\ \A k \in DOMAIN buf : k >= (IF caller = "panic" THEN PANICBUF ELSE size) => buf[k] = UNSET
    /\ stage = "done" /\ size > 0 /\ caller = "snprintf" =>
         buf[ret] = NUL /\ \A k \in 0 .. (ret - 1) : buf[k] \notin {NUL, UNSET}

\* What kernel_panic passes on is the prefix and the message cut to the buffer, ended
\* by a newline and terminated, whatever its length.
PanicLine ==
    stage = "done" /\ caller = "panic" =>
        \E k \in PANICPREFIX .. (PANICBUF - 2) :
            /\ buf[k] = NEWLINE /\ buf[k + 1] = NUL
            /\ \A j \in 0 .. (k - 1) : buf[j] \notin {NUL, UNSET}

\* the characters of a finished call that were not cut off
Written == [k \in 1 .. ret |-> buf[k - 1]]
Complete == stage = "done" /\ caller = "snprintf" /\ Len(fmt) = 1 /\ ret < size - 1
Unspaced(t) == SelectSeq(t, LAMBDA c : c # SPACE)

\* the number that digits t stand for
Number(t, b) ==
    LET of[k \in 0 .. Len(t)] ==
          IF k = 0 THEN 0
          ELSE of[k - 1] * b + (CHOOSE x \in 0 .. 15 : t[k] \in {digit(x, TRUE), digit(x, FALSE)})
    IN  of[Len(t)]

\* A printed number, read back with its sign and base prefix, is the argument:
\* for every combination of flags, width and precision, and for the least long
\* and int too.
ReadsBack ==
    Complete /\ numeric(fmt[1]) =>
        LET d == fmt[1]
            t == Unspaced(Written)
            skip == Len(prefix(d)) - (IF prefix(d) = <<SPACE>> THEN 1 ELSE 0)
            n == Number(SubSeq(t, skip + 1, Len(t)), base(d))
        IN  /\ (IF t[1] = 45 THEN -n ELSE n) = value(d)
            /\ t[1] = 43 => "+" \in d.flags

\* The field is as wide as asked and no wider than needed, padded on the side
\* asked for; a number has at least the digits of the precision, a string at
\* most its characters.
FieldExact ==
    Complete =>
        LET d == fmt[1]
            t == Written
            sign == IF prefix(d) = <<SPACE>> THEN 1 ELSE 0
            spaces == {k \in DOMAIN t : t[k] = SPACE}
        IN  /\ d.conv = "C" => t = <<>>
            /\ d.conv # "C" => Len(t) = Max({d.width, Len(prefix(d)) + Len(data(d)),
                                            IF numeric(d) THEN Len(prefix(d)) + d.precision ELSE 0})
            /\ "-" \in d.flags =>
                 \A k \in spaces : k > sign => \A j \in k .. Len(t) : j \in spaces
            /\ "-" \notin d.flags /\ d.conv # "C" => \A k \in spaces : \A j \in 1 .. k : j \in spaces
            /\ numeric(d) => Len(Unspaced(t)) >= d.precision
            /\ d.conv = "s" /\ d.precision >= 0 => Len(Unspaced(t)) <= d.precision

=============================================================================
