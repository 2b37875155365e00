---------------------------- MODULE MachineProofs ----------------------------
(***************************************************************************)
(* Proofs about Machine for any number of processes, any calls and any     *)
(* contents of registers: what the handlers push is what the descriptor    *)
(* holds and what exception_return pops, and interrupts stay off while the *)
(* kernel runs.                                                            *)
(***************************************************************************)
EXTENDS Machine, Arith, SequenceTheorems

-----------------------------------------------------------------------------
(* The three lists of registers *)

\* The lengths of the lists.
LEMMA Lengths ==
    /\ Len(pushed) = 17 /\ Len(popped) = 17 /\ Len(iret_frame) = 5
    /\ Len(x86_64_registers) = 24 /\ DOMAIN x86_64_registers = 1 .. 24
  BY DEF pushed, popped, iret_frame, x86_64_registers

\* The handlers push the struct from its end, around the two words of the handler.
LEMMA PushedIs ==
    /\ \A k \in 1 .. 17 : x86_64_registers[k] = pushed[18 - k]
    /\ x86_64_registers[18] = "intno" /\ x86_64_registers[19] = "err"
    /\ \A k \in 1 .. 5 : x86_64_registers[19 + k] = iret_frame[k]
<1>1. \A k \in 1 .. 17 : x86_64_registers[k] = pushed[18 - k]
  <2> TAKE k \in 1 .. 17
  <2>1. \/ k = 1 \/ k = 2 \/ k = 3 \/ k = 4 \/ k = 5 \/ k = 6 \/ k = 7 \/ k = 8 \/ k = 9
        \/ k = 10 \/ k = 11 \/ k = 12 \/ k = 13 \/ k = 14 \/ k = 15 \/ k = 16 \/ k = 17
    OBVIOUS
  <2> QED BY <2>1 DEF x86_64_registers, pushed
<1>2. \A k \in 1 .. 5 : x86_64_registers[19 + k] = iret_frame[k]
  <2> TAKE k \in 1 .. 5
  <2>1. k = 1 \/ k = 2 \/ k = 3 \/ k = 4 \/ k = 5
    OBVIOUS
  <2> QED BY <2>1 DEF x86_64_registers, iret_frame
<1> QED BY <1>1, <1>2 DEF x86_64_registers

\* exception_return pops the struct from its beginning.
LEMMA PoppedIs ==
    \A k \in 1 .. 17 : popped[k] = x86_64_registers[k]
<1> TAKE k \in 1 .. 17
<1>1. \/ k = 1 \/ k = 2 \/ k = 3 \/ k = 4 \/ k = 5 \/ k = 6 \/ k = 7 \/ k = 8 \/ k = 9
      \/ k = 10 \/ k = 11 \/ k = 12 \/ k = 13 \/ k = 14 \/ k = 15 \/ k = 16 \/ k = 17
  OBVIOUS
<1> QED BY <1>1 DEF x86_64_registers, popped

\* A sequence as a function.
LEMMA SeqIs ==
    ASSUME NEW S, NEW n \in Nat, NEW f \in [1 .. n -> S]
    PROVE  f \in Seq(S) /\ Len(f) = n
<1>1. f \in Seq(S)
  BY SeqDef
<1>2. DOMAIN f = 1 .. n /\ Len(f) \in Nat /\ DOMAIN f = 1 .. Len(f)
  BY <1>1, LenProperties
<1>3. Len(f) = n
  BY <1>2
<1> QED BY <1>1, <1>3

\* a sequence of n elements of S
OfLength(S, n, s) == s \in Seq(S) /\ Len(s) = n

\* f consists of a, b and c, as long as the parts of a frame
Parts(f, a, b, c) ==
    /\ Len(f) = 24 /\ DOMAIN f = 1 .. 24
    /\ \A k \in 1 .. 17 : f[k] = a[k]
    /\ \A k \in 1 .. 2 : f[17 + k] = b[k]
    /\ \A k \in 1 .. 5 : f[19 + k] = c[k]

\* The elements of a concatenation of three parts.
LEMMA ConcatThree ==
    ASSUME NEW S, NEW a, NEW b, NEW c, OfLength(S, 17, a), OfLength(S, 2, b), OfLength(S, 5, c)
    PROVE  Parts(a \o b \o c, a, b, c)
<1> DEFINE ab == a \o b
           f == ab \o c
<1>0. /\ a \in Seq(S) /\ b \in Seq(S) /\ c \in Seq(S)
      /\ Len(a) = 17 /\ Len(b) = 2 /\ Len(c) = 5
  BY DEF OfLength
<1>1. /\ ab \in Seq(S) /\ Len(ab) = 19
      /\ \A k \in 1 .. 19 : ab[k] = IF k <= 17 THEN a[k] ELSE b[k - 17]
  <2>1. /\ ab \in Seq(S) /\ Len(ab) = Len(a) + Len(b)
        /\ \A k \in 1 .. Len(a) + Len(b) : ab[k] = IF k <= Len(a) THEN a[k] ELSE b[k - Len(a)]
    BY <1>0, ConcatProperties, Zenon
  <2> HIDE DEF ab
  <2> QED BY <1>0, <2>1
<1>2. /\ f \in Seq(S) /\ Len(f) = 24
      /\ \A k \in 1 .. 24 : f[k] = IF k <= 19 THEN ab[k] ELSE c[k - 19]
  <2> HIDE DEF ab
  <2>1. /\ f \in Seq(S) /\ Len(f) = Len(ab) + Len(c)
        /\ \A k \in 1 .. Len(ab) + Len(c) : f[k] = IF k <= Len(ab) THEN ab[k] ELSE c[k - Len(ab)]
    BY <1>0, <1>1, ConcatProperties, Zenon
  <2> HIDE DEF f
  <2> QED BY <1>0, <1>1, <2>1
<1>3. DOMAIN f = 1 .. 24
  <2> HIDE DEF f
  <2> QED BY <1>2, LenProperties
<1> HIDE DEF ab, f
<1>4. \A k \in 1 .. 17 : f[k] = a[k]
  <2> TAKE k \in 1 .. 17
  <2>1. k \in 1 .. 19 /\ k \in 1 .. 24 /\ k <= 17 /\ k <= 19
    OBVIOUS
  <2>2. f[k] = ab[k]
    BY <1>2, <2>1
  <2>3. ab[k] = a[k]
    BY <1>1, <2>1
  <2> QED BY <2>2, <2>3
<1>5. \A k \in 1 .. 2 : f[17 + k] = b[k]
  <2> TAKE k \in 1 .. 2
  <2>1. /\ 17 + k \in 1 .. 19 /\ 17 + k \in 1 .. 24 /\ (17 + k) - 17 = k /\ ~(17 + k <= 17)
        /\ 17 + k <= 19
    OBVIOUS
  <2>2. f[17 + k] = ab[17 + k]
    BY <1>2, <2>1
  <2>3. ab[17 + k] = b[k]
    BY <1>1, <2>1
  <2> QED BY <2>2, <2>3
<1>6. \A k \in 1 .. 5 : f[19 + k] = c[k]
  <2> TAKE k \in 1 .. 5
  <2>1. 19 + k \in 1 .. 24 /\ (19 + k) - 19 = k /\ ~(19 + k <= 19)
    OBVIOUS
  <2> QED BY <1>2, <2>1
<1>7. Parts(f, a, b, c)
  BY <1>2, <1>3, <1>4, <1>5, <1>6 DEF Parts
<1> QED BY <1>7 DEF f, ab

\* what a frame holds where the struct has field r
Word(regs, handler, err, r) ==
    IF r = "intno" THEN handler ELSE IF r = "err" THEN err ELSE regs[r]

\* No name of a register is a name of the handler's words.
LEMMA NamesAre ==
    /\ Fields = Names \cup {"intno", "err"}
    /\ "intno" \notin Names /\ "err" \notin Names
    /\ {"rax", "rflags", "rip", "rsp", "cs", "ss", "fs", "gs"} \subseteq Names
<1>1. ToSet(pushed) = {pushed[k] : k \in 1 .. 17} /\ ToSet(iret_frame) = {iret_frame[k] : k \in 1 .. 5}
  BY DEF ToSet, pushed, iret_frame
<1>2. Fields = {x86_64_registers[k] : k \in 1 .. 24}
  BY Lengths DEF Fields, ToSet
<1>3. Fields \subseteq Names \cup {"intno", "err"}
  <2> SUFFICES ASSUME NEW k \in 1 .. 24
               PROVE  x86_64_registers[k] \in Names \cup {"intno", "err"}
    BY <1>2
  <2>1. CASE k <= 17
    BY <1>1, <2>1, PushedIs DEF Names
  <2>2. CASE k = 18 \/ k = 19
    BY <2>2, PushedIs
  <2>3. CASE k >= 20
    <3>1. k - 19 \in 1 .. 5 /\ 19 + (k - 19) = k
      BY <2>3
    <3> QED BY <1>1, <3>1, PushedIs DEF Names
  <2> QED BY <2>1, <2>2, <2>3
<1>4. Names \subseteq Fields
  <2>1. ASSUME NEW k \in 1 .. 17
        PROVE  pushed[k] \in Fields
    <3>1. 18 - k \in 1 .. 17 /\ 18 - (18 - k) = k /\ 18 - k \in 1 .. 24
      OBVIOUS
    <3> QED BY <1>2, <3>1, PushedIs
  <2>2. ASSUME NEW k \in 1 .. 5
        PROVE  iret_frame[k] \in Fields
    BY <1>2, PushedIs
  <2> QED BY <1>1, <2>1, <2>2 DEF Names
<1>5. "intno" \notin Names /\ "err" \notin Names
  <2>1. ASSUME NEW k \in 1 .. 17
        PROVE  pushed[k] # "intno" /\ pushed[k] # "err"
    <3>1. \/ k = 1 \/ k = 2 \/ k = 3 \/ k = 4 \/ k = 5 \/ k = 6 \/ k = 7 \/ k = 8 \/ k = 9
          \/ k = 10 \/ k = 11 \/ k = 12 \/ k = 13 \/ k = 14 \/ k = 15 \/ k = 16 \/ k = 17
      OBVIOUS
    <3> QED BY <3>1 DEF pushed
  <2>2. ASSUME NEW k \in 1 .. 5
        PROVE  iret_frame[k] # "intno" /\ iret_frame[k] # "err"
    <3>1. k = 1 \/ k = 2 \/ k = 3 \/ k = 4 \/ k = 5
      OBVIOUS
    <3> QED BY <3>1 DEF iret_frame
  <2> QED BY <1>1, <2>1, <2>2 DEF Names
<1>6. {"intno", "err"} \subseteq Fields
  BY <1>2, PushedIs
<1>7. {"rax", "rflags", "rip", "rsp", "cs", "ss", "fs", "gs"} \subseteq Names
  <2>1. pushed[17] = "rax" /\ pushed[1] = "gs" /\ pushed[2] = "fs"
    BY DEF pushed
  <2>2. /\ iret_frame[1] = "rip" /\ iret_frame[2] = "cs" /\ iret_frame[3] = "rflags"
        /\ iret_frame[4] = "rsp" /\ iret_frame[5] = "ss"
    BY DEF iret_frame
  <2> QED BY <1>1, <2>1, <2>2 DEF Names
<1> QED BY <1>3, <1>4, <1>5, <1>6, <1>7

\* A frame with both words of the handler has a word for each field of
\* the struct, in the struct's order.
LEMMA FrameIs ==
    ASSUME NEW regs, NEW h, NEW e
    PROVE  /\ Len(frame(regs, <<h, e>>)) = 24
           /\ \A k \in 1 .. 24 : frame(regs, <<h, e>>)[k] = Word(regs, h, e, x86_64_registers[k])
<1> DEFINE a == [k \in 1 .. 17 |-> regs[pushed[17 + 1 - k]]]
           b == <<h, e>>
           c == [k \in 1 .. 5 |-> regs[iret_frame[k]]]
           S == {a[k] : k \in 1 .. 17} \cup {h, e} \cup {c[k] : k \in 1 .. 5}
           f == frame(regs, <<h, e>>)
<1>1. f = a \o b \o c
  BY Lengths DEF frame
<1>2. a \in [1 .. 17 -> S] /\ c \in [1 .. 5 -> S]
  OBVIOUS
<1>3. b \in Seq(S) /\ Len(b) = 2 /\ b[1] = h /\ b[2] = e
  <2>1. h \in S /\ e \in S
    OBVIOUS
  <2> HIDE DEF S
  <2> QED BY <2>1
<1>4. /\ \A k \in 1 .. 17 : a[k] = regs[pushed[18 - k]]
      /\ \A k \in 1 .. 5 : c[k] = regs[iret_frame[k]]
  OBVIOUS
<1> HIDE DEF a, b, c, S, f
<1>5. a \in Seq(S) /\ Len(a) = 17 /\ c \in Seq(S) /\ Len(c) = 5
  <2>1. a \in Seq(S) /\ Len(a) = 17
    BY <1>2, SeqIs
  <2>2. c \in Seq(S) /\ Len(c) = 5
    BY <1>2, SeqIs
  <2> QED BY <2>1, <2>2
<1>6. /\ Len(f) = 24
      /\ \A k \in 1 .. 17 : f[k] = a[k]
      /\ \A k \in 1 .. 2 : f[17 + k] = b[k]
      /\ \A k \in 1 .. 5 : f[19 + k] = c[k]
  <2>1. OfLength(S, 17, a) /\ OfLength(S, 2, b) /\ OfLength(S, 5, c)
    BY <1>3, <1>5 DEF OfLength
  <2>2. Parts(f, a, b, c)
    BY <1>1, <2>1, ConcatThree
  <2> QED BY <2>2 DEF Parts
<1>7. ASSUME NEW k \in 1 .. 24
      PROVE  f[k] = Word(regs, h, e, x86_64_registers[k])
  <2>1. CASE k <= 17
    <3>1. k \in 1 .. 17
      BY <2>1
    <3>2. f[k] = regs[x86_64_registers[k]]
      BY <1>4, <1>6, <3>1, PushedIs
    <3>3. x86_64_registers[k] # "intno" /\ x86_64_registers[k] # "err"
      <4>1. 18 - k \in 1 .. 17 /\ x86_64_registers[k] = pushed[18 - k]
        BY <3>1, PushedIs
      <4>2. DOMAIN pushed = 1 .. 17
        BY DEF pushed
      <4> QED BY <4>1, <4>2, NamesAre DEF Names, ToSet
    <3> QED BY <3>2, <3>3 DEF Word
  <2>2. CASE k = 18
    BY <1>3, <1>6, <2>2, PushedIs DEF Word
  <2>3. CASE k = 19
    BY <1>3, <1>6, <2>3, PushedIs DEF Word
  <2>4. CASE k >= 20
    <3>1. PICK j \in 1 .. 5 : k = 19 + j
      BY <2>4
    <3>2. f[k] = regs[x86_64_registers[k]] /\ x86_64_registers[k] = iret_frame[j]
      BY <1>4, <1>6, <3>1, PushedIs
    <3>3. iret_frame[j] # "intno" /\ iret_frame[j] # "err"
      <4>1. DOMAIN iret_frame = 1 .. 5
        BY DEF iret_frame
      <4> QED BY <4>1, NamesAre DEF Names, ToSet
    <3> QED BY <3>2, <3>3 DEF Word
  <2> QED BY <2>1, <2>2, <2>3, <2>4
<1> QED BY <1>6, <1>7 DEF f

\* position is where the struct has a field.
LEMMA PositionIs ==
    ASSUME NEW r \in Fields
    PROVE  position[r] \in 1 .. 24 /\ x86_64_registers[position[r]] = r
<1>1. \E k \in DOMAIN x86_64_registers : x86_64_registers[k] = r
  BY DEF Fields, ToSet
<1>2. position[r] = CHOOSE k \in DOMAIN x86_64_registers : x86_64_registers[k] = r
  BY DEF position
<1> QED BY <1>1, <1>2, Lengths

\* The descriptor gets every word of the frame under its own name.
LEMMA SavedIs ==
    ASSUME NEW regs, NEW h, NEW e
    PROVE  /\ as_registers(frame(regs, <<h, e>>)) = [r \in Fields |-> Word(regs, h, e, r)]
           /\ frame(regs, <<h, e>>)[position["intno"]] = h
<1> DEFINE f == frame(regs, <<h, e>>)
<1>1. /\ Len(f) = 24
      /\ \A k \in 1 .. 24 : f[k] = Word(regs, h, e, x86_64_registers[k])
  BY FrameIs
<1> HIDE DEF f
<1>2. ASSUME NEW r \in Fields
      PROVE  position[r] <= Len(f) /\ f[position[r]] = Word(regs, h, e, r)
  BY <1>1, <1>2, PositionIs
<1>3. as_registers(f) = [r \in Fields |-> Word(regs, h, e, r)]
  BY <1>2 DEF as_registers
<1>4. f[position["intno"]] = h
  BY <1>2, NamesAre DEF Word
<1> QED BY <1>3, <1>4 DEF f

\* The word between the others, when there is one only.
LEMMA ConcatShort ==
    ASSUME NEW S, NEW a \in Seq(S), NEW b \in Seq(S), NEW c \in Seq(S), Len(a) = 17, Len(b) = 1
    PROVE  (a \o b \o c)[18] = b[1]
<1> DEFINE ab == a \o b
           f == ab \o c
<1>1. /\ ab \in Seq(S) /\ Len(ab) = Len(a) + Len(b)
      /\ \A k \in 1 .. Len(a) + Len(b) : ab[k] = IF k <= Len(a) THEN a[k] ELSE b[k - Len(a)]
  BY ConcatProperties, Zenon
<1> HIDE DEF ab
<1>2. /\ f \in Seq(S) /\ Len(f) = Len(ab) + Len(c)
      /\ \A k \in 1 .. Len(ab) + Len(c) : f[k] = IF k <= Len(ab) THEN ab[k] ELSE c[k - Len(ab)]
  <2>1. ab \in Seq(S)
    BY <1>1
  <2> QED BY <2>1, ConcatProperties, Zenon
<1> HIDE DEF f
<1>3. Len(ab) = 18 /\ ab[18] = b[1]
  BY <1>1
<1>4. Len(c) \in Nat
  BY LenProperties
<1>5. f[18] = b[1]
  BY <1>2, <1>3, <1>4
<1> QED BY <1>5 DEF f, ab

\* The one word of default_int_handler lies where exception() looks for intno.
LEMMA ShortFrame ==
    ASSUME NEW regs
    PROVE  frame(regs, <<0>>)[position["intno"]] = 0
<1> DEFINE a == [k \in 1 .. 17 |-> regs[pushed[17 + 1 - k]]]
           b == <<0>>
           c == [k \in 1 .. 5 |-> regs[iret_frame[k]]]
           S == {a[k] : k \in 1 .. 17} \cup {0} \cup {c[k] : k \in 1 .. 5}
<1>1. frame(regs, <<0>>) = a \o b \o c
  BY Lengths DEF frame
<1>2. a \in [1 .. 17 -> S] /\ c \in [1 .. 5 -> S] /\ 0 \in S
  OBVIOUS
<1>3. position["intno"] = 18
  <2>1. position["intno"] \in 1 .. 24 /\ x86_64_registers[position["intno"]] = "intno"
    BY PositionIs, NamesAre
  <2>2. ASSUME NEW k \in 1 .. 24, x86_64_registers[k] = "intno"
        PROVE  k = 18
    <3>1. \/ k = 1 \/ k = 2 \/ k = 3 \/ k = 4 \/ k = 5 \/ k = 6 \/ k = 7 \/ k = 8 \/ k = 9
          \/ k = 10 \/ k = 11 \/ k = 12 \/ k = 13 \/ k = 14 \/ k = 15 \/ k = 16 \/ k = 17
          \/ k = 18 \/ k = 19 \/ k = 20 \/ k = 21 \/ k = 22 \/ k = 23 \/ k = 24
      OBVIOUS
    <3> QED BY <2>2, <3>1 DEF x86_64_registers
  <2> QED BY <2>1, <2>2
<1> HIDE DEF a, c, S
<1>4. a \in Seq(S) /\ Len(a) = 17 /\ c \in Seq(S) /\ Len(c) = 5
  <2>1. a \in Seq(S) /\ Len(a) = 17
    BY <1>2, SeqIs
  <2>2. c \in Seq(S) /\ Len(c) = 5
    BY <1>2, SeqIs
  <2> QED BY <2>1, <2>2
<1>5. b \in Seq(S) /\ Len(b) = 1 /\ b[1] = 0
  BY <1>2
<1> HIDE DEF b
<1>6. (a \o b \o c)[18] = 0
  BY <1>4, <1>5, ConcatShort
<1> QED BY <1>1, <1>3, <1>6

\* exception_return loads every register from the field of its name.
LEMMA RestoredIs ==
    ASSUME NEW regs
    PROVE  restored(regs) = [r \in Names |-> regs[r]]
<1> DEFINE words == popped \o <<"intno", "err">> \o iret_frame
<1> DEFINE S == {popped[k] : k \in 1 .. 17} \cup {"intno", "err"} \cup {iret_frame[k] : k \in 1 .. 5}
<1>1. OfLength(S, 17, popped) /\ OfLength(S, 2, <<"intno", "err">>) /\ OfLength(S, 5, iret_frame)
  <2>1. popped = [k \in 1 .. 17 |-> popped[k]]
    BY DEF popped
  <2>2. iret_frame = [k \in 1 .. 5 |-> iret_frame[k]]
    BY DEF iret_frame
  <2>3. popped \in [1 .. 17 -> S] /\ iret_frame \in [1 .. 5 -> S]
    BY <2>1, <2>2
  <2>4. <<"intno", "err">> \in Seq(S) /\ Len(<<"intno", "err">>) = 2
    <3>1. "intno" \in S /\ "err" \in S
      OBVIOUS
    <3> HIDE DEF S
    <3> QED BY <3>1
  <2> HIDE DEF S
  <2>5. popped \in Seq(S) /\ iret_frame \in Seq(S)
    BY <2>3, SeqIs
  <2> QED BY <2>4, <2>5, Lengths DEF OfLength
<1>2. Parts(words, popped, <<"intno", "err">>, iret_frame)
  BY <1>1, ConcatThree
<1>3. /\ DOMAIN words = 1 .. 24
      /\ \A k \in 1 .. 17 : words[k] = popped[k]
      /\ \A k \in 1 .. 2 : words[17 + k] = <<"intno", "err">>[k]
      /\ \A k \in 1 .. 5 : words[19 + k] = iret_frame[k]
  BY <1>2 DEF Parts
<1>4. taken_at = [r \in ToSet(words) |-> CHOOSE k \in DOMAIN words : words[k] = r]
  BY DEF taken_at
<1> HIDE DEF words
<1>5. ASSUME NEW k \in 1 .. 24
      PROVE  words[k] = x86_64_registers[k]
  <2>1. CASE k <= 17
    BY <1>3, <2>1, PoppedIs
  <2>2. CASE k = 18
    <3>1. words[17 + 1] = "intno"
      BY <1>3
    <3> QED BY <2>2, <3>1, PushedIs
  <2>3. CASE k = 19
    <3>1. words[17 + 2] = "err"
      BY <1>3
    <3> QED BY <2>3, <3>1, PushedIs
  <2>4. CASE k >= 20
    <3>1. PICK j \in 1 .. 5 : k = 19 + j
      BY <2>4
    <3> QED BY <1>3, <3>1, PushedIs
  <2> QED BY <2>1, <2>2, <2>3, <2>4
<1>6. ToSet(words) = Fields
  BY <1>3, <1>5, Lengths DEF ToSet, Fields
<1>7. ASSUME NEW r \in Names
      PROVE  x86_64_registers[taken_at[r]] = r
  <2>1. r \in ToSet(words)
    BY <1>6, NamesAre
  <2>2. \E k \in DOMAIN words : words[k] = r
    BY <2>1 DEF ToSet
  <2>3. taken_at[r] = CHOOSE k \in DOMAIN words : words[k] = r
    BY <1>4, <2>1
  <2>4. taken_at[r] \in 1 .. 24 /\ words[taken_at[r]] = r
    BY <1>3, <2>2, <2>3
  <2> QED BY <1>5, <2>4
<1> QED BY <1>7 DEF restored

\* a function on D
IsOn(D, f) == f = [x \in D |-> f[x]]

\* Saving and restoring is the identity on the registers of a program.
LEMMA RoundTrip ==
    ASSUME NEW regs, IsOn(Names, regs), NEW h, NEW e
    PROVE  restored(as_registers(frame(regs, <<h, e>>))) = regs
<1> DEFINE s == as_registers(frame(regs, <<h, e>>))
<1>1. s = [r \in Fields |-> Word(regs, h, e, r)]
  BY SavedIs
<1> HIDE DEF s
<1>2. restored(s) = [r \in Names |-> s[r]]
  BY RestoredIs
<1>3. \A r \in Names : s[r] = regs[r]
  BY <1>1, NamesAre DEF Word
<1>4. restored(s) = regs
  BY <1>2, <1>3 DEF IsOn
<1> QED BY <1>4 DEF s

\* The result of a call reaches the program.
LEMMA ResultIs ==
    ASSUME NEW regs, IsOn(Fields, regs), NEW rax
    PROVE  /\ restored([regs EXCEPT !["rax"] = rax]) = [restored(regs) EXCEPT !["rax"] = rax]
           /\ IsOn(Fields, [regs EXCEPT !["rax"] = rax])
<1>1. "rax" \in Names /\ Names \subseteq Fields
  BY NamesAre
<1> DEFINE new == [regs EXCEPT !["rax"] = rax]
<1>2. IsOn(Fields, new) /\ \A r \in Fields : new[r] = IF r = "rax" THEN rax ELSE regs[r]
  BY <1>1 DEF IsOn
<1>3. restored(new) = [r \in Names |-> new[r]] /\ restored(regs) = [r \in Names |-> regs[r]]
  BY RestoredIs
<1> HIDE DEF new
<1>4. restored(new) = [restored(regs) EXCEPT !["rax"] = rax]
  BY <1>1, <1>2, <1>3
<1> QED BY <1>2, <1>4 DEF new

-----------------------------------------------------------------------------
(* The invariant *)

\* the vectors whose handlers push both words
Pushing == {INT_GPF, INT_PAGEFAULT, INT_TIMER} \cup INT_SYS .. (INT_SYS + 15)

\* a descriptor of procs
Descriptor(d) ==
    /\ d = [runnable |-> d.runnable, registers |-> d.registers]
    /\ d.runnable \in BOOLEAN /\ IsOn(Fields, d.registers)

\* descriptors and expectations are complete
Complete(pr, ex) ==
    /\ IsOn(Pids, pr) /\ IsOn(Pids, ex)
    /\ \A p \in Pids : Descriptor(pr[p]) /\ IsOn(Names, ex[p])

\* the descriptors of the living processes in S hold what these expect
Holds(pr, ex, S) == \A p \in S : pr[p].runnable => Agrees(restored(pr[p].registers), ex[p])

\* The frame on the kernel stack is that of the program that ran, either complete or,
\* from default_int_handler, without a word for the error code.
Entered ==
    \/ \E h \in Pushing \cup {0}, e \in {0, PFERR_USER} : entry = frame(cpu, <<h, e>>)
    \/ entry = frame(cpu, <<0>>)

\* The strengthening of RegistersKept and InterruptsOff that every step keeps.  While
\* a program runs, its registers are in the processor and those of the others in
\* their descriptors; on the way in they are in a frame on the kernel stack, which is
\* complete unless its interrupt number reads 0.
\* Once the table of gates is loaded it stays, and no line but the timer's is opened.
IndInv ==
    /\ stage \in {"segments", "interrupts", "setup", "user", "entered", "idle", "failed", "reset"}
    /\ enabled \subseteq timer_lines /\ current \in Pids
    /\ Complete(procs, expected) /\ IsOn(Names, cpu)
    /\ flag => stage \in {"user", "reset"}
    /\ stage # "segments" => idt
    /\ stage \in {"user", "entered"} =>
         /\ procs[current].runnable /\ Holds(procs, expected, Pids \ {current})
         /\ Agrees(cpu, expected[current])
    /\ stage = "entered" => Entered

\* No case of exception() handles 0, the number in the frame of default_int_handler.
LEMMA NotZero == 0 \notin Handled
  BY DEF Handled, GETPID, YIELD, PAGE_ALLOC, FORK, EXIT, MAPPING, MEM_TOG, BRK, SBRK,
         INT_TIMER, INT_HARDWARE, INT_PAGEFAULT, INT_SYS

\* The invariant gives both properties.
LEMMA InvImplies ==
    ASSUME IndInv
    PROVE  RegistersKept /\ InterruptsOff
<1>1. Lines = {0, 1, 14} /\ timer_lines \subseteq Lines
  BY DEF Lines, timer_lines, INT_TIMER, INT_HARDWARE
<1>2. TypeOK
  <2>1. cpu = [r \in Names |-> cpu[r]]
    BY DEF IndInv, IsOn
  <2>2. DOMAIN cpu = Names
    BY <2>1
  <2> QED BY <1>1, <2>2 DEF IndInv, TypeOK, Alive
<1>3. ASSUME stage = "entered", Len(entry) < 24
      PROVE  intno \notin Handled
  <2>1. ASSUME NEW h, NEW e
        PROVE  Len(frame(cpu, <<h, e>>)) = 24
    BY FrameIs
  <2>2. entry = frame(cpu, <<0>>)
    <3>1. ASSUME NEW h, NEW e, entry = frame(cpu, <<h, e>>)
          PROVE  FALSE
      <4>1. Len(entry) = 24
        BY <2>1, <3>1
      <4> QED BY <1>3, <4>1
    <3> QED BY <1>3, <3>1 DEF IndInv, Entered
  <2>3. intno = 0
    BY <2>2, ShortFrame DEF intno
  <2> QED BY <2>3, NotZero
<1>4. \A line \in enabled : gates(INT_HARDWARE + line).handler # DEFAULT
  <2>1. \A line \in enabled : INT_HARDWARE + line = INT_TIMER
    BY DEF IndInv, timer_lines, INT_TIMER, INT_HARDWARE
  <2>2. gates(INT_TIMER).handler # DEFAULT
    BY DEF gates, INT_TIMER, INT_HARDWARE, DEFAULT
  <2> QED BY <2>1, <2>2
<1> QED BY <1>2, <1>3, <1>4, Lengths DEF IndInv, RegistersKept, InterruptsOff

-----------------------------------------------------------------------------
(* The steps *)

\* Pids is what the assumption makes it.
LEMMA PidsAre ==
    NPROC \in Nat \ {0, 1} /\ 1 \in Pids /\ Pids \subseteq Nat \ {0} /\ \A p \in Pids : p < NPROC
  BY MachineAssumption DEF Pids

\* schedule() chooses one of the living.
LEMMA NextPidIs ==
    ASSUME NEW S \in SUBSET Pids, S # {}, NEW p \in Pids
    PROVE  next_pid(p, S) \in S
<1> DEFINE distance(q) == IF q > p THEN q - p ELSE q - p + NPROC
           D == {distance(q) : q \in S}
<1>1. \A q \in S : distance(q) \in Nat
  BY PidsAre
<1>2. D \in SUBSET Nat /\ D # {}
  BY <1>1
<1>3. PICK d \in D : \A e \in D : d <= e
  <2> HIDE DEF D
  <2> QED BY <1>2, LeastExists
<1>4. \E q \in S : \A r \in S : distance(q) <= distance(r)
  BY <1>3
<1>5. (CHOOSE q \in S : \A r \in S : distance(q) <= distance(r)) \in S
  <2> HIDE DEF distance
  <2> QED BY <1>4
<1> QED BY <1>5 DEF next_pid

\* the kernel is about to return with these descriptors
Leaving(pr, ex) ==
    /\ Complete(pr, ex) /\ Holds(pr, ex, Pids)
    /\ procs' = pr /\ expected' = ex /\ enabled' \subseteq timer_lines /\ idt'

\* run() puts the registers of the process it chooses back.
LEMMA RunInv ==
    ASSUME NEW pr, NEW ex, Leaving(pr, ex), NEW q \in Pids, pr[q].runnable,
           run(q, pr[q].registers)
    PROVE  IndInv'
<1>1. /\ stage' = "user" /\ current' = q /\ cpu' = restored(pr[q].registers)
      /\ procs' = pr /\ expected' = ex
  BY DEF run, Leaving
<1>2. Agrees(cpu', ex[q]) /\ IsOn(Names, cpu')
  BY <1>1 DEF Leaving, Holds, Complete, restored, IsOn
<1>3. Complete(procs', expected') /\ Holds(procs', expected', Pids \ {current'})
  BY <1>1 DEF Leaving, Holds
<1> QED BY <1>1, <1>2, <1>3 DEF IndInv, Leaving, Complete, Holds, IsOn, Descriptor

\* The end of a handler: back to p, to the next process, or into the idle loop.
LEMMA ResumeInv ==
    ASSUME IndInv, stage = "entered", NEW pr, NEW ex, Leaving(pr, ex), NEW p \in Pids,
           resume(p, pr)
    PROVE  IndInv'
<1> DEFINE alive == {q \in Pids : pr[q].runnable}
           q == IF p \in alive THEN p ELSE next_pid(p, alive)
<1>1. CASE alive = {}
  <2>1. stage' = "idle" /\ cpu' = cpu /\ flag' = flag /\ current' = current
    BY <1>1 DEF resume
  <2>2. ~flag' /\ procs' = pr /\ expected' = ex
    BY <2>1 DEF IndInv, Leaving
  <2>3. Complete(procs', expected')
    BY <2>2 DEF Leaving
  <2> QED BY <2>1, <2>2, <2>3 DEF IndInv, Leaving, Complete, IsOn, Descriptor
<1>2. CASE alive # {}
  <2>1. q \in alive
    <3>1. alive \in SUBSET Pids
      OBVIOUS
    <3> HIDE DEF alive
    <3> QED BY <1>2, <3>1, NextPidIs
  <2>2. run(q, pr[q].registers)
    BY <1>2 DEF resume
  <2>3. q \in Pids /\ pr[q].runnable
    BY <2>1
  <2> HIDE DEF q
  <2> QED BY <2>2, <2>3, RunInv
<1> QED BY <1>1, <1>2

\* Whatever the frame, exception() leaves complete descriptors behind.
LEMMA SavedComplete ==
    ASSUME IndInv, stage = "entered"
    PROVE  /\ Complete(Saved, expected) /\ IsOn(Fields, saved)
           /\ Saved[current].registers = saved
           /\ \A p \in Pids : Saved[p].runnable = procs[p].runnable
           /\ \A p \in Pids \ {current} : Saved[p] = procs[p]
<1>3. current \in Pids /\ Complete(procs, expected)
  BY DEF IndInv
<1>6. IsOn(Fields, saved)
  BY DEF saved, as_registers, IsOn
<1>7. /\ IsOn(Pids, Saved) /\ Saved[current] = [procs[current] EXCEPT !.registers = saved]
      /\ \A p \in Pids \ {current} : Saved[p] = procs[p]
  BY <1>3 DEF Saved, Complete, IsOn
<1>8. /\ Descriptor(Saved[current]) /\ Saved[current].registers = saved
      /\ Saved[current].runnable = procs[current].runnable
  <2>1. Descriptor(procs[current])
    BY <1>3 DEF Complete
  <2>2. Saved[current] = [runnable |-> procs[current].runnable, registers |-> saved]
    BY <1>7, <2>1 DEF Descriptor
  <2> QED BY <1>6, <2>1, <2>2 DEF Descriptor
<1>9. \A p \in Pids : Descriptor(Saved[p]) /\ Saved[p].runnable = procs[p].runnable
  BY <1>3, <1>7, <1>8 DEF Complete
<1>10. Complete(Saved, expected)
  BY <1>3, <1>7, <1>9 DEF Complete
<1> QED BY <1>6, <1>7, <1>8, <1>9, <1>10

\* A frame with an interrupt number holds what the program left, and so does its
\* descriptor once exception() has copied the frame.
LEMMA SavedHolds ==
    ASSUME IndInv, stage = "entered", intno # 0
    PROVE  Holds(Saved, expected, Pids) /\ Agrees(restored(saved), expected[current])
<1>1. PICK h \in Pushing \cup {0}, e \in {0, PFERR_USER} : entry = frame(cpu, <<h, e>>)
  BY ShortFrame DEF IndInv, Entered, intno
<1>2. IsOn(Names, cpu) /\ Agrees(cpu, expected[current]) /\ Holds(procs, expected, Pids \ {current})
  BY DEF IndInv
<1>3. restored(saved) = cpu
  BY <1>1, <1>2, RoundTrip DEF saved
<1>4. Saved[current].registers = saved /\ \A p \in Pids \ {current} : Saved[p] = procs[p]
  BY SavedComplete
<1> QED BY <1>2, <1>3, <1>4 DEF Holds

\* The same result on both sides keeps them in agreement.
LEMMA AgreeingResult ==
    ASSUME NEW regs, IsOn(Fields, regs), NEW exp, IsOn(Names, exp), NEW rax,
           Agrees(restored(regs), exp)
    PROVE  Agrees(restored([regs EXCEPT !["rax"] = rax]), [exp EXCEPT !["rax"] = rax])
<1> DEFINE old == restored(regs)
           new == [exp EXCEPT !["rax"] = rax]
<1>1. restored([regs EXCEPT !["rax"] = rax]) = [old EXCEPT !["rax"] = rax]
  BY ResultIs
<1>2. IsOn(Names, old)
  BY DEF restored, IsOn
<1> HIDE DEF old
<1>3. \A r \in Names : /\ [old EXCEPT !["rax"] = rax][r] = IF r = "rax" THEN rax ELSE old[r]
                       /\ new[r] = IF r = "rax" THEN rax ELSE exp[r]
  BY <1>2 DEF IsOn
<1>4. \A r \in Names : exp[r] # RESULT => old[r] = exp[r]
  BY DEF Agrees, old
<1> QED BY <1>1, <1>3, <1>4 DEF Agrees

\* A result in rax is expected and found.
LEMMA ResultHolds ==
    ASSUME NEW pr, NEW ex, Complete(pr, ex), Holds(pr, ex, Pids), NEW p \in Pids, NEW rax
    PROVE  /\ Complete([pr EXCEPT ![p].registers["rax"] = rax], [ex EXCEPT ![p]["rax"] = rax])
           /\ Holds([pr EXCEPT ![p].registers["rax"] = rax], [ex EXCEPT ![p]["rax"] = rax], Pids)
<1> DEFINE new == [pr EXCEPT ![p].registers["rax"] = rax]
           exp == [ex EXCEPT ![p]["rax"] = rax]
           regs == [pr[p].registers EXCEPT !["rax"] = rax]
<1>1. Descriptor(pr[p]) /\ IsOn(Pids, pr) /\ IsOn(Pids, ex) /\ IsOn(Names, ex[p])
  BY DEF Complete
<1>2. IsOn(Fields, regs) /\ restored(regs) = [restored(pr[p].registers) EXCEPT !["rax"] = rax]
  BY <1>1, ResultIs DEF Descriptor
<1>3. /\ IsOn(Pids, new) /\ new[p] = [pr[p] EXCEPT !.registers = regs]
      /\ \A q \in Pids \ {p} : new[q] = pr[q]
  BY <1>1 DEF IsOn
<1>4. /\ IsOn(Pids, exp) /\ exp[p] = [ex[p] EXCEPT !["rax"] = rax]
      /\ \A q \in Pids \ {p} : exp[q] = ex[q]
  BY <1>1 DEF IsOn
<1> HIDE DEF new, exp, regs
<1>5. new[p] = [runnable |-> pr[p].runnable, registers |-> regs]
  BY <1>1, <1>3 DEF Descriptor
<1>6. Descriptor(new[p]) /\ new[p].registers = regs /\ new[p].runnable = pr[p].runnable
  BY <1>1, <1>2, <1>5 DEF Descriptor
<1>7. IsOn(Names, exp[p])
  BY <1>1, <1>4 DEF IsOn
<1>8. Complete(new, exp)
  BY <1>3, <1>4, <1>6, <1>7 DEF Complete
<1>9. ASSUME pr[p].runnable
      PROVE  Agrees(restored(regs), exp[p])
  BY <1>1, <1>4, <1>9, AgreeingResult DEF Holds, Descriptor, regs
<1>10. Holds(new, exp, Pids)
  BY <1>3, <1>4, <1>6, <1>9 DEF Holds
<1> QED BY <1>8, <1>10 DEF new, exp

\* What every handler leaves alone.
LEMMA EnterIs ==
    ASSUME IndInv, NEW v, v # 0, Enter(v)
    PROVE  /\ stage = "entered" /\ enabled' \subseteq timer_lines /\ idt' /\ current \in Pids
           /\ Complete(Saved, expected) /\ Holds(Saved, expected, Pids)
<1>1. stage = "entered" /\ intno # 0
  BY DEF Enter
<1> QED BY <1>1, SavedComplete, SavedHolds DEF IndInv, Enter

\* Calls with a result.
LEMMA ReturnInv ==
    ASSUME IndInv, NEW v, NEW results, v # 0, Return(v, results)
    PROVE  IndInv'
<1>1. PICK rax \in results :
        /\ procs' = [Saved EXCEPT ![current].registers["rax"] = rax]
        /\ expected' = [expected EXCEPT ![current]["rax"] = rax]
        /\ resume(current, [Saved EXCEPT ![current].registers["rax"] = rax])
  BY DEF Return
<1>2. stage = "entered" /\ enabled' \subseteq timer_lines /\ idt' /\ current \in Pids
      /\ Complete(Saved, expected) /\ Holds(Saved, expected, Pids)
  BY EnterIs DEF Return
<1> DEFINE pr == [Saved EXCEPT ![current].registers["rax"] = rax]
           ex == [expected EXCEPT ![current]["rax"] = rax]
<1>3. Complete(pr, ex) /\ Holds(pr, ex, Pids)
  BY <1>2, ResultHolds
<1> HIDE DEF pr, ex
<1>4. procs' = pr /\ expected' = ex /\ resume(current, pr)
  BY <1>1 DEF pr, ex
<1>5. Leaving(pr, ex)
  BY <1>2, <1>3, <1>4 DEF Leaving
<1> QED BY <1>2, <1>4, <1>5, ResumeInv

\* Calls without one.
LEMMA NothingInv ==
    ASSUME IndInv, NEW v, v # 0, Nothing(v)
    PROVE  IndInv'
<1>1. stage = "entered" /\ enabled' \subseteq timer_lines /\ idt' /\ current \in Pids
  BY EnterIs DEF Nothing
<1>2. Leaving(Saved, expected)
  BY <1>1, EnterIs DEF Leaving, Nothing
<1>3. resume(current, Saved)
  BY DEF Nothing
<1> QED BY <1>1, <1>2, <1>3, ResumeInv

\* page_alloc: everything but the result is found.
LEMMA PageAllocInv ==
    ASSUME IndInv, PageAlloc
    PROVE  IndInv'
<1> DEFINE ex == [expected EXCEPT ![current]["rax"] = RESULT]
<1>0. PAGE_ALLOC # 0
  BY DEF PAGE_ALLOC, INT_SYS
<1>1. stage = "entered" /\ enabled' \subseteq timer_lines /\ idt' /\ current \in Pids
  BY <1>0, EnterIs DEF PageAlloc
<1>2. Complete(Saved, expected) /\ Holds(Saved, expected, Pids)
  BY <1>0, EnterIs DEF PageAlloc
<1>3. IsOn(Pids, expected) /\ IsOn(Names, expected[current])
  BY <1>1, <1>2 DEF Complete
<1>4. /\ IsOn(Pids, ex) /\ \A p \in Pids \ {current} : ex[p] = expected[p]
      /\ ex[current] = [expected[current] EXCEPT !["rax"] = RESULT]
  BY <1>1, <1>3 DEF IsOn
<1>5. procs' = Saved /\ expected' = ex /\ resume(current, Saved)
  BY DEF PageAlloc
<1> HIDE DEF ex
<1>6. /\ IsOn(Names, ex[current])
      /\ \A r \in Names : ex[current][r] = IF r = "rax" THEN RESULT ELSE expected[current][r]
  BY <1>3, <1>4 DEF IsOn
<1>7. Complete(Saved, ex)
  BY <1>2, <1>4, <1>6 DEF Complete
<1>8. Holds(Saved, ex, Pids)
  <2> SUFFICES ASSUME NEW p \in Pids, Saved[p].runnable
               PROVE  Agrees(restored(Saved[p].registers), ex[p])
    BY DEF Holds
  <2>1. Agrees(restored(Saved[p].registers), expected[p])
    BY <1>2 DEF Holds
  <2>2. \A r \in Names : ex[p][r] # RESULT => ex[p][r] = expected[p][r]
    BY <1>4, <1>6
  <2> QED BY <2>1, <2>2 DEF Agrees
<1>9. Leaving(Saved, ex)
  BY <1>1, <1>5, <1>7, <1>8 DEF Leaving
<1> QED BY <1>1, <1>5, <1>9, ResumeInv

\* yield and the timer: the process that goes on finds its own registers.
LEMMA ScheduleInv ==
    ASSUME IndInv, NEW v, v # 0, Schedule(v)
    PROVE  IndInv'
<1> DEFINE p == next_pid(current, Alive)
<1>1. stage = "entered" /\ enabled' \subseteq timer_lines /\ idt' /\ current \in Pids
  BY EnterIs DEF Schedule
<1>2. Leaving(Saved, expected)
  BY <1>1, EnterIs DEF Leaving, Schedule
<1>3. Alive \in SUBSET Pids /\ current \in Alive
  BY <1>1 DEF Alive, IndInv
<1>4. p \in Alive
  BY <1>1, <1>3, NextPidIs
<1>5. p \in Pids /\ Saved[p].runnable
  <2>1. p \in Pids /\ procs[p].runnable
    BY <1>4 DEF Alive
  <2> QED BY <1>1, <2>1, SavedComplete
<1>6. run(p, Saved[p].registers)
  BY DEF Schedule
<1> HIDE DEF p
<1> QED BY <1>2, <1>5, <1>6, RunInv

\* exit and a fault that kills: nobody else is touched.
LEMMA EndInv ==
    ASSUME IndInv, NEW v, v # 0, End(v)
    PROVE  IndInv'
<1> DEFINE pr == [Saved EXCEPT ![current].runnable = FALSE]
<1>1. stage = "entered" /\ enabled' \subseteq timer_lines /\ idt' /\ current \in Pids
  BY EnterIs DEF End
<1>2. Complete(Saved, expected) /\ Holds(Saved, expected, Pids)
  BY EnterIs DEF End
<1>3. IsOn(Pids, Saved) /\ Descriptor(Saved[current])
  BY <1>1, <1>2 DEF Complete
<1>4. /\ IsOn(Pids, pr) /\ pr[current] = [Saved[current] EXCEPT !.runnable = FALSE]
      /\ \A p \in Pids \ {current} : pr[p] = Saved[p]
  BY <1>1, <1>3 DEF IsOn
<1>5. procs' = pr /\ expected' = expected /\ resume(current, pr)
  BY DEF End
<1> HIDE DEF pr
<1>6. pr[current] = [runnable |-> FALSE, registers |-> Saved[current].registers]
  BY <1>3, <1>4 DEF Descriptor
<1>7. Descriptor(pr[current]) /\ ~pr[current].runnable
  BY <1>3, <1>6 DEF Descriptor
<1>8. Complete(pr, expected) /\ Holds(pr, expected, Pids)
  BY <1>2, <1>4, <1>7 DEF Complete, Holds
<1>9. Leaving(pr, expected)
  BY <1>1, <1>5, <1>8 DEF Leaving
<1> QED BY <1>1, <1>5, <1>9, ResumeInv

\* kernel_panic: no program goes on, whatever the frame holds.
LEMMA PanicInv ==
    ASSUME IndInv, Panic
    PROVE  IndInv'
<1>1. /\ stage = "entered" /\ stage' = "failed" /\ procs' = Saved
      /\ UNCHANGED <<idt, enabled, cpu, flag, entry, current, expected>>
  BY DEF Panic
<1>2. Complete(procs', expected')
  BY <1>1, SavedComplete
<1> QED BY <1>1, <1>2 DEF IndInv, Complete, IsOn, Descriptor

\* fork: the parent finds the pid of the child in rax, the child 0, and everything
\* else is the parent's.
LEMMA ForkInv ==
    ASSUME IndInv, Fork
    PROVE  IndInv'
<1>0. FORK # 0
  BY DEF FORK, INT_SYS
<1>1. /\ stage = "entered" /\ enabled' \subseteq timer_lines /\ idt' /\ current \in Pids
      /\ Complete(Saved, expected) /\ Holds(Saved, expected, Pids)
  BY <1>0, EnterIs DEF Fork
<1>2. PICK child \in (Pids \ Alive) \cup {-1} :
        LET parent == [Saved EXCEPT ![current].registers["rax"] = child]
            processes ==
              IF child = -1 THEN parent
              ELSE [parent EXCEPT ![child].runnable = TRUE,
                                  ![child].registers = child_registers(saved)]
        IN  /\ procs' = processes
            /\ expected' = [p \in Pids |->
                 IF p = current THEN [expected[p] EXCEPT !["rax"] = child]
                 ELSE IF p = child THEN [expected[current] EXCEPT !["rax"] = 0] ELSE expected[p]]
            /\ resume(current, processes)
  BY DEF Fork
<1> DEFINE parent == [Saved EXCEPT ![current].registers["rax"] = child]
           ex == [expected EXCEPT ![current]["rax"] = child]
           pr == [parent EXCEPT ![child].runnable = TRUE,
                                ![child].registers = child_registers(saved)]
           zero == [expected[current] EXCEPT !["rax"] = 0]
<1>3. child # current /\ current # -1
  BY <1>1, PidsAre DEF Alive, IndInv
<1>4. Complete(parent, ex) /\ Holds(parent, ex, Pids)
  BY <1>1, ResultHolds
<1>5. IsOn(Pids, expected) /\ ex[current] = [expected[current] EXCEPT !["rax"] = child]
      /\ \A p \in Pids \ {current} : ex[p] = expected[p]
  BY <1>1 DEF IndInv, Complete, IsOn
<1>6. CASE child = -1
  <2>1. procs' = parent /\ resume(current, parent)
    BY <1>2, <1>6
  <2>2. expected' = [p \in Pids |-> ex[p]]
    <3>1. \A p \in Pids : p # child
      BY <1>6, PidsAre
    <3> QED BY <1>2, <1>5, <3>1
  <2>3. IsOn(Pids, ex)
    BY <1>4 DEF Complete
  <2>4. expected' = ex
    BY <2>2, <2>3 DEF IsOn
  <2> HIDE DEF parent, ex
  <2>5. Leaving(parent, ex)
    BY <1>1, <1>4, <2>1, <2>4 DEF Leaving
  <2> QED BY <1>1, <2>1, <2>5, ResumeInv
<1>7. CASE child \in Pids
  <2>1. child # -1
    BY <1>7, PidsAre
  <2>2. procs' = pr /\ resume(current, pr)
    BY <1>2, <2>1
  <2> HIDE DEF parent, ex
  <2>3. IsOn(Pids, parent) /\ Descriptor(parent[child])
    BY <1>4, <1>7 DEF Complete
  <2>4. /\ IsOn(Pids, pr) /\ \A p \in Pids \ {child} : pr[p] = parent[p]
        /\ pr[child] = [parent[child] EXCEPT !.runnable = TRUE, !.registers = child_registers(saved)]
    BY <1>7, <2>3 DEF IsOn
  <2> HIDE DEF pr
  <2>5. pr[child] = [runnable |-> TRUE, registers |-> child_registers(saved)]
    BY <2>3, <2>4 DEF Descriptor
  <2>6. IsOn(Fields, saved) /\ IsOn(Names, expected[current]) /\ Agrees(restored(saved), expected[current])
    BY <1>0, <1>1, SavedComplete, SavedHolds DEF Fork, Enter, Complete
  <2>7. IsOn(Fields, child_registers(saved)) /\ Agrees(restored(child_registers(saved)), zero)
    BY <2>6, ResultIs, AgreeingResult DEF child_registers
  <2>8. Descriptor(pr[child]) /\ pr[child].registers = child_registers(saved)
    BY <2>5, <2>7 DEF Descriptor
  <2>9. /\ IsOn(Pids, expected') /\ expected'[child] = zero
        /\ \A p \in Pids \ {child} : expected'[p] = ex[p]
    BY <1>2, <1>3, <1>5, <1>7 DEF IsOn
  <2>10. IsOn(Names, zero)
    <3>1. IsOn(Names, expected[current])
      BY <1>1 DEF IndInv, Complete
    <3> QED BY <3>1 DEF IsOn
  <2> HIDE DEF zero
  <2>11. Complete(pr, expected')
    BY <1>4, <2>4, <2>8, <2>9, <2>10 DEF Complete
  <2>12. Holds(pr, expected', Pids)
    BY <1>4, <2>4, <2>7, <2>8, <2>9 DEF Holds
  <2>13. Leaving(pr, expected')
    BY <1>1, <2>2, <2>11, <2>12 DEF Leaving
  <2> QED BY <1>1, <2>2, <2>13, ResumeInv
<1> QED BY <1>6, <1>7

\* What a handler pushes is both words, or a single 0.
LEMMA WordsAre ==
    ASSUME NEW v, NEW err
    PROVE  \/ \E h \in Pushing \cup {0} : handler_words(v, err) = <<h, err>>
           \/ handler_words(v, err) = <<0>>
<1>1. gates(v).handler = IF v \in Pushing THEN v ELSE DEFAULT
  BY DEF gates, Pushing
<1>2. CASE gates(v).handler # DEFAULT
  BY <1>1, <1>2 DEF handler_words
<1>3. CASE gates(v).handler = DEFAULT
  BY <1>3 DEF handler_words
<1> QED BY <1>2, <1>3

\* An exception in a program: the machine resets, or the registers are in a frame.
LEMMA TakeInv ==
    ASSUME IndInv, stage = "user", NEW vector, NEW err \in {0, PFERR_USER}, Take(vector, err)
    PROVE  IndInv'
<1> DEFINE taken == IF gates(vector).present THEN vector ELSE INT_GPF
           words == handler_words(taken, err)
<1>1. CASE stage' = "reset" /\ UNCHANGED <<idt, enabled, cpu, flag, entry, current, procs, expected>>
  BY <1>1 DEF IndInv, Complete, IsOn, Descriptor
<1>2. CASE /\ entry' = frame(cpu, words) /\ flag' = (flag /\ gates(taken).type = "trap")
           /\ stage' = "entered" /\ UNCHANGED <<idt, enabled, cpu, current, procs, expected>>
  <2>1. gates(taken).type # "trap"
    BY DEF gates, gate_type
  <2>2. (\E h \in Pushing \cup {0} : words = <<h, err>>) \/ words = <<0>>
    BY WordsAre
  <2> HIDE DEF words, taken
  <2>3. Entered'
    BY <1>2, <2>2 DEF Entered
  <2>4. /\ ~flag' /\ Holds(procs', expected', Pids \ {current'}) /\ procs'[current'].runnable
        /\ Agrees(cpu', expected'[current'])
    BY <1>2, <2>1 DEF IndInv
  <2> QED BY <1>2, <2>3, <2>4 DEF IndInv, Complete, IsOn, Descriptor
<1> QED BY <1>1, <1>2 DEF Take

\* Interrupts find a program running.
LEMMA InterruptInv ==
    ASSUME IndInv, NEW line \in Lines, Interrupt(line)
    PROVE  IndInv'
<1>1. stage = "user" /\ Take(INT_HARDWARE + line, 0)
  BY DEF IndInv, Interrupt
<1> QED BY <1>1, TakeInv

\* A program uses int, with or without the privilege.
LEMMA SystemCallInv ==
    ASSUME IndInv, NEW v \in Calls, SystemCall(v)
    PROVE  IndInv'
  BY TakeInv DEF SystemCall

\* A program causes any of the exceptions.
LEMMA UserFaultInv ==
    ASSUME IndInv, NEW v \in exceptions, UserFault(v)
    PROVE  IndInv'
  BY TakeInv DEF UserFault

\* The first and every later boot leaves a complete, empty state.
LEMMA BootState ==
    /\ Complete([p \in Pids |-> NoProc], [p \in Pids |-> Kernel])
    /\ IsOn(Names, Kernel) /\ 1 \in Pids
<1>1. IsOn(Names, Kernel)
  BY DEF Kernel, Filled, IsOn
<1>2. Descriptor(NoProc)
  BY DEF Descriptor, NoProc, process_init, IsOn
<1> QED BY <1>1, <1>2, PidsAre DEF Complete, IsOn

\* Boot and soft reboot up to the first program, and a program that computes.
LEMMA BootInv ==
    ASSUME IndInv,
           \/ SegmentsInit \/ InterruptInit \/ SoftReboot
           \/ \E n \in {1, 2}, stamp \in Stamps : Setup(n, stamp)
           \/ \E stamp \in Stamps : Compute(stamp)
    PROVE  IndInv'
<1>1. CASE SegmentsInit
  <2>1. /\ stage = "segments" /\ stage' = "interrupts" /\ idt'
        /\ UNCHANGED <<enabled, cpu, flag, entry, current, procs, expected>>
    BY <1>1 DEF SegmentsInit
  <2> QED BY <2>1 DEF IndInv, Complete, IsOn, Descriptor
<1>2. CASE InterruptInit
  <2>1. /\ stage = "interrupts" /\ stage' = "setup" /\ enabled' = timer_lines
        /\ UNCHANGED <<idt, cpu, flag, entry, current, procs, expected>>
    BY <1>2 DEF InterruptInit
  <2> QED BY <2>1 DEF IndInv, Complete, IsOn, Descriptor
<1>3. CASE SoftReboot
  <2>1. /\ ~flag' /\ stage' = "segments" /\ cpu' = Kernel /\ current' = 1
        /\ procs' = [p \in Pids |-> NoProc] /\ expected' = [p \in Pids |-> Kernel]
        /\ enabled' = enabled
    BY <1>3 DEF SoftReboot
  <2>2. Complete(procs', expected') /\ IsOn(Names, cpu') /\ current' \in Pids
    BY <2>1, BootState
  <2> QED BY <2>1, <2>2 DEF IndInv, Complete, IsOn, Descriptor
<1>4. ASSUME NEW n \in {1, 2}, NEW stamp \in Stamps, Setup(n, stamp)
      PROVE  IndInv'
  <2> DEFINE d == [runnable |-> TRUE, registers |-> process_init(stamp)]
             pr == [p \in Pids |-> IF p <= n THEN d ELSE NoProc]
             ex == [p \in Pids |-> restored(process_init(stamp))]
  <2>1. /\ procs' = pr /\ expected' = ex /\ run(1, process_init(stamp))
        /\ stage = "setup" /\ UNCHANGED <<idt, enabled>>
    BY <1>4 DEF Setup
  <2>2. Descriptor(d) /\ d.registers = process_init(stamp)
    BY DEF Descriptor, process_init, IsOn
  <2>3. Descriptor(NoProc) /\ ~NoProc.runnable
    BY DEF Descriptor, NoProc, process_init, IsOn
  <2>4. IsOn(Names, restored(process_init(stamp)))
    BY DEF restored, IsOn
  <2>5. pr[1] = d /\ d.runnable
    BY PidsAre
  <2>6. Complete(pr, ex)
    <3> HIDE DEF d
    <3> QED BY <2>2, <2>3, <2>4 DEF Complete, IsOn
  <2>7. Holds(pr, ex, Pids)
    <3> HIDE DEF d
    <3> QED BY <2>2, <2>3 DEF Holds, Agrees
  <2> HIDE DEF d, pr, ex
  <2>8. Leaving(pr, ex)
    BY <2>1, <2>6, <2>7 DEF Leaving, IndInv
  <2>9. run(1, pr[1].registers)
    BY <2>1, <2>2, <2>5
  <2> QED BY <2>5, <2>8, <2>9, RunInv, PidsAre
<1>5. ASSUME NEW stamp \in Stamps, Compute(stamp)
      PROVE  IndInv'
  <2>1. /\ stage = "user" /\ cpu' = Filled(stamp)
        /\ expected' = [expected EXCEPT ![current] = Filled(stamp)]
        /\ UNCHANGED <<stage, idt, enabled, flag, entry, current, procs>>
    BY <1>5 DEF Compute
  <2>2. IsOn(Names, Filled(stamp))
    BY DEF Filled, IsOn
  <2>3. current \in Pids /\ Complete(procs, expected) /\ Holds(procs, expected, Pids \ {current})
    BY <2>1 DEF IndInv
  <2>4. /\ IsOn(Pids, expected') /\ expected'[current] = Filled(stamp)
        /\ \A p \in Pids \ {current} : expected'[p] = expected[p]
    BY <2>1, <2>3 DEF Complete, IsOn
  <2>5. Complete(procs', expected')
    BY <2>1, <2>2, <2>3, <2>4 DEF Complete
  <2>6. Holds(procs', expected', Pids \ {current'})
    BY <2>1, <2>3, <2>4 DEF Holds
  <2>7. Agrees(cpu', expected'[current'])
    BY <2>1, <2>4 DEF Agrees
  <2>8. /\ procs'[current'].runnable /\ IsOn(Names, cpu') /\ current' \in Pids /\ idt'
        /\ enabled' \subseteq timer_lines /\ stage' = "user"
    BY <2>1, <2>2 DEF IndInv
  <2> QED BY <2>5, <2>6, <2>7, <2>8 DEF IndInv
<1> QED BY <1>1, <1>2, <1>3, <1>4, <1>5

\* Every step keeps the invariant.
LEMMA StepInv ==
    ASSUME IndInv, Next
    PROVE  IndInv'
<1>1. CASE SegmentsInit \/ InterruptInit \/ SoftReboot
  BY <1>1, BootInv
<1>2. CASE \E n \in {1, 2}, stamp \in Stamps : Setup(n, stamp)
  BY <1>2, BootInv
<1>3. CASE \E stamp \in Stamps : Compute(stamp)
  BY <1>3, BootInv
<1>4. CASE \E line \in Lines : Interrupt(line)
  BY <1>4, InterruptInv
<1>5. CASE \E v \in Calls : SystemCall(v)
  BY <1>5, SystemCallInv
<1>6. CASE \E v \in exceptions : UserFault(v)
  BY <1>6, UserFaultInv
<1>7. CASE Handle
  <2>0. 0 \notin {GETPID, BRK, SBRK, MAPPING, MEM_TOG, INT_PAGEFAULT, EXIT, YIELD, INT_TIMER}
    BY NotZero DEF Handled
  <2>1. CASE \E v \in {GETPID} : Return(v, {current})
    BY <2>1, <2>0, ReturnInv
  <2>2. CASE \E v \in {BRK, SBRK} : Return(v, {0, -1})
    BY <2>2, <2>0, ReturnInv
  <2>3. CASE \E v \in {MAPPING, MEM_TOG, INT_PAGEFAULT} : Nothing(v)
    BY <2>3, <2>0, NothingInv
  <2>4. CASE Fork
    BY <2>4, ForkInv
  <2>5. CASE \E v \in {EXIT, INT_PAGEFAULT} : End(v)
    BY <2>5, <2>0, EndInv
  <2>6. CASE \E v \in {YIELD, INT_TIMER} : Schedule(v)
    BY <2>6, <2>0, ScheduleInv
  <2>7. CASE Panic
    BY <2>7, PanicInv
  <2>8. CASE PageAlloc
    BY <2>8, PageAllocInv
  <2> QED BY <1>7, <2>1, <2>2, <2>3, <2>4, <2>5, <2>6, <2>7, <2>8 DEF Handle
<1> QED BY <1>1, <1>2, <1>3, <1>4, <1>5, <1>6, <1>7 DEF Next

\* The invariant holds from the first instruction of the kernel on.
THEOREM Inductive == Spec => []IndInv
<1>1. Init => IndInv
  <2> SUFFICES ASSUME Init
               PROVE  IndInv
    OBVIOUS
  <2>1. Complete(procs, expected) /\ IsOn(Names, cpu) /\ current \in Pids
    BY BootState DEF Init
  <2> QED BY <2>1 DEF Init, IndInv
<1>2. IndInv /\ [Next]_vars => IndInv'
  <2> SUFFICES ASSUME IndInv, [Next]_vars
               PROVE  IndInv'
    OBVIOUS
  <2>1. CASE Next
    BY <2>1, StepInv
  <2>2. CASE UNCHANGED vars
    BY <2>2 DEF vars, IndInv, Entered, Complete, Holds, IsOn, Descriptor
  <2> QED BY <2>1, <2>2
<1> QED BY <1>1, <1>2, PTL DEF Spec

\* Every program finds in its registers what it left there, across any number of
\* interrupts, calls, faults and switches between any number of processes; only a
\* call's result in rax and the child of a fork are different, as they should be.  Of
\* rax after page_alloc nothing is said.
THEOREM RegistersSurvive == Spec => []RegistersKept
<1>1. IndInv => RegistersKept
  BY InvImplies
<1> QED BY <1>1, Inductive, PTL

\* The kernel runs with interrupts off from boot through every soft reboot, no program
\* runs before the gates are loaded, every open line has a handler of its own, and a
\* frame one word short, from an exception above 15, always ends in kernel_panic.
THEOREM KernelUninterrupted == Spec => []InterruptsOff
<1>1. IndInv => InterruptsOff
  BY InvImplies
<1> QED BY <1>1, Inductive, PTL

=============================================================================
