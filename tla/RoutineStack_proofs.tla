------------------------ MODULE RoutineStack_proofs ------------------------
(***************************************************************************)
(* Proofs about the stack pointer's way through a snapshot, for bytes of   *)
(* any size and the RAM wherever it starts: TLC has a byte of 16 values,   *)
(* the ZX Spectrum one of 256.                                             *)
(***************************************************************************)
EXTENDS RoutineStack, TLAPS

-----------------------------------------------------------------------------
(* Words and their two bytes. *)

LEMMA Mod ==
  /\ ByteMod \in Nat /\ ByteMod > 6
  /\ WordMod \in Nat /\ WordMod > 6
  /\ RamBase \in Nat /\ RamBase >= 2
<1> QED
  BY ByteModAssumption, RamBaseAssumption DEF WordMod

LEMMA WordIs ==
  ASSUME NEW w
  PROVE  w \in Word <=> w \in Nat /\ w < WordMod
<1> QED
  BY Mod DEF Word

(* A word of the bytes h and l. *)
LEMMA TwoBytes ==
  ASSUME NEW h \in Nat, NEW l \in Nat, h < ByteMod, l < ByteMod
  PROVE  /\ h * ByteMod + l \in Nat /\ h * ByteMod + l < WordMod
         /\ (h * ByteMod + l) \div ByteMod = h
         /\ (h * ByteMod + l) % ByteMod = l
<1>1. ByteMod \in Nat /\ ByteMod > 0
  BY Mod
<1>2. h * ByteMod + l \in Nat
  BY <1>1
<1>3. h * ByteMod + l < ByteMod * ByteMod
  BY <1>1
<1>4. (h * ByteMod + l) \div ByteMod = h
  BY <1>1
<1>5. (h * ByteMod + l) % ByteMod = l
  BY <1>1
<1> QED
  BY <1>2, <1>3, <1>4, <1>5 DEF WordMod

LEMMA WordHasTwo ==
  ASSUME NEW w \in Word
  PROVE  \E h, l \in Nat : h < ByteMod /\ l < ByteMod /\ w = h * ByteMod + l
<1> DEFINE h == w \div ByteMod
<1>1. ByteMod \in Nat /\ ByteMod > 0 /\ w \in Nat /\ w < ByteMod * ByteMod
  BY Mod, WordIs DEF WordMod
<1>2. h \in Nat
  BY <1>1
<1>3. ByteMod * h <= w /\ w < ByteMod * h + ByteMod
  BY <1>1
<1> HIDE DEF h
<1>4. h < ByteMod
  BY <1>1, <1>2, <1>3
<1>5. w - ByteMod * h \in Nat /\ w - ByteMod * h < ByteMod
  BY <1>1, <1>2, <1>3
<1>6. w = h * ByteMod + (w - ByteMod * h)
  BY <1>1, <1>2
<1> QED
  BY <1>2, <1>4, <1>5, <1>6

LEMMA ReverseTwo ==
  ASSUME NEW h \in Nat, NEW l \in Nat, h < ByteMod, l < ByteMod
  PROVE  /\ reverse_16(h * ByteMod + l) = l * ByteMod + h
         /\ reverse_16(h * ByteMod + l) \in Word
<1>1. reverse_16(h * ByteMod + l) = l * ByteMod + h
  BY TwoBytes DEF reverse_16
<1>2. l * ByteMod + h \in Word
  BY TwoBytes, WordIs
<1> QED
  BY <1>1, <1>2

LEMMA ReverseIsWord ==
  ASSUME NEW w \in Word
  PROVE  reverse_16(w) \in Word /\ reverse_16(reverse_16(w)) = w
<1>1. PICK h \in Nat, l \in Nat : h < ByteMod /\ l < ByteMod /\ w = h * ByteMod + l
  BY WordHasTwo
<1>2. reverse_16(w) = l * ByteMod + h /\ reverse_16(w) \in Word
  BY <1>1, ReverseTwo
<1>3. reverse_16(l * ByteMod + h) = h * ByteMod + l
  BY <1>1, ReverseTwo
<1> QED
  BY <1>1, <1>2, <1>3

(* Less takes n from the low byte, which is on top, if it has n. *)
LEMMA LessReversed ==
  ASSUME NEW w \in Word, NEW n \in Nat, w % ByteMod >= n
  PROVE  /\ Less(reverse_16(w), n) = reverse_16(w - n)
         /\ w - n \in Word
         /\ (w - n) % ByteMod = (w % ByteMod) - n
<1>1. PICK h \in Nat, l \in Nat : h < ByteMod /\ l < ByteMod /\ w = h * ByteMod + l
  BY WordHasTwo
<1>2. ByteMod \in Nat /\ ByteMod > 0
  BY Mod
<1>3. w % ByteMod = l
  BY <1>1, TwoBytes
<1>4. l - n \in Nat /\ l - n < ByteMod
  BY <1>1, <1>2, <1>3
<1>5. w - n = h * ByteMod + (l - n)
  BY <1>1, <1>2
<1>6. w - n \in Word /\ (w - n) % ByteMod = l - n
  BY <1>1, <1>4, <1>5, TwoBytes, WordIs
<1>7. reverse_16(w - n) = (l - n) * ByteMod + h
  BY <1>1, <1>4, <1>5, ReverseTwo
<1>8. (l * ByteMod + h) - n * ByteMod = (l - n) * ByteMod + h
  BY <1>1, <1>2
<1>9. ((l - n) * ByteMod + h) % WordMod = (l - n) * ByteMod + h
  <2>1. (l - n) * ByteMod + h \in Nat /\ (l - n) * ByteMod + h < WordMod
    BY <1>1, <1>4, TwoBytes
  <2> DEFINE v == (l - n) * ByteMod + h
  <2> HIDE DEF v
  <2>2. v \in Nat /\ v < WordMod => v % WordMod = v
    BY Mod
  <2> QED
    BY <2>1, <2>2 DEF v
<1>10. reverse_16(w) = l * ByteMod + h
  BY <1>1, ReverseTwo
<1> QED
  BY <1>3, <1>6, <1>7, <1>8, <1>9, <1>10 DEF Less

-----------------------------------------------------------------------------
(* The invariant. *)

(* The words the LOAD routine pops, from the bottom up. *)
Full == <<"F'", "A'", "F", "A", "PCl", "PCh">>

StackIs(bytes) ==
  \A a \in Word :
    memory[a] = IF a \in Bottom .. Bottom + 5 THEN bytes[a - Bottom + 1] ELSE "program"

(* There is room for the stack between the ROM and the end of the memory. *)
Room == Bottom \in Nat /\ Bottom >= RamBase /\ Bottom + 6 <= WordMod

(* What the steps before this one have left, if the subtraction does not *)
(* borrow.                                                                *)
Progress ==
  /\ StackIs(IF step = "add" THEN Pushed[kind] ELSE Full)
  /\ step = "POP AF'" => SP = Bottom
  /\ step = "POP AF"  => SP = Bottom + 2 /\ AF_aux = "AF'"
  /\ step = "RETN"    => SP = Bottom + 4 /\ AF_aux = "AF'" /\ AF = "AF"
  /\ step = "program" => /\ SP = (Bottom + 6) % WordMod
                         /\ AF_aux = "AF'" /\ AF = "AF" /\ PC = "PC"

IInv ==
  /\ TypeOK /\ Room
  /\ kind = "save" => step # "add"
  /\ NoBorrow => Progress

(* The bytes of a stack, one by one. *)
Bytes6 == {"program", "free", "F'", "A'", "F", "A", "PCl", "PCh"}

LEMMA PushedBytes ==
  ASSUME NEW k \in {"sna", "z80", "save"}, NEW i \in {1, 2, 3, 4, 5, 6}
  PROVE  Pushed[k][i] \in Bytes6
<1>1. CASE k = "sna"
  BY <1>1 DEF Pushed, Bytes6
<1>2. CASE k = "z80"
  BY <1>2 DEF Pushed, Bytes6
<1>3. CASE k = "save"
  BY <1>3 DEF Pushed, Bytes6
<1> QED
  BY <1>1, <1>2, <1>3

LEMMA InRange ==
  ASSUME NEW a \in Int, NEW b \in Int, a \in b .. b + 5
  PROVE  a - b + 1 \in {1, 2, 3, 4, 5, 6}
<1> QED
  OBVIOUS

LEMMA InitInv == Init => IInv
<1> SUFFICES ASSUME Init PROVE IInv
  OBVIOUS
<1>1. kind \in {"sna", "z80", "save"} /\ sp0 \in Word
  BY DEF Init
<1>2. sp0 \in Nat /\ WordMod \in Nat /\ 0 \in Word
  BY <1>1, Mod, WordIs
<1>3. Bottom \in Int
  BY <1>2 DEF Bottom
<1>4. Room
  <2>1. Bottom >= RamBase /\ Bottom + 6 <= WordMod
    BY DEF Init
  <2>2. Bottom \in Nat
    BY <1>3, <2>1, Mod
  <2> QED
    BY <2>1, <2>2 DEF Room
<1>5. memory = [a \in Word |-> IF a \in Bottom .. Bottom + 5
                               THEN Pushed[kind][a - Bottom + 1] ELSE "program"]
  BY DEF Init
<1>6. ASSUME NEW a \in Word
      PROVE  (IF a \in Bottom .. Bottom + 5
              THEN Pushed[kind][a - Bottom + 1] ELSE "program") \in Bytes6
  <2>1. CASE a \in Bottom .. Bottom + 5
    <3>1. a \in Int
      BY WordIs
    <3>2. a - Bottom + 1 \in {1, 2, 3, 4, 5, 6}
      BY <1>3, <2>1, <3>1, InRange
    <3>3. Pushed[kind][a - Bottom + 1] \in Bytes6
      BY <1>1, <3>2, PushedBytes
    <3> QED
      BY <2>1, <3>3
  <2>2. CASE a \notin Bottom .. Bottom + 5
    BY <2>2 DEF Bytes6
  <2> QED
    BY <2>1, <2>2
<1>7. memory \in [Word -> Bytes6]
  BY <1>5, <1>6
<1>8. /\ step = IF kind = "save" THEN "LD SP" ELSE "add"
      /\ SP = 0 /\ AF = "none" /\ AF_aux = "none" /\ PC = "routine"
  BY DEF Init
<1>9. TypeOK
  BY <1>1, <1>2, <1>7, <1>8 DEF TypeOK, Bytes6
<1>10. StackIs(Pushed[kind])
  BY <1>5 DEF StackIs
<1>11. kind = "save" => Pushed[kind] = Full
  BY DEF Pushed, Full
<1>12. Progress
  <2>1. CASE kind = "save"
    BY <1>8, <1>10, <1>11, <2>1 DEF Progress
  <2>2. CASE kind # "save"
    BY <1>8, <1>10, <2>2 DEF Progress
  <2> QED
    BY <2>1, <2>2
<1> QED
  BY <1>4, <1>8, <1>9, <1>12 DEF IInv

(* The pointers of the firmware, where they point. *)
LEMMA Pointers ==
  ASSUME TypeOK, Room, NoBorrow
  PROVE  /\ reverse_16(stack_addition_SP) = sp0 - Size
         /\ reverse_16(routine_sp) = Bottom
<1>1. sp0 \in Word /\ kind \in {"sna", "z80", "save"} /\ sp0 % ByteMod >= Size
  BY DEF TypeOK, NoBorrow
<1>2. sp0 \in Nat /\ sp0 % ByteMod \in Nat
  BY <1>1, WordIs, Mod
<1>3. CASE kind = "z80"
  <2>1. sp0 % ByteMod >= 6
    BY <1>1, <1>3 DEF Size
  <2>2. Less(reverse_16(sp0), 6) = reverse_16(sp0 - 6) /\ sp0 - 6 \in Word
    BY <1>1, <2>1, LessReversed
  <2>3. sp0 % ByteMod >= 2
    BY <1>2, <2>1
  <2>4. /\ Less(reverse_16(sp0), 2) = reverse_16(sp0 - 2)
        /\ sp0 - 2 \in Word /\ (sp0 - 2) % ByteMod = (sp0 % ByteMod) - 2
    BY <1>1, <2>3, LessReversed
  <2>5. (sp0 - 2) % ByteMod >= 4
    BY <1>2, <2>1, <2>4
  <2>6. Less(reverse_16(sp0 - 2), 4) = reverse_16((sp0 - 2) - 4)
    BY <2>4, <2>5, LessReversed
  <2>7. (sp0 - 2) - 4 = sp0 - 6
    BY <1>2
  <2>8. reverse_16(reverse_16(sp0 - 6)) = sp0 - 6
    BY <2>2, ReverseIsWord
  <2>9. stack_addition_SP = reverse_16(sp0 - 6) /\ Size = 6 /\ Bottom = sp0 - 6
    BY <1>3, <2>2 DEF stack_addition_SP, regs_SP, Size, Bottom
  <2>10. routine_sp = Less(Less(reverse_16(sp0), 2), 4)
    BY <1>3 DEF routine_sp, regs_SP
  <2>11. routine_sp = reverse_16(sp0 - 6)
    BY <2>4, <2>6, <2>7, <2>10
  <2> QED
    BY <2>8, <2>9, <2>11
<1>4. CASE kind # "z80"
  <2>1. sp0 % ByteMod >= 4
    BY <1>1, <1>4 DEF Size
  <2>2. Less(reverse_16(sp0), 4) = reverse_16(sp0 - 4) /\ sp0 - 4 \in Word
    BY <1>1, <2>1, LessReversed
  <2>3. reverse_16(reverse_16(sp0 - 4)) = sp0 - 4
    BY <2>2, ReverseIsWord
  <2>4. /\ stack_addition_SP = reverse_16(sp0 - 4) /\ Size = 4 /\ Bottom = sp0 - 4
        /\ routine_sp = reverse_16(sp0 - 4)
    BY <1>4, <2>2 DEF stack_addition_SP, routine_sp, regs_SP, Size, Bottom
  <2> QED
    BY <2>3, <2>4
<1> QED
  BY <1>3, <1>4

(* Distances in the memory, which is a ring. *)
LEMMA Ring ==
  ASSUME NEW a \in Word, NEW b \in Word
  PROVE  /\ (a - b) % WordMod \in Nat
         /\ a >= b => (a - b) % WordMod = a - b
         /\ a < b  => (a - b) % WordMod = a - b + WordMod
<1>1. a \in Nat /\ b \in Nat /\ a < WordMod /\ b < WordMod /\ WordMod \in Nat /\ WordMod > 0
  BY WordIs, Mod
<1>2. (a - b) % WordMod \in Nat
  BY <1>1
<1>3. a >= b => (a - b) % WordMod = a - b
  BY <1>1
<1>4. a < b => (a - b) % WordMod = a - b + WordMod
  BY <1>1
<1> QED
  BY <1>2, <1>3, <1>4

(* What is on the stack once the additions are: their bytes, or for an SNA  *)
(* file the two above them that it came with.                               *)
LEMMA AdditionFills ==
  ASSUME kind \in {"sna", "z80"}, NEW i \in {1, 2, 3, 4, 5, 6}
  PROVE  Full[i] = IF i <= Size THEN Addition[i] ELSE Pushed[kind][i]
<1>1. CASE kind = "z80"
  <2>1. Size = 6 /\ Addition = Full
    BY <1>1 DEF Size, Addition, Full
  <2> QED
    BY <2>1
<1>2. CASE kind = "sna"
  <2>1. Size = 4 /\ Addition = <<"F'", "A'", "F", "A">>
    BY <1>2 DEF Size, Addition
  <2>2. Pushed[kind] = <<"free", "free", "free", "free", "PCl", "PCh">>
    BY <1>2 DEF Pushed
  <2> QED
    BY <2>1, <2>2 DEF Full
<1> QED
  BY <1>1, <1>2

LEMMA AdditionBytes ==
  ASSUME NEW i \in 1 .. Size
  PROVE  Addition[i] \in Bytes6
<1>1. CASE kind = "z80"
  <2>1. i \in {1, 2, 3, 4, 5, 6}
    BY <1>1 DEF Size
  <2> QED
    BY <1>1, <2>1 DEF Addition, Bytes6
<1>2. CASE kind # "z80"
  <2>1. i \in {1, 2, 3, 4}
    BY <1>2 DEF Size
  <2> QED
    BY <1>2, <2>1 DEF Addition, Bytes6
<1> QED
  BY <1>1, <1>2

-----------------------------------------------------------------------------
(* The steps. *)

LEMMA AddInv == IInv /\ AddToStack => IInv'
<1> SUFFICES ASSUME IInv, AddToStack PROVE IInv'
  OBVIOUS
<1> DEFINE p == reverse_16(stack_addition_SP)
           offset(a) == (a - p) % WordMod
           wr(a) == offset(a) < Size /\ a >= RamBase
<1>1. /\ step = "add" /\ step' = "LD SP"
      /\ kind' = kind /\ sp0' = sp0 /\ SP' = SP
      /\ AF' = AF /\ AF_aux' = AF_aux /\ PC' = PC
  BY DEF AddToStack
<1>2. memory' = [a \in Word |-> IF wr(a) THEN Addition[offset(a) + 1] ELSE memory[a]]
  BY DEF AddToStack
<1>3. /\ TypeOK /\ Room /\ kind \in {"sna", "z80"} /\ memory \in [Word -> Bytes6]
  BY <1>1 DEF IInv, TypeOK, Bytes6
<1>4. Room'
  BY <1>1, <1>3 DEF Room, Bottom
<1>5. stack_addition_SP \in Word /\ p \in Word
  <2>1. sp0 \in Word
    BY <1>3 DEF TypeOK
  <2>2. reverse_16(sp0) \in Nat
    BY <2>1, ReverseIsWord, WordIs
  <2>3. Size \in Nat
    BY DEF Size
  <2>4. Less(reverse_16(sp0), Size) \in Word
    <3> DEFINE v == reverse_16(sp0) - Size * ByteMod
    <3>1. v \in Int
      BY <2>2, <2>3, Mod
    <3> HIDE DEF v
    <3>2. v % WordMod \in Nat /\ v % WordMod < WordMod
      BY <3>1, Mod
    <3>3. v % WordMod \in Word
      BY <3>2, WordIs
    <3> QED
      BY <3>3 DEF Less, v
  <2> QED
    BY <2>4, ReverseIsWord DEF stack_addition_SP, regs_SP
<1> HIDE DEF p
<1>6. ASSUME NEW a \in Word
      PROVE  (IF wr(a) THEN Addition[offset(a) + 1] ELSE memory[a]) \in Bytes6
  <2>1. offset(a) \in Nat
    BY <1>5, <1>6, Ring
  <2>2. ASSUME wr(a) PROVE offset(a) + 1 \in 1 .. Size
    BY <2>1, <2>2 DEF Size
  <2> QED
    BY <1>3, <1>6, <2>2, AdditionBytes
<1>7. memory' \in [Word -> Bytes6]
  BY <1>2, <1>6
<1>8. TypeOK'
  BY <1>1, <1>3, <1>7 DEF TypeOK, Bytes6
<1>9. ASSUME NoBorrow, NEW a \in Word
      PROVE  memory'[a] = IF a \in Bottom .. Bottom + 5 THEN Full[a - Bottom + 1] ELSE "program"
  <2>1. /\ p = sp0 - Size /\ sp0 \in Nat
        /\ (Size = 6 \/ Size = 4)
    BY <1>3, <1>9, Pointers, WordIs DEF p, TypeOK, Size
  <2>2. p = Bottom
    BY <1>3, <2>1 DEF Bottom, Size
  <2>3. a \in Nat /\ a < WordMod /\ RamBase \in Nat /\ WordMod \in Nat
    BY WordIs, Mod
  <2>4. Bottom \in Nat /\ Bottom >= RamBase /\ Bottom + 6 <= WordMod
    BY <1>3 DEF Room
  <2>5. memory[a] = IF a \in Bottom .. Bottom + 5 THEN Pushed[kind][a - Bottom + 1] ELSE "program"
    BY <1>1, <1>9 DEF IInv, Progress, StackIs
  <2>6. CASE a \in Bottom .. Bottom + 5
    <3>1. offset(a) = a - Bottom /\ a >= RamBase
      BY <1>5, <2>2, <2>3, <2>4, <2>6, Ring
    <3>2. a - Bottom + 1 \in {1, 2, 3, 4, 5, 6}
      BY <2>3, <2>4, <2>6, InRange
    <3>3. wr(a) <=> a - Bottom + 1 <= Size
      BY <2>1, <2>3, <2>4, <3>1
    <3>4. memory'[a] = IF a - Bottom + 1 <= Size THEN Addition[a - Bottom + 1]
                       ELSE Pushed[kind][a - Bottom + 1]
      BY <1>2, <2>5, <2>6, <3>1, <3>3
    <3>5. memory'[a] = Full[a - Bottom + 1]
      BY <1>3, <3>2, <3>4, AdditionFills
    <3> QED
      BY <2>6, <3>5
  <2>7. CASE a \notin Bottom .. Bottom + 5
    <3>1. ~wr(a)
      <4>1. CASE a < Bottom
        <5>1. offset(a) = a - Bottom + WordMod
          BY <1>5, <2>2, <2>3, <2>4, <4>1, Ring
        <5> QED
          BY <2>1, <2>3, <2>4, <5>1
      <4>2. CASE a > Bottom + 5
        <5>1. offset(a) = a - Bottom
          BY <1>5, <2>2, <2>3, <2>4, <4>2, Ring
        <5> QED
          BY <2>1, <2>3, <2>4, <4>2, <5>1
      <4> QED
        BY <2>3, <2>4, <2>7, <4>1, <4>2
    <3> QED
      BY <1>2, <2>5, <2>7, <3>1
  <2> QED
    BY <2>6, <2>7
<1>10. NoBorrow' => Progress'
  <2> SUFFICES ASSUME NoBorrow' PROVE Progress'
    OBVIOUS
  <2>1. NoBorrow
    BY <1>1 DEF NoBorrow, Size
  <2>2. Bottom' = Bottom
    BY <1>1 DEF Bottom
  <2>3. StackIs(Full)'
    BY <1>9, <2>1, <2>2 DEF StackIs, Full
  <2> QED
    BY <1>1, <2>3 DEF Progress
<1> QED
  BY <1>1, <1>3, <1>4, <1>8, <1>10 DEF IInv

(* The steps of the Z80 leave the memory as it is. *)
LEMMA Kept ==
  ASSUME IInv, step # "add", step' # "add",
         kind' = kind, sp0' = sp0, memory' = memory
  PROVE  /\ Room' /\ Bottom' = Bottom /\ NoBorrow' = NoBorrow
         /\ NoBorrow => StackIs(IF step = "add" THEN Pushed[kind] ELSE Full)'
<1>1. Bottom' = Bottom /\ NoBorrow' = NoBorrow
  BY DEF Bottom, NoBorrow, Size
<1>2. Room'
  BY <1>1 DEF IInv, Room
<1>3. NoBorrow => StackIs(Full)
  BY DEF IInv, Progress
<1>4. NoBorrow => StackIs(Full)'
  BY <1>1, <1>3 DEF StackIs, Full
<1> QED
  BY <1>1, <1>2, <1>4

LEMMA LoadSpInv == IInv /\ LoadSp => IInv'
<1> SUFFICES ASSUME IInv, LoadSp PROVE IInv'
  OBVIOUS
<1>1. /\ step = "LD SP" /\ step' = "POP AF'" /\ SP' = reverse_16(routine_sp)
      /\ kind' = kind /\ sp0' = sp0 /\ memory' = memory
      /\ AF' = AF /\ AF_aux' = AF_aux /\ PC' = PC
  BY DEF LoadSp
<1>2. TypeOK /\ Room
  BY DEF IInv
<1>3. /\ Room' /\ Bottom' = Bottom /\ NoBorrow' = NoBorrow
      /\ NoBorrow => StackIs(IF step = "add" THEN Pushed[kind] ELSE Full)'
  BY <1>1, Kept
<1>4. reverse_16(routine_sp) \in Word
  <2>1. reverse_16(sp0) \in Nat
    BY <1>2, ReverseIsWord, WordIs DEF TypeOK
  <2>2. ASSUME NEW v \in Nat, NEW n \in Nat PROVE Less(v, n) \in Word
    <3> DEFINE d == v - n * ByteMod
    <3>1. d \in Int
      BY Mod
    <3> HIDE DEF d
    <3>2. d % WordMod \in Nat /\ d % WordMod < WordMod
      BY <3>1, Mod
    <3>3. d % WordMod \in Word
      BY <3>2, WordIs
    <3> QED
      BY <3>3 DEF Less, d
  <2>3. Less(reverse_16(sp0), 2) \in Nat
    BY <2>1, <2>2, WordIs
  <2>4. routine_sp \in Word
    BY <2>1, <2>2, <2>3 DEF routine_sp, regs_SP
  <2> QED
    BY <2>4, ReverseIsWord
<1>5. TypeOK'
  BY <1>1, <1>2, <1>4 DEF TypeOK
<1>6. NoBorrow' => Progress'
  <2>1. NoBorrow => SP' = Bottom
    BY <1>1, <1>2, Pointers
  <2> QED
    BY <1>1, <1>3, <2>1 DEF Progress
<1> QED
  BY <1>1, <1>3, <1>5, <1>6 DEF IInv

(* The word at an even place of the stack, and the pointer after it. *)
LEMMA PopsWord ==
  ASSUME Room, StackIs(Full), NEW i \in {0, 2, 4}, SP = Bottom + i
  PROVE  /\ Popped = IF i = 0 THEN "AF'" ELSE IF i = 2 THEN "AF" ELSE "PC"
         /\ i # 4 => (SP + 2) % WordMod = Bottom + (i + 2)
<1>1. Bottom \in Nat /\ Bottom + 6 <= WordMod /\ WordMod \in Nat
  BY Mod DEF Room
<1>2. SP \in Nat /\ SP < WordMod /\ SP + 1 \in Nat /\ SP + 1 < WordMod
  BY <1>1
<1>3. (SP + 1) % WordMod = SP + 1
  BY <1>1, <1>2
<1>4. SP \in Word /\ SP + 1 \in Word
  BY <1>2, WordIs
<1>5. SP \in Bottom .. Bottom + 5 /\ SP + 1 \in Bottom .. Bottom + 5
  BY <1>1
<1>6. memory[SP] = Full[SP - Bottom + 1] /\ memory[SP + 1] = Full[(SP + 1) - Bottom + 1]
  BY <1>4, <1>5 DEF StackIs
<1>7. SP - Bottom + 1 = i + 1 /\ (SP + 1) - Bottom + 1 = i + 2
  BY <1>1
<1>8. memory[SP] = Full[i + 1] /\ memory[(SP + 1) % WordMod] = Full[i + 2]
  BY <1>3, <1>6, <1>7
<1>9. Popped = IF i = 0 THEN "AF'" ELSE IF i = 2 THEN "AF" ELSE "PC"
  <2>1. CASE i = 0
    <3>1. memory[SP] = "F'" /\ memory[(SP + 1) % WordMod] = "A'"
      BY <1>8, <2>1 DEF Full
    <3> QED
      BY <2>1, <3>1 DEF Popped
  <2>2. CASE i = 2
    <3>1. memory[SP] = "F" /\ memory[(SP + 1) % WordMod] = "A"
      BY <1>8, <2>2 DEF Full
    <3> QED
      BY <2>2, <3>1 DEF Popped
  <2>3. CASE i = 4
    <3>1. memory[SP] = "PCl" /\ memory[(SP + 1) % WordMod] = "PCh"
      BY <1>8, <2>3 DEF Full
    <3> QED
      BY <2>3, <3>1 DEF Popped
  <2> QED
    BY <2>1, <2>2, <2>3
<1>10. i # 4 => (SP + 2) % WordMod = Bottom + (i + 2)
  BY <1>1
<1> QED
  BY <1>9, <1>10

(* What a POP does to the types. *)
LEMMA PopTypes ==
  ASSUME TypeOK
  PROVE  /\ (SP + 2) % WordMod \in Word
         /\ Popped \in {"AF", "AF'", "PC", "junk"}
<1>1. SP + 2 \in Nat /\ WordMod \in Nat /\ WordMod > 0
  <2>1. SP \in Word
    BY DEF TypeOK
  <2> QED
    BY <2>1, Mod, WordIs
<1> DEFINE v == SP + 2
<1>2. v % WordMod \in Nat /\ v % WordMod < WordMod
  <2> HIDE DEF v
  <2>1. v \in Nat
    BY <1>1 DEF v
  <2> QED
    BY <1>1, <2>1
<1>3. v % WordMod \in Word
  <2> HIDE DEF v
  <2> QED
    BY <1>2, WordIs
<1>4. Popped \in {"AF", "AF'", "PC", "junk"}
  BY DEF Popped
<1> QED
  BY <1>3, <1>4

LEMMA PopAuxInv == IInv /\ PopAux => IInv'
<1> SUFFICES ASSUME IInv, PopAux PROVE IInv'
  OBVIOUS
<1>1. /\ step = "POP AF'" /\ step' = "POP AF" /\ AF_aux' = Popped
      /\ SP' = (SP + 2) % WordMod
      /\ kind' = kind /\ sp0' = sp0 /\ memory' = memory /\ AF' = AF /\ PC' = PC
  BY DEF PopAux
<1>2. TypeOK /\ Room
  BY DEF IInv
<1>3. /\ Room' /\ Bottom' = Bottom /\ NoBorrow' = NoBorrow
      /\ NoBorrow => StackIs(IF step = "add" THEN Pushed[kind] ELSE Full)'
  BY <1>1, Kept
<1>4. TypeOK'
  BY <1>1, <1>2, PopTypes DEF TypeOK
<1>5. ASSUME NoBorrow PROVE SP' = Bottom + 2 /\ AF_aux' = "AF'"
  <2>1. StackIs(Full) /\ SP = Bottom
    BY <1>1, <1>5 DEF IInv, Progress
  <2>2. SP = Bottom + 0
    BY <1>2, <2>1 DEF Room
  <2>3. Popped = "AF'" /\ (SP + 2) % WordMod = Bottom + (0 + 2)
    BY <1>2, <2>1, <2>2, PopsWord
  <2>4. Bottom + (0 + 2) = Bottom + 2
    BY <1>2 DEF Room
  <2> QED
    BY <1>1, <1>5, <2>3, <2>4
<1>6. NoBorrow' => Progress'
  BY <1>1, <1>3, <1>5 DEF Progress
<1> QED
  BY <1>1, <1>3, <1>4, <1>6 DEF IInv

LEMMA PopAfInv == IInv /\ PopAf => IInv'
<1> SUFFICES ASSUME IInv, PopAf PROVE IInv'
  OBVIOUS
<1>1. /\ step = "POP AF" /\ step' = "RETN" /\ AF' = Popped
      /\ SP' = (SP + 2) % WordMod
      /\ kind' = kind /\ sp0' = sp0 /\ memory' = memory /\ AF_aux' = AF_aux /\ PC' = PC
  BY DEF PopAf
<1>2. TypeOK /\ Room
  BY DEF IInv
<1>3. /\ Room' /\ Bottom' = Bottom /\ NoBorrow' = NoBorrow
      /\ NoBorrow => StackIs(IF step = "add" THEN Pushed[kind] ELSE Full)'
  BY <1>1, Kept
<1>4. TypeOK'
  BY <1>1, <1>2, PopTypes DEF TypeOK
<1>5. ASSUME NoBorrow PROVE SP' = Bottom + 4 /\ AF' = "AF" /\ AF_aux' = "AF'"
  <2>1. StackIs(Full) /\ SP = Bottom + 2 /\ AF_aux = "AF'"
    BY <1>1, <1>5 DEF IInv, Progress
  <2>2. Popped = "AF" /\ (SP + 2) % WordMod = Bottom + (2 + 2)
    BY <1>2, <2>1, PopsWord
  <2>3. Bottom + (2 + 2) = Bottom + 4
    BY <1>2 DEF Room
  <2> QED
    BY <1>1, <2>1, <2>2, <2>3
<1>6. NoBorrow' => Progress'
  BY <1>1, <1>3, <1>5 DEF Progress
<1> QED
  BY <1>1, <1>3, <1>4, <1>6 DEF IInv

LEMMA ReturnInv == IInv /\ Return => IInv'
<1> SUFFICES ASSUME IInv, Return PROVE IInv'
  OBVIOUS
<1>1. /\ step = "RETN" /\ step' = "program" /\ PC' = Popped
      /\ SP' = (SP + 2) % WordMod
      /\ kind' = kind /\ sp0' = sp0 /\ memory' = memory /\ AF_aux' = AF_aux /\ AF' = AF
  BY DEF Return
<1>2. TypeOK /\ Room
  BY DEF IInv
<1>3. /\ Room' /\ Bottom' = Bottom /\ NoBorrow' = NoBorrow
      /\ NoBorrow => StackIs(IF step = "add" THEN Pushed[kind] ELSE Full)'
  BY <1>1, Kept
<1>4. TypeOK'
  BY <1>1, <1>2, PopTypes DEF TypeOK
<1>5. ASSUME NoBorrow
      PROVE  SP' = (Bottom + 6) % WordMod /\ AF' = "AF" /\ AF_aux' = "AF'" /\ PC' = "PC"
  <2>1. StackIs(Full) /\ SP = Bottom + 4 /\ AF_aux = "AF'" /\ AF = "AF"
    BY <1>1, <1>5 DEF IInv, Progress
  <2>2. SP + 2 = Bottom + 6
    BY <1>2, <2>1 DEF Room
  <2> QED
    BY <1>1, <1>2, <2>1, <2>2, PopsWord
<1>6. NoBorrow' => Progress'
  BY <1>1, <1>3, <1>5 DEF Progress
<1> QED
  BY <1>1, <1>3, <1>4, <1>6 DEF IInv

LEMMA NextInv == IInv /\ [Next]_vars => IInv'
<1> SUFFICES ASSUME IInv, [Next]_vars PROVE IInv'
  OBVIOUS
<1>1. CASE UNCHANGED vars
  <2>1. /\ kind' = kind /\ sp0' = sp0 /\ memory' = memory /\ step' = step
        /\ SP' = SP /\ AF' = AF /\ AF_aux' = AF_aux /\ PC' = PC
    BY <1>1 DEF vars
  <2>2. Bottom' = Bottom /\ NoBorrow' = NoBorrow
    BY <2>1 DEF Bottom, NoBorrow, Size
  <2>3. TypeOK' /\ Room'
    BY <2>1, <2>2 DEF IInv, TypeOK, Room
  <2>4. NoBorrow' => Progress'
    BY <2>1, <2>2 DEF IInv, Progress, StackIs
  <2> QED
    BY <2>1, <2>3, <2>4 DEF IInv
<1> QED
  BY <1>1, AddInv, LoadSpInv, PopAuxInv, PopAfInv, ReturnInv DEF Next

-----------------------------------------------------------------------------
(* What follows. *)

(* The inductive invariant. *)
THEOREM StackInvariant == Spec => []IInv
<1> QED
  BY InitInv, NextInv, PTL DEF Spec

(* Types of all variables, the subtraction borrowing or not. *)
THEOREM TypeCorrect == Spec => []TypeOK
<1>1. IInv => TypeOK
  BY DEF IInv
<1> QED
  BY <1>1, StackInvariant, PTL

(* Whatever the size of a byte and the stack pointer of the snapshot, as    *)
(* long as its low byte is not below what is subtracted from it: the LOAD   *)
(* routine takes AF', AF and the program counter from where the firmware or *)
(* the file put them, and leaves the program's stack pointer                *)
(* (formats.c:1042-1057, file_format_aux.c:167).                            *)
THEOREM ProgramIsRestored == Spec => []ProgramRestored
<1>1. IInv => ProgramRestored
  BY DEF IInv, Progress, ProgramRestored
<1> QED
  BY <1>1, StackInvariant, PTL

(* And the stack additions are written below the program's stack only       *)
(* (generate_AF_stack_addition).                                            *)
THEOREM ProgramIsKept == Spec => []ProgramKept
<1>1. IInv => ProgramKept
  BY DEF IInv, Progress, StackIs, ProgramKept
<1> QED
  BY <1>1, StackInvariant, PTL
=============================================================================
