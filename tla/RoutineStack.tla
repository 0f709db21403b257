---------------------------- MODULE RoutineStack ----------------------------
(***************************************************************************)
(* The stack pointer on its way through a snapshot: the firmware keeps it  *)
(* as the file has it, its low byte in the high one (conv_data_8_16),      *)
(* subtracts from it in that order (generate_AF_stack_addition,            *)
(* generate_LOAD_routine) and turns it round again (reverse_16).  The LOAD *)
(* routine takes AF' and AF from there and its RETN the program counter.   *)
(***************************************************************************)
EXTENDS Integers, Sequences

CONSTANTS
  ByteMod,  \* the number of values of a byte (256)
  RamBase   \* the first address of the RAM (0x4000)

ASSUME ByteModAssumption == ByteMod \in Nat /\ ByteMod > 6
ASSUME RamBaseAssumption == RamBase \in 2 .. ByteMod * (ByteMod - 1)

VARIABLES
  kind,    \* the snapshot: an SNA file, a Z80 file, or that of a save state
  sp0,     \* the stack pointer it has
  memory,  \* whose byte is at an address
  step,    \* what comes next
  SP, AF, AF_aux, PC  \* the Z80's

vars == <<kind, sp0, memory, step, SP, AF, AF_aux, PC>>

-----------------------------------------------------------------------------
WordMod == ByteMod * ByteMod
Word    == 0 .. WordMod - 1

\* Mutant: the result is not cut to 16 bits.
reverse_16_Wide(w) == w * ByteMod + w \div ByteMod

reverse_16(w) == (w % ByteMod) * ByteMod + w \div ByteMod

\* Mutant: n is subtracted as if the word were not reversed.
Less_Plain(w, n) == (w - n) % WordMod

\* w - (n << 8) in 16 bits
Less(w, n) == (w - n * ByteMod) % WordMod

\* The word regs.SP, as both readers of files and generate_regs_save_state
\* leave it.
regs_SP == reverse_16(sp0)

\* What generate_AF_stack_addition puts on the stack, from its pointer up.
Addition == IF kind = "z80" THEN <<"F'", "A'", "F", "A", "PCl", "PCh">>
            ELSE <<"F'", "A'", "F", "A">>
Size     == IF kind = "z80" THEN 6 ELSE 4
stack_addition_SP == Less(regs_SP, Size)

\* Mutant: the program counter of a Z80 file is not allowed for.
routine_sp_NoPc == Less(regs_SP, 4)

\* The operand of the LD SP of generate_LOAD_routine.
routine_sp == Less(IF kind = "z80" THEN Less(regs_SP, 2) ELSE regs_SP, 4)

(***************************************************************************)
(* The stack of the snapshot: an SNA file has the program counter on it, a *)
(* save state everything, just below the words the program has there.  Its *)
(* bytes below it are free.                                                *)
(***************************************************************************)
Pushed == [z80  |-> <<"free", "free", "free", "free", "free", "free">>,
           sna  |-> <<"free", "free", "free", "free", "PCl", "PCh">>,
           save |-> <<"F'", "A'", "F", "A", "PCl", "PCh">>]
Bottom == IF kind = "z80" THEN sp0 - 6 ELSE sp0 - 4

Init ==
  /\ kind \in {"sna", "z80", "save"}
  /\ sp0 \in Word
  /\ Bottom >= RamBase /\ Bottom + 6 <= WordMod
  /\ memory = [a \in Word |-> IF a \in Bottom .. Bottom + 5
                              THEN Pushed[kind][a - Bottom + 1] ELSE "program"]
  /\ step = IF kind = "save" THEN "LD SP" ELSE "add"
  /\ SP = 0 /\ AF = "none" /\ AF_aux = "none" /\ PC = "routine"

\* write_buf_mem(reverse_16(stack_addition.SP), ...): the ROM stays as it is.
AddToStack ==
  /\ step = "add" /\ step' = "LD SP"
  /\ memory' = [a \in Word |->
       LET offset == (a - reverse_16(stack_addition_SP)) % WordMod
       IN  IF offset < Size /\ a >= RamBase THEN Addition[offset + 1] ELSE memory[a]]
  /\ UNCHANGED <<kind, sp0, SP, AF, AF_aux, PC>>

LoadSp ==
  /\ step = "LD SP" /\ step' = "POP AF'"
  /\ SP' = reverse_16(routine_sp)
  /\ UNCHANGED <<kind, sp0, memory, AF, AF_aux, PC>>

\* The word a POP takes, by the register it was pushed from.
Popped ==
  LET lo == memory[SP]
      hi == memory[(SP + 1) % WordMod]
  IN  IF lo = "F'" /\ hi = "A'" THEN "AF'"
      ELSE IF lo = "F" /\ hi = "A" THEN "AF"
      ELSE IF lo = "PCl" /\ hi = "PCh" THEN "PC"
      ELSE "junk"

PopAux ==
  /\ step = "POP AF'" /\ step' = "POP AF"
  /\ AF_aux' = Popped /\ SP' = (SP + 2) % WordMod
  /\ UNCHANGED <<kind, sp0, memory, AF, PC>>

PopAf ==
  /\ step = "POP AF" /\ step' = "RETN"
  /\ AF' = Popped /\ SP' = (SP + 2) % WordMod
  /\ UNCHANGED <<kind, sp0, memory, AF_aux, PC>>

Return ==
  /\ step = "RETN" /\ step' = "program"
  /\ PC' = Popped /\ SP' = (SP + 2) % WordMod
  /\ UNCHANGED <<kind, sp0, memory, AF, AF_aux>>

Next == AddToStack \/ LoadSp \/ PopAux \/ PopAf \/ Return
Spec == Init /\ [][Next]_vars

-----------------------------------------------------------------------------
(* Types of all variables. *)
TypeOK ==
  /\ kind \in {"sna", "z80", "save"} /\ sp0 \in Word /\ SP \in Word
  /\ memory \in [Word -> {"program", "free", "F'", "A'", "F", "A", "PCl", "PCh"}]
  /\ step \in {"add", "LD SP", "POP AF'", "POP AF", "RETN", "program"}
  /\ {AF, AF_aux, PC} \subseteq {"none", "routine", "AF", "AF'", "PC", "junk"}

\* The subtraction from the low byte, on top in regs.SP, does not borrow.
NoBorrow == sp0 % ByteMod >= Size

(***************************************************************************)
(* The routine hands over to the program with the registers of the         *)
(* snapshot and with the stack as the program left it: the pointer the     *)
(* firmware writes to and the one the routine loads are the same, though   *)
(* computed apart, and the words are in the order of the POPs.             *)
(***************************************************************************)
ProgramRestored ==
  step = "program" /\ NoBorrow =>
    /\ AF = "AF" /\ AF_aux = "AF'" /\ PC = "PC"
    /\ SP = (Bottom + 6) % WordMod

(***************************************************************************)
(* Nothing of the program's is overwritten: the stack additions of         *)
(* load_SNA and load_z80 go to the free bytes below its stack.             *)
(***************************************************************************)
ProgramKept ==
  NoBorrow => \A a \in Word : a \notin Bottom .. Bottom + 5 => memory[a] = "program"

(***************************************************************************)
(* "since this is in little endian, must subtract this value instead of    *)
(* just size" (file_format_aux.c:167): the pointer of the stack additions  *)
(* is the snapshot's less their size.                                      *)
(***************************************************************************)
SizeSubtracted ==
  step = "LD SP" /\ kind # "save" =>
    reverse_16(stack_addition_SP) = (sp0 - Size) % WordMod
=============================================================================
