----------------------------- MODULE SaveState -----------------------------
(***************************************************************************)
(* Taking a save state of the running program and letting it go on         *)
(* (save_SNA, generate_SAVE_routine, generate_regs_save_state), and        *)
(* starting a program from a file (the end of load_SNA and load_z80).      *)
(*                                                                         *)
(* The firmware writes a routine over the video memory at 0x4000 and wakes *)
(* the Z80 in it with an NMI.  The SAVE routine stores the registers over  *)
(* its own beginning, sends a command and HALTs; the LOAD routine takes    *)
(* registers and goes to the program; then the firmware puts the video     *)
(* memory back.  One Z80 step is one instruction of a routine, one         *)
(* firmware step is what it does between two waits.                        *)
(***************************************************************************)
EXTENDS SequencesExt

CONSTANT
  Surroundings  \* the values adverse may have

ASSUME SurroundingsAssumption == Surroundings \subseteq BOOLEAN

VARIABLES
  adverse,   \* nothing is known of the timing, and calls may fail; otherwise
             \* the firmware's printfs outlast the SAVE routine, and
             \* wait_until_routine_ends sees no high address too early
  fw,        \* where the firmware is
  bus,       \* the firmware has the bus
  nmi,       \* an NMI is pending
  en,        \* the command register holds a command
  z80, k,    \* where the Z80 is, and the instruction of the routine it is at
  regs,      \* whose values the Z80's registers hold
  video,     \* the bytes from 0x4000 on that the routines take up
  sp_saved,  \* the word at 0x4100 is the program's stack pointer
  stack,     \* what was pushed on the program's stack
  tail,      \* the last bytes of the pixels: the program's, or those an NMI
             \* that ended a HALT pushed: the SAVE routine's, or the menu's
  backup,    \* the firmware's copy of video (first_block_buf, data_bk)
  header,    \* whose register values the snapshot's header has
  put_back   \* a history variable: since the program was loaded, no copy
             \* has failed to reach the video memory again

z80Vars == <<z80, k, regs, sp_saved, stack, tail>>
vars    == <<adverse, z80Vars, fw, bus, nmi, en, video, backup, header, put_back>>

-----------------------------------------------------------------------------
(***************************************************************************)
(* The SAVE routine: the bytes each instruction is fetched from, the       *)
(* register it stores ("": none) and the bytes it stores it in.            *)
(***************************************************************************)
Ins(from, reg, to) == [from |-> from, reg |-> reg, to |-> to]
Plain(from) == Ins(from, "", {})

SaveRoutine ==
  << Plain(0 .. 3),                                    \* LD (0x4100),SP
     Plain(4 .. 4), Plain(5 .. 5), Plain(6 .. 6),      \* PUSH AF, EX AF, PUSH AF
     Ins(7 .. 9, "HL", 0 .. 1), Ins(10 .. 13, "BC", 2 .. 3), Ins(14 .. 17, "DE", 4 .. 5),
     Plain(18 .. 18),                                  \* EXX
     Ins(19 .. 21, "HL'", 6 .. 7), Ins(22 .. 25, "BC'", 8 .. 9),
     Ins(26 .. 29, "DE'", 10 .. 11), Ins(30 .. 33, "IX", 12 .. 13),
     Ins(34 .. 37, "IY", 14 .. 15),
     Plain(38 .. 39), Ins(40 .. 42, "I", 16 .. 16),
     Plain(43 .. 44), Ins(45 .. 47, "R", 18 .. 18),
     Plain(48 .. 50), Plain(51 .. 52), Plain(53 .. 53) >>  \* LD SP,0x5800; IN; HALT

\* The instructions at which something else than a store happens.
SpStore == 1
PushAt_Swapped == [j \in {2, 4} |-> IF j = 2 THEN "AF'" ELSE "AF"]  \* mutant
PushAt  == [j \in {2, 4} |-> IF j = 2 THEN "AF" ELSE "AF'"]
SpMove  == 18
Command == 19
HaltAt_Missing == 0  \* mutant: the routine has no HALT
HaltAt  == 20

\* The LOAD routine: everything but the return is a register load.
LoadRoutine ==
  << 0 .. 1, 2 .. 3, 4 .. 5, 6 .. 7,                   \* R and I, by way of A
     8 .. 10, 11 .. 13, 14 .. 16, 17 .. 17,            \* HL', DE', BC', EXX
     18 .. 20, 21 .. 23, 24 .. 26, 27 .. 30, 31 .. 34, \* HL, DE, BC, IY, IX
     35 .. 37, 38 .. 38, 39 .. 39, 40 .. 40,           \* SP, POP AF, EX AF, POP AF
     41 .. 42, 43 .. 43, 44 .. 45 >>                   \* IM, EI or DI, RETN

SaveSize == 54        \* get_SAVE_routine_size
LoadSize_Short == 45  \* mutant
LoadSize == 46        \* get_LOAD_routine_size
Bytes    == 0 .. SaveSize - 1

\* A routine, or a register, written over the video memory.
Over(what, where) == [b \in Bytes |-> IF b \in where THEN what ELSE video[b]]

\* The words pushed on the program's stack, as far as they are in order.
Pushes == <<"PC", "AF", "AF'">>
Push(word) == IF IsPrefix(Append(stack, word), Pushes) THEN Append(stack, word)
              ELSE <<"junk">>

\* Where generate_regs_save_state looks for the registers.
Registers == {"HL", "BC", "DE", "HL'", "BC'", "DE'", "IX", "IY", "I", "R"}
RegAt == [r \in Registers |->
            CASE r = "HL" -> 0 .. 1   [] r = "BC" -> 2 .. 3   [] r = "DE" -> 4 .. 5
              [] r = "HL'" -> 6 .. 7  [] r = "BC'" -> 8 .. 9  [] r = "DE'" -> 10 .. 11
              [] r = "IX" -> 12 .. 13 [] r = "IY" -> 14 .. 15
              [] r = "I" -> {16}      [] r = "R" -> {18}]

\* What it finds there: the registers of the program, or not all of them.
RegsRead ==
  IF /\ sp_saved /\ stack = Pushes
     /\ \A r \in Registers : \A b \in RegAt[r] : video[b] = r
  THEN "program" ELSE "junk"

Video(what) == [b \in Bytes |-> what]

-----------------------------------------------------------------------------
(* A program runs, or the menu waits in the HALT of FILE_SEL_HNDLR. *)
Init ==
  /\ adverse \in Surroundings
  /\ fw = "main" /\ bus = FALSE /\ nmi = FALSE /\ en = FALSE
  /\ z80 \in {"program", "menu"} /\ k = 0
  /\ regs = "program" /\ sp_saved = FALSE /\ stack = <<>>
  /\ video = Video("game") /\ tail = "game"
  /\ backup = Video("game") /\ header = "none"
  /\ put_back = TRUE

(* The firmware: save_SNA *)

\* The button's command is in the register, and stays there until the main
\* loop acknowledges it after save_SNA has returned.  A bus that is still held
\* (CreateFails, PutBack) is taken as well, wherever that stopped the Z80, and
\* a Z80 left in the HALT (RequestFails).
StartSave ==
  /\ fw = "main"
  /\ bus \/ (~nmi /\ z80 \in {"program", "halt"})
  /\ en' = TRUE /\ bus' = TRUE
  /\ fw' = "inject"
  /\ UNCHANGED <<adverse, z80Vars, nmi, video, backup, header, put_back>>

\* Mutant: the block is kept after the routine was written.
InjectSave_LateCopy ==
  /\ fw = "inject"
  /\ video' = Over("save", Bytes) /\ backup' = video'
  /\ bus' = FALSE /\ nmi' = TRUE
  /\ fw' = "listen"
  /\ UNCHANGED <<adverse, z80Vars, en, header, put_back>>

\* What is kept of a LOAD routine nobody put back is no routine any more: it
\* has the registers of an earlier stop.
Copied == [b \in Bytes |-> IF video[b] = "load" THEN "left" ELSE video[b]]

\* The first block is kept, the routine written, the Z80 woken in it.
InjectSave ==
  /\ fw = "inject"
  /\ backup' = Copied /\ video' = Over("save", Bytes)
  /\ bus' = FALSE /\ nmi' = TRUE
  /\ fw' = "listen"
  /\ UNCHANGED <<adverse, z80Vars, en, header, put_back>>

\* listen_for_en and the second DMA_request; the registers are read.  The
\* prints before it outlast an instruction, so the NMI has been taken.
Capture ==
  /\ fw = "listen" /\ en /\ ~nmi
  /\ adverse \/ z80 = "halt"
  /\ bus' = TRUE /\ header' = RegsRead
  /\ fw' = "file"
  /\ UNCHANGED <<adverse, z80Vars, nmi, en, video, backup, put_back>>

\* The second DMA_request times out: the Z80 stays in the SAVE routine.
RequestFails ==
  /\ fw = "listen" /\ en /\ ~nmi /\ adverse
  /\ fw' = "main" /\ en' = FALSE
  /\ UNCHANGED <<adverse, z80Vars, bus, nmi, video, backup, header, put_back>>

\* The file is written from the kept block and from memory, the LOAD routine
\* takes the place of the SAVE routine.
WriteFile ==
  /\ fw = "file"
  /\ video' = Over("load", 0 .. LoadSize - 1)
  /\ bus' = FALSE /\ nmi' = TRUE
  /\ fw' = "poll"
  /\ UNCHANGED <<adverse, z80Vars, en, backup, header, put_back>>

CreateFails ==
  /\ fw = "file" /\ adverse
  /\ fw' = "main" /\ en' = FALSE
  /\ UNCHANGED <<adverse, z80Vars, bus, nmi, video, backup, header, put_back>>

\* wait_until_routine_ends, and the third session: the kept block goes back.
\* It returns 0 when a high address is seen and when its polls run out alike.
\* DMA_stop may time out; it asks for the bus again and nobody reads its result.
PutBack ==
  /\ fw = "poll" /\ (adverse \/ z80 = "program")
  /\ video' = backup
  /\ bus' \in {FALSE, adverse}
  /\ fw' = "main" /\ en' = FALSE
  /\ UNCHANGED <<adverse, z80Vars, nmi, backup, header, put_back>>

\* Nothing goes back: wait_until_routine_ends takes a high address that it sees
\* on its last poll for a timeout, or the third DMA_request times out, nobody
\* reads its result and the writes do not reach the memory.
NotPutBack ==
  /\ fw \in {"poll", "poll_load"} /\ adverse
  /\ put_back' = FALSE
  /\ fw' = "main" /\ en' = FALSE
  /\ UNCHANGED <<adverse, z80Vars, bus, nmi, video, backup, header>>

(* load_SNA and load_z80, once the file is in memory *)
Load ==
  /\ fw = "main" /\ ~bus /\ ~nmi /\ z80 = "menu"
  /\ header' = "program" /\ stack' = <<>> /\ sp_saved' = FALSE
  /\ backup' = Video("game")
  /\ video' = [b \in Bytes |-> IF b < LoadSize THEN "load" ELSE "game"]
  /\ tail' = "game" /\ put_back' = TRUE
  /\ nmi' = TRUE /\ en' = TRUE
  /\ fw' = "poll_load"
  /\ UNCHANGED <<adverse, z80, k, regs, bus>>

PutBackLoaded ==
  /\ fw = "poll_load" /\ (adverse \/ z80 = "program")
  /\ video' = backup /\ tail' = "game"
  /\ bus' \in {FALSE, adverse}
  /\ fw' = "main" /\ en' = FALSE
  /\ UNCHANGED <<adverse, z80, k, regs, sp_saved, stack, nmi, backup, header, put_back>>

-----------------------------------------------------------------------------
(* The Z80 *)

\* The program's counter is pushed on the program's stack, or on that of the
\* HALT the Z80 was in: its top is the end of the pixels.
AcceptNmi ==
  /\ ~bus /\ nmi /\ nmi' = FALSE
  /\ z80' = IF video[0] = "save" THEN "save"
            ELSE IF video[0] = "load" THEN "load" ELSE "lost"
  /\ k' = 1
  /\ IF z80 \in {"halt", "menu"}
     THEN tail' = z80 /\ UNCHANGED stack
     ELSE stack' = Push(IF z80 = "program" THEN "PC" ELSE "junk")
          /\ UNCHANGED tail
  /\ sp_saved' = (IF z80 = "program" THEN FALSE ELSE sp_saved)
  /\ UNCHANGED <<adverse, regs, fw, bus, en, video, backup, header, put_back>>

\* The next instruction is fetched from bytes that are still the routine's.
Intact(what, code) == \A b \in code : video[b] = what

SaveStep ==
  /\ ~bus /\ ~nmi /\ z80 = "save" /\ Intact("save", SaveRoutine[k].from)
  /\ LET ins == SaveRoutine[k]
     IN  video' = Over(ins.reg, ins.to)
  /\ sp_saved' = (k = SpStore \/ sp_saved)
  /\ stack' = IF k \in DOMAIN PushAt THEN Push(PushAt[k]) ELSE stack
  /\ regs' = IF k = SpMove THEN "junk" ELSE regs
  /\ en' = (k = Command \/ en)
  /\ IF k = HaltAt THEN z80' = "halt" /\ k' = 0 ELSE UNCHANGED z80 /\ k' = k + 1
  /\ UNCHANGED <<adverse, tail, fw, bus, nmi, backup, header, put_back>>

\* Mutant: the routine ends in a jump to its start.
LoadStep_NoReturn ==
  /\ ~bus /\ ~nmi /\ z80 = "load" /\ Intact("load", LoadRoutine[k])
  /\ k' = IF k = Len(LoadRoutine) THEN 1 ELSE k + 1
  /\ regs' = header
  /\ UNCHANGED <<adverse, z80, stack, sp_saved, tail, fw, bus, nmi, en, video,
                 backup, header, put_back>>

\* The last instruction is RETN: back to the program, its words popped.
LoadStep ==
  /\ ~bus /\ ~nmi /\ z80 = "load" /\ Intact("load", LoadRoutine[k])
  /\ IF k = Len(LoadRoutine)
     THEN /\ z80' = (IF header = "program" THEN "program" ELSE "lost")
          /\ k' = 0 /\ stack' = <<>> /\ sp_saved' = FALSE
     ELSE k' = k + 1 /\ UNCHANGED <<z80, stack, sp_saved>>
  /\ regs' = header
  /\ UNCHANGED <<adverse, tail, fw, bus, nmi, en, video, backup, header,
                 put_back>>

\* The Z80 fetches what is no longer its routine.
RunAstray ==
  /\ ~bus /\ ~nmi
  /\ \/ z80 = "save" /\ ~Intact("save", SaveRoutine[k].from)
     \/ z80 = "load" /\ ~Intact("load", LoadRoutine[k])
  /\ z80' = "lost" /\ k' = 0
  /\ UNCHANGED <<adverse, regs, sp_saved, stack, tail, fw, bus, nmi, en, video,
                 backup, header, put_back>>

\* The program restarts the ROM, and the user comes to the file menu again.
BackToMenu ==
  /\ fw = "main" /\ ~bus /\ ~nmi /\ z80 = "program"
  /\ z80' = "menu" /\ header' = "none"
  /\ UNCHANGED <<adverse, k, regs, sp_saved, stack, tail, fw, bus, nmi, en, video,
                 backup, put_back>>

Firmware == InjectSave \/ Capture \/ RequestFails \/ WriteFile \/ CreateFails
            \/ PutBack \/ PutBackLoaded \/ NotPutBack
Z80 == AcceptNmi \/ SaveStep \/ LoadStep \/ RunAstray

Next == StartSave \/ Load \/ BackToMenu \/ Firmware \/ Z80
Spec == Init /\ [][Next]_vars

\* The firmware's loops all end and the Z80 runs whenever it has the bus.
FairSpec == Spec /\ WF_vars(Firmware) /\ WF_vars(Z80)

-----------------------------------------------------------------------------
(* Types of all variables. *)
TypeOK ==
  /\ adverse \in BOOLEAN
  /\ fw \in {"main", "inject", "listen", "file", "poll", "poll_load"}
  /\ bus \in BOOLEAN /\ nmi \in BOOLEAN /\ en \in BOOLEAN
  /\ z80 \in {"program", "menu", "save", "load", "halt", "lost"}
  /\ k \in 0 .. Len(SaveRoutine)
  /\ regs \in {"program", "junk", "none"} /\ header \in {"program", "junk", "none"}
  /\ sp_saved \in BOOLEAN
  /\ stack \in Seq({"PC", "AF", "AF'", "junk"})
  /\ video \in [Bytes -> {"game", "save", "load", "left"} \union Registers]
  /\ backup \in [Bytes -> {"game", "save", "load", "left"} \union Registers]
  /\ tail \in {"game", "halt", "menu"}
  /\ put_back \in BOOLEAN

(***************************************************************************)
(* The Z80 only ever executes a routine that is whole where it executes    *)
(* it: the SAVE routine's stores over itself stay behind the instruction   *)
(* being fetched ("overwrite NMI code with the values themselves as the    *)
(* instructions execute", file_format_aux.c:318), and the firmware puts    *)
(* the video memory back only when the LOAD routine is through, unless the *)
(* timing is against it.                                                   *)
(***************************************************************************)
NeverLost == ~adverse => z80 # "lost"

(***************************************************************************)
(* A snapshot's header has the registers of the program that was stopped:  *)
(* every register is looked for where the SAVE routine put it              *)
(* (generate_regs_save_state, formats.c:922-988).                          *)
(***************************************************************************)
HeaderIsProgram == ~adverse /\ fw \in {"file", "poll"} => header = "program"

(***************************************************************************)
(* Whatever the timing and the errors, a program that goes on has its own  *)
(* registers and stack, and the registers the SAVE routine stored are not  *)
(* on its screen (formats.c:271: "make sure the save state doesn't include *)
(* the register data on screen").  Unless a put-back has failed since it   *)
(* was loaded, its video memory is its own (formats.c:387-395, 204-212,    *)
(* 907-914); once one has, the routine's other bytes stay, and the next    *)
(* save state keeps them for the program's.                                *)
(***************************************************************************)
ResumesUnchanged ==
  fw = "main" /\ ~bus /\ z80 = "program" =>
    /\ regs = "program" /\ stack = <<>>
    /\ \A b \in Bytes : video[b] \notin Registers
    /\ put_back => video = Video("game") /\ tail # "menu"

(* A save state ends, and the program goes on; so does a load. *)
ProgramGoesOn ==
  ~adverse /\ fw \in {"inject", "poll_load"} ~> fw = "main" /\ z80 = "program"
=============================================================================
