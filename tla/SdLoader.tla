------------------------------ MODULE SdLoader ------------------------------
(***************************************************************************)
(* The SD loader: the menu the Z80 runs (FINAL_full_menu_inject*.asm), the *)
(* command register between the two processors (nios_per_reg.vhd and its   *)
(* glue in top.vhd) and the firmware's main loop (main.c, per_hal.c).      *)
(* Module SdCard has what it finds on the SD card (sd_if.c).               *)
(*                                                                         *)
(* The Z80 leaves a command in the register with an IN or OUT and HALTs;   *)
(* the firmware reads it, does the work while the Z80 is off the bus,      *)
(* leaves a routine at 0x4000, wakes the Z80 with an NMI, and only then    *)
(* acknowledges the command, which clears the register.  A DMA session and *)
(* its NMI are one step here: module DmaHal has them in detail.            *)
(***************************************************************************)
EXTENDS SdCard

CONSTANTS
  Cards,         \* the root directories an SD card may have: sequences of names
  ByteMod,       \* the number of values of a byte (256)
  MayFail,       \* what may go wrong: see the assumption
  Adversity,     \* whether things do go wrong: a set of Booleans
  HastyUser,     \* keys and buttons do not wait for the firmware to be idle
  ButtonWhen,    \* where the Z80 may be when the save-state button is pressed
  MaxEntries,    \* the entries of a directory the button is not pressed beyond
  MaxResets      \* the number of times KEY0 is pressed

ASSUME SizesAssumption ==
  /\ ByteMod \in Nat \ {0} /\ MaxEntries \in Nat /\ MaxResets \in Nat
  /\ Adversity \subseteq BOOLEAN
ASSUME CardsAssumption == \A d \in Cards : d \in Seq(FileName) /\ IsInjective(d)
ASSUME MayFailAssumption ==
  MayFail \subseteq {"dma", "list", "open", "read", "create", "lag"}

VARIABLES
  z80,        \* where the Z80 is
  page,       \* 0xEC0B: the page the menu is on
  index,      \* 0xEC0C: the highlighted entry
  left,       \* 0xEC09: pages after this one, as the firmware wrote it
  table,      \* 0xC000: the entries of the file menu, without the title
  nmi_code,   \* what the NMI routine's address, 0x4000, holds
  loaded,     \* the file whose contents are in memory
  button,     \* KEY3 is down
  en, reg,    \* the command register: its flag and its contents
  fw,         \* where the firmware is
  type,       \* what get_if_type returned
  game,       \* curr_game_filename, up to curr_game_filename_len
  no_sd, sd_empty, max_page, curr_page,  \* as in main.c
  list,       \* curr_page_file_list: its size and its slots
  dir,        \* the root directory of the card
  adverse,    \* what MayFail lists does happen; never changes
  resets      \* how often KEY0 was pressed

z80Vars == <<z80, page, index, loaded>>
memVars == <<left, table, nmi_code>>
regVars == <<button, en, reg>>
sdVars  == <<no_sd, sd_empty, max_page, curr_page, list>>
fwVars  == <<fw, type, game, sdVars>>
envVars == <<dir, adverse, resets>>
vars    == <<z80Vars, memVars, regVars, fwVars, envVars>>

Faults == IF adverse THEN MayFail ELSE {}

\* The calls of the card's directory that may fail.
FailingCall == {0} \union IF "list" \in Faults THEN Calls(dir) ELSE {}

-----------------------------------------------------------------------------
(* Commands.  Ports 0x17, 0x19 and 0x1B; the page is the port's high byte. *)
Cmd(t, rw, p, g) == [type |-> t, rw |-> rw, page |-> p, game |-> g]
Cleared == Cmd("NA", "none", 0, 0)

\* What the register is given while the button is down, whatever the Z80
\* does: a write of port 0x19.  The data are those of the Z80's bus.
StateCmds == {Cmd("STATE", "write", 0, g) : g \in Slots}

\* The Z80 between a command and its HALT, in the HALT, and after it.
Lagging == {"init_cmd", "page_cmd", "load_cmd"}
Halted  == {"init_halt", "page_halt", "load_halt"}
Phases  == Lagging \union Halted \union
  {"boot", "main_menu", "file_menu", "basic", "game", "crashed", "stopped"}

HaltOf(z) == CASE z = "init_cmd" -> "init_halt"
               [] z = "page_cmd" -> "page_halt"
               [] z = "load_cmd" -> "load_halt"

\* Where a RETN from the NMI routine leads: an NMI ends a HALT, and one that
\* comes before the HALT returns to it.  Nothing sensible follows the HALT
\* of FILE_SEL_HNDLR: the Z80 runs on into the next handler, its stack moved.
NmiReturn(z) == CASE z = "init_halt" -> "main_menu"
                  [] z = "page_halt" -> "file_menu"
                  [] z = "load_halt" -> "crashed"
                  [] z \in Lagging   -> HaltOf(z)
                  [] OTHER           -> z

\* Mutant: the NMI is raised and no routine was written.
RunNmi_NoRoutine(code) ==
  /\ z80' = IF nmi_code = "retn" THEN NmiReturn(z80) ELSE "crashed"
  /\ UNCHANGED nmi_code

\* The NMI runs whatever is at 0x4000; the menus clear those bytes again.
RunNmi(code) ==
  /\ z80' = IF code = "retn" THEN NmiReturn(z80) ELSE "crashed"
  /\ nmi_code' = IF z80 \in {"init_halt", "page_halt"} THEN "zero" ELSE code

\* What stands where a name may stand and is none.
Text(words) == Name(words, <<>>, "text")

\* The entries load_page writes: the list, or one line saying why there is none.
Entries(lst, noSd) ==
  IF lst.size > 0 THEN [k \in 1 .. lst.size |-> lst.slots[k - 1]]
  ELSE IF noSd = 1 THEN <<Text("NO SD CARD")>> ELSE <<Text("NO SUPPORTED FILES")>>

\* curr_page_file_list before its first use.
Unset == Text("unset")

-----------------------------------------------------------------------------
Empty == [size |-> 0, slots |-> [s \in Slots |-> Unset]]

Init ==
  /\ z80 = "boot" /\ page = 0 /\ index = 0 /\ loaded = Text("none")
  /\ left = 0 /\ table = <<>> /\ nmi_code = "zero"
  /\ button = FALSE /\ en = FALSE /\ reg = Cleared
  /\ fw = "boot" /\ type = "NA" /\ game = NoGame
  /\ no_sd = -1 /\ sd_empty = FALSE /\ max_page = 0 /\ curr_page = 0
  /\ list = Empty
  /\ dir \in Cards /\ adverse \in Adversity /\ resets = 0

(* The command register.  While the firmware holds cpu_cmd_ack it stays    *)
(* cleared, whatever is written to it.                                     *)
Acking == fw \in {"acking", "acking_menu"}

Issue(c) ==
  /\ UNCHANGED button
  /\ IF Acking THEN UNCHANGED <<en, reg>>
     ELSE /\ en' = TRUE
          /\ IF button THEN reg' \in StateCmds ELSE reg' = c

\* An unhurried user acts when the firmware is listening, with no command
\* before it.
UserMayAct == HastyUser \/ (fw \in {"reset", "boot", "listen"} /\ ~en /\ ~button)

PressButton ==
  /\ z80 \in ButtonWhen /\ UserMayAct /\ ~button /\ Len(dir) < MaxEntries
  /\ button' = TRUE
  /\ IF Acking THEN UNCHANGED <<en, reg>> ELSE en' = TRUE /\ reg' \in StateCmds
  /\ UNCHANGED <<z80Vars, memVars, fwVars, envVars>>

ReleaseButton ==
  /\ button /\ button' = FALSE
  /\ UNCHANGED <<z80Vars, memVars, en, reg, fwVars, envVars>>

-----------------------------------------------------------------------------
(* The Z80 *)

\* The start-up code in ROM clears all RAM; then port 0x17, and HALT.
RequestMenu ==
  /\ z80 = "boot" /\ UserMayAct
  /\ z80' = "init_cmd" /\ Issue(Cmd("INIT", "read", 0, 0))
  /\ left' = 0 /\ table' = <<>> /\ nmi_code' = "zero"
  /\ UNCHANGED <<page, index, loaded, fwVars, envVars>>

Halt ==
  /\ z80 \in Lagging /\ z80' = HaltOf(z80)
  /\ UNCHANGED <<page, index, loaded, memVars, regVars, fwVars, envVars>>

\* SD_HNDLR; the resets of page and index that SHOW_FILE_MENU does after the
\* HALT are done here, as nothing reads them in between.
SdHandler ==
  /\ z80 = "main_menu" /\ UserMayAct
  /\ z80' = "page_cmd" /\ page' = 0 /\ index' = 0
  /\ Issue(Cmd("SD", "read", 0, 0))
  /\ UNCHANGED <<loaded, memVars, fwVars, envVars>>

BasicHandler ==
  /\ z80 = "main_menu" /\ z80' = "basic" /\ nmi_code' = "video"
  /\ UNCHANGED <<page, index, loaded, left, table, regVars, fwVars, envVars>>

\* Mutant: the top entry's predecessor is not the last one.
MoveUp_NoWrap ==
  /\ z80 = "file_menu" /\ index' = index - 1
  /\ UNCHANGED <<z80, page, loaded, memVars, regVars, fwVars, envVars>>

MoveUp ==
  /\ z80 = "file_menu"
  /\ index' = IF index = 0 THEN Len(table) - 1 ELSE index - 1
  /\ UNCHANGED <<z80, page, loaded, memVars, regVars, fwVars, envVars>>

MoveDown ==
  /\ z80 = "file_menu"
  /\ index' = IF index + 1 > Len(table) - 1 THEN 0 ELSE index + 1
  /\ UNCHANGED <<z80, page, loaded, memVars, regVars, fwVars, envVars>>

\* Mutants: the old page number is sent; the highlight stays where it was.
ShowPage_OldPage(p) ==
  /\ UserMayAct
  /\ z80' = "page_cmd" /\ page' = p /\ index' = 0
  /\ Issue(Cmd("SD", "read", page, 0))
  /\ UNCHANGED <<loaded, memVars, fwVars, envVars>>

ShowPage_KeepIndex(p) ==
  /\ UserMayAct
  /\ z80' = "page_cmd" /\ page' = p
  /\ Issue(Cmd("SD", "read", p, 0))
  /\ UNCHANGED <<index, loaded, memVars, fwVars, envVars>>

\* RT_LT_HNDLR
ShowPage(p) ==
  /\ UserMayAct
  /\ z80' = "page_cmd" /\ page' = p /\ index' = 0
  /\ Issue(Cmd("SD", "read", p, 0))
  /\ UNCHANGED <<loaded, memVars, fwVars, envVars>>

Right == z80 = "file_menu" /\ left # 0 /\ ShowPage((page + 1) % ByteMod)
Left  == z80 = "file_menu" /\ page # 0 /\ ShowPage(page - 1)

\* Mutant: index and page change places.
Select_Swapped ==
  /\ z80 = "file_menu" /\ UserMayAct
  /\ z80' = "load_cmd"
  /\ Issue(Cmd("SD", "write", index, page % FilesPerPage))
  /\ UNCHANGED <<page, index, loaded, memVars, fwVars, envVars>>

\* FILE_SEL_HNDLR; get_game_num keeps the low four bits of the index.
Select ==
  /\ z80 = "file_menu" /\ UserMayAct
  /\ z80' = "load_cmd"
  /\ Issue(Cmd("SD", "write", page, index % FilesPerPage))
  /\ UNCHANGED <<page, index, loaded, memVars, fwVars, envVars>>

\* The Z80 is at address 0, and so will forget what is in RAM.
StartZ80 == /\ z80' = "boot" /\ page' = 0 /\ index' = 0 /\ loaded' = Text("none")
            /\ left' = 0 /\ table' = <<>> /\ nmi_code' = "zero"

\* A program jumps to address 0.
Reboot ==
  /\ z80 \in {"basic", "game"} /\ UserMayAct
  /\ StartZ80
  /\ UNCHANGED <<regVars, fwVars, envVars>>

Menu == SdHandler \/ BasicHandler \/ MoveUp \/ MoveDown \/ Right \/ Left \/ Select

-----------------------------------------------------------------------------
(* The firmware *)

\* listen_for_en returns: its printf takes longer than the fetch of the HALT,
\* unless it is late.
Heard == en /\ ("lag" \in Faults \/ z80 \notin Lagging)

\* write_menu, before the main loop and again from it.
WriteMenu ==
  /\ fw \in {"boot", "menu"} /\ Heard
  /\ \/ /\ reg.type = "INIT" /\ RunNmi("retn")
        /\ fw' = IF fw = "boot" THEN "ack" ELSE "ack_menu"
     \/ /\ reg.type = "INIT" /\ "dma" \in Faults /\ fw' = "ended"
        /\ UNCHANGED <<z80, nmi_code>>
     \/ /\ reg.type # "INIT" /\ UNCHANGED <<z80, nmi_code>>
        /\ fw' = IF fw = "boot" THEN "ack" ELSE "ack_menu"
  /\ UNCHANGED <<page, index, loaded, left, table, regVars, type, game, sdVars, envVars>>

\* init_SD_local, run before the first command of the main loop.
InitSd ==
  \E fail \in FailingCall :
    LET pages == num_of_pages(dir, fail)
    IN  /\ no_sd' = IF pages < 0 THEN 1 ELSE 0
        /\ max_page' = IF pages < 0 THEN 1 ELSE pages
        /\ curr_page' = 0
        /\ UNCHANGED <<sd_empty, list>>

ReadCommand ==
  /\ fw = "listen" /\ Heard
  /\ IF no_sd = -1 THEN InitSd ELSE UNCHANGED sdVars
  /\ type' = reg.type
  /\ fw' = "dispatch"
  /\ UNCHANGED <<z80Vars, memVars, regVars, game, envVars>>

\* The cases of the switch that do nothing but go to the acknowledge; the
\* direction is read again from the register here.
Ignore ==
  /\ fw = "dispatch"
  /\ \/ type = "NA"
     \/ type = "STATE" /\ reg.rw # "write"
     \/ type = "SD" /\ reg.rw = "none"
     \/ type = "SD" /\ reg.rw = "write" /\ (no_sd = 1 \/ sd_empty)
  /\ fw' = "ack"
  /\ UNCHANGED <<z80Vars, memVars, regVars, type, game, sdVars, envVars>>

ToMenu ==
  /\ fw = "dispatch" /\ type = "INIT" /\ fw' = "menu"
  /\ UNCHANGED <<z80Vars, memVars, regVars, type, game, sdVars, envVars>>

\* The pages after p, cut to the byte load_page writes.
PagesLeft(p) == (max_page - (p + 1)) % ByteMod

\* load_page.  The result of its DMA_request is not looked at: without the
\* bus its writes reach nothing, but the NMI is raised all the same.
LoadPage ==
  /\ fw = "dispatch" /\ type = "SD" /\ reg.rw = "read"
  /\ curr_page' = reg.page
  /\ IF no_sd = 1
     THEN list' = [list EXCEPT !.size = 0]
     ELSE \E fail \in FailingCall :
            list' = list_files_of_page(list, dir, reg.page, fail)
  /\ sd_empty' = IF list'.size > 0 THEN FALSE ELSE (no_sd = 0 \/ sd_empty)
  /\ \/ /\ table' = Entries(list', no_sd)
        /\ left' = PagesLeft(reg.page)
        /\ RunNmi("retn")
     \/ "dma" \in Faults /\ UNCHANGED <<table, left>> /\ RunNmi(nmi_code)
  /\ fw' = "ack"
  /\ UNCHANGED <<page, index, loaded, regVars, type, game, no_sd, max_page, envVars>>

\* What load_game keeps of the name.
Chosen(name) == [stem |-> name.stem, tags |-> name.tags]

\* load_game and load_file.  The name is kept before the file is opened.  A
\* file that cannot be opened, a bus that is not granted or an image of another
\* machine leaves the Z80 as it is; a read error ends in an NMI that just
\* returns.
LoadGame ==
  /\ fw = "dispatch" /\ type = "SD" /\ reg.rw = "write"
  /\ no_sd # 1 /\ ~sd_empty
  /\ IF reg.page < max_page /\ curr_page # reg.page
     THEN \E fail \in FailingCall :
            list' = list_files_of_page(list, dir, reg.page, fail)
     ELSE list' = list
  /\ LET name == list'.slots[reg.game]
         file == reg.page < max_page /\ name \in ToSet(dir)
     IN  /\ game' = IF reg.page < max_page THEN Chosen(name) ELSE game
         /\ \/ /\ file
               /\ loaded' = name /\ z80' = "game" /\ nmi_code' = "video"
            \/ /\ ~file \/ Faults \intersect {"open", "dma"} # {}
               /\ UNCHANGED <<loaded, z80, nmi_code>>
            \/ /\ file /\ "read" \in Faults
               /\ loaded' = Text("part") /\ z80' = "crashed" /\ nmi_code' = "retn"
  /\ fw' = "ack"
  /\ UNCHANGED <<page, index, left, table, regVars, type,
                 no_sd, sd_empty, max_page, curr_page, envVars>>

\* FA_CREATE_ALWAYS: a file of that name is replaced; a new one is the last of
\* the directory.
Create(d, name) == IF name \in ToSet(d) THEN d ELSE Append(d, name)

\* save_state: the Z80 goes on as after any NMI, the video memory restored;
\* after the first HALT there is no menu code yet to go on with.  The Z80
\* stays off the bus when the file cannot be created, and the next save state
\* resumes it inside the routine.
SaveState ==
  /\ fw = "dispatch" /\ type = "STATE" /\ reg.rw = "write"
  /\ game' = WithoutTag(game)
  /\ \/ /\ z80' = IF z80 \in {"stopped", "init_halt"} THEN "crashed"
                  ELSE NmiReturn(z80)
        /\ nmi_code' = IF z80 = "page_halt" THEN "zero" ELSE nmi_code
        /\ \E fail \in FailingCall : dir' = Create(dir, SaveName(game, dir, fail))
     \/ "dma" \in Faults /\ UNCHANGED <<z80, nmi_code, dir>>
     \/ "create" \in Faults /\ z80' = "stopped" /\ UNCHANGED <<nmi_code, dir>>
  /\ fw' = "ack"
  /\ UNCHANGED <<page, index, loaded, left, table, regVars, type, sdVars,
                 adverse, resets>>

\* per_cmd_ack: cpu_cmd_ack is held for a millisecond.  write_menu, called
\* from the main loop, has one of its own.  An unhurried user's button is up
\* by then: a save state takes seconds.
AckSet ==
  /\ fw \in {"ack", "ack_menu"} /\ (HastyUser \/ ~button)
  /\ fw' = IF fw = "ack" THEN "acking" ELSE "acking_menu"
  /\ en' = FALSE /\ reg' = Cleared
  /\ UNCHANGED <<z80Vars, memVars, button, type, game, sdVars, envVars>>

AckClear ==
  /\ Acking
  /\ fw' = IF fw = "acking" THEN "listen" ELSE "ack"
  /\ IF button THEN en' = TRUE /\ reg' \in StateCmds ELSE UNCHANGED <<en, reg>>
  /\ UNCHANGED <<z80Vars, memVars, button, type, game, sdVars, envVars>>

Firmware == WriteMenu \/ ReadCommand \/ Ignore \/ ToMenu \/ LoadPage
            \/ LoadGame \/ SaveState \/ AckSet \/ AckClear

-----------------------------------------------------------------------------
(***************************************************************************)
(* KEY0, which top.vhd's counter passes on to one part after the other:    *)
(* the firmware starts again with all its variables, and the command       *)
(* register is cleared; the Z80 goes on for a while, in which it may leave *)
(* a command for the new firmware, before it is reset itself.              *)
(***************************************************************************)
ResetNios ==
  /\ fw # "reset" /\ resets < MaxResets
  /\ fw' = "reset" /\ type' = "NA" /\ game' = NoGame
  /\ no_sd' = -1 /\ sd_empty' = FALSE /\ max_page' = 0 /\ curr_page' = 0
  /\ list' = Empty
  /\ en' = FALSE /\ reg' = Cleared
  /\ resets' = resets + 1
  /\ UNCHANGED <<z80Vars, memVars, button, dir, adverse>>

\* Mutant: the Z80 is not reset with the rest.
ResetZ80_Missing ==
  /\ fw = "reset" /\ fw' = "boot"
  /\ UNCHANGED <<z80Vars, memVars, regVars, type, game, sdVars, envVars>>

ResetZ80 ==
  /\ fw = "reset" /\ fw' = "boot"
  /\ StartZ80
  /\ UNCHANGED <<regVars, type, game, sdVars, envVars>>

Next == PressButton \/ ReleaseButton \/ RequestMenu \/ Halt \/ Menu \/ Reboot
        \/ Firmware \/ ResetNios \/ ResetZ80

Spec == Init /\ [][Next]_vars

\* The firmware and the Z80's start-up run by themselves; keys and the button
\* are pressed when somebody likes, but a button does not stay down.
Fairness == /\ WF_vars(Firmware) /\ WF_vars(Halt) /\ WF_vars(RequestMenu)
            /\ WF_vars(ReleaseButton) /\ WF_vars(ResetZ80)

FairSpec == Spec /\ Fairness

-----------------------------------------------------------------------------
(* Types of all variables. *)
Slot == FileName \union {Unset}

TypeOK ==
  /\ z80 \in Phases
  /\ page \in 0 .. ByteMod - 1 /\ left \in 0 .. ByteMod - 1
  /\ index \in Nat
  /\ table \in Seq(FileName \union {Text("NO SD CARD"), Text("NO SUPPORTED FILES")})
  /\ nmi_code \in {"zero", "retn", "video"}
  /\ loaded \in FileName \union {Text("none"), Text("part")}
  /\ button \in BOOLEAN /\ en \in BOOLEAN
  /\ reg \in [type : {"NA", "INIT", "STATE", "SD"}, rw : {"none", "read", "write"},
              page : 0 .. ByteMod - 1, game : Slots]
  /\ fw \in {"boot", "listen", "dispatch", "menu", "ack", "acking", "ack_menu",
             "acking_menu", "ended", "reset"}
  /\ type \in {"NA", "INIT", "STATE", "SD"}
  /\ no_sd \in {-1, 0, 1} /\ sd_empty \in BOOLEAN
  /\ max_page \in Nat /\ curr_page \in 0 .. ByteMod - 1
  /\ list \in [size : 0 .. FilesPerPage, slots : [Slots -> Slot]]
  /\ game \in [stem : DOMAIN StemLength, tags : Seq(Int)] \union {NoGame}
  /\ dir \in Seq(FileName) /\ IsInjective(dir)
  /\ adverse \in BOOLEAN /\ resets \in 0 .. MaxResets

(***************************************************************************)
(* As long as nothing fails, a page that comes up on the menu has the      *)
(* files of the page the Z80 counts as its own, or says that there are     *)
(* none, and the count of pages left that stops RT_HNDLR fits it: the      *)
(* Z80's page number, the command register, the two loops that list the    *)
(* card, and the card agree (RT_LT_HNDLR, load_page, list_files_of_page).  *)
(***************************************************************************)
PageShownIsRequested ==
  [][ ~adverse /\ z80 = "page_halt" /\ z80' = "file_menu" =>
        /\ table' = IF no_sd' = 1 THEN <<Text("NO SD CARD")>>
                    ELSE IF PageFiles(dir, page) = <<>>
                    THEN <<Text("NO SUPPORTED FILES")>>
                    ELSE PageFiles(dir, page)
        /\ left' = max_page' - 1 - page' ]_vars

(***************************************************************************)
(* The highlighted entry is one of the table's, whatever the last listing  *)
(* did: FILE_SEL_HNDLR sends it unchecked.                                 *)
(***************************************************************************)
IndexInTable ==
  z80 \in {"file_menu", "load_cmd", "load_halt"} => index < Len(table)

(***************************************************************************)
(* A file that is loaded is the one whose name is highlighted on the       *)
(* screen, though the firmware takes it from a list of its own that the    *)
(* failed listings may have half overwritten (load_game).                  *)
(***************************************************************************)
SelectionHonoured ==
  [][ loaded' \notin {loaded, Text("part"), Text("none")} =>
        loaded' = table[index + 1] ]_vars

(***************************************************************************)
(* A save state does not replace a file of the card, unless the numbers    *)
(* of its game have come to their end, or are those a failed search and    *)
(* what was loaded since have left, or its name is so long that the search *)
(* for the last number does not see it (get_save_num, save_state).         *)
(***************************************************************************)
SaveNameIsNew ==
  SaveName(game, dir, 0) \in ToSet(dir) =>
    \/ Max(OwnNum(game) \union SaveNums(dir, WithoutTag(game))) \notin -1 .. MaxSaveNum - 1
    \/ ~is_supported_file(SaveName(game, dir, 0))

(***************************************************************************)
(* As long as nothing fails, the NMI always finds a routine at 0x4000, and *)
(* a Z80 that is waiting where it can go on: nothing runs astray           *)
(* (load_page, write_menu).                                                *)
(***************************************************************************)
NoCrash == ~adverse => z80 \notin {"crashed", "stopped"}

(***************************************************************************)
(* "Resetting the register after the command saved in it is processed by   *)
(* NIOS" (top.vhd:742): no Z80 is left in its HALT with its command gone   *)
(* and the firmware listening for another.                                 *)
(***************************************************************************)
AckedIsProcessed ==
  ~(z80 \in {"init_halt", "page_halt"} /\ fw = "listen" /\ ~en)

(***************************************************************************)
(* As long as nothing fails, both HALTs the Z80 waits in for the firmware  *)
(* are answered: the start-up code gets its menu, also when KEY0 was       *)
(* pressed in the middle of something else, and the file menu its page,    *)
(* unless KEY0 is pressed first (MENU, RT_LT_HNDLR).                       *)
(***************************************************************************)
HaltsAnswered ==
  /\ ~adverse /\ z80 = "boot" ~> z80 = "main_menu"
  /\ ~adverse /\ z80 = "page_cmd" ~> z80 \in {"file_menu", "boot"}

(***************************************************************************)
(* As long as nothing fails, the game that is selected from a card that    *)
(* has one is started, unless KEY0 is pressed first (load_game).           *)
(***************************************************************************)
GameStarts ==
  ~adverse /\ z80 = "load_cmd" /\ no_sd = 0 /\ ~sd_empty ~> z80 \in {"game", "boot"}
=============================================================================
