# ZX-Fusion: a formal model

ZX-Fusion is a ZX Spectrum 48k on a DE2-115 board. A Z80 core (T80) runs the Spectrum's
ROM, or menus of its own, and a NIOS II processor beside it reads an SD card, loads
`.sna` and `.z80` snapshots into the Spectrum's memory and takes save states. The two
share the memory by bus requests (DMA), a command register and the Z80's NMI.

This directory has TLA+ modules of that interplay, TLC configurations that check them on
small instances, and TLAPS proofs of what must hold for all sizes. Paths below are under
`src/`; `M/` stands for `src/project/Software/memory_manipulator/`.

To check: `tlc -config X.cfg Module` for a run, `tlapm Module_proofs.tla` for proofs.
`PROJECT.json` lists runs, mutants, hazards, theorems, and for every definition the
lines of the source it stands for.

## Inventory

| Part | Source | State | Operations | Correct when |
|---|---|---|---|---|
| DMA layer | `M/spectrum_control_IFs/DMA/dma_hal.c`, `dma_hw.h` | `DMA_state`, the pins of the PIO ports | `DMA_request`, `DMA_stop`, `DMA_stop_w_interrupt`, memory and I/O cycles | no strobe while the Z80 drives the buses; the record fits the line; each NMI is seen once |
| NMI latch, bus lines | `project/top.vhd` 560-700 | `cpu_nmi` | set by NIOS, reset by the opcode fetch at 0x66 | an edge for every pulse |
| Command register | `project/nios_per_reg.vhd`, `project/top.vhd` 730-768, `M/.../per_hal.c` | enable flag and 16 bits | written by IN/OUT of the Z80 and by KEY3, polled and acknowledged by NIOS | no command lost, none handled twice |
| Main loop | `M/main.c` | `no_sd`, `sd_empty`, `max_page`, `curr_page`, the list of names | `write_menu`, `load_page`, `load_game`, `save_state`, `init_SD_local` | what is loaded is what was highlighted; each HALT is answered |
| Z80 menus | `z80-menu-roms/*.asm` | page 0xEC0B, index 0xEC0C, pages left 0xEC09, table 0xC000 | keys, page changes, selection, HALT | index and page stay in range |
| SD listing | `M/SD/sd_if.c` | the card's directory | `num_of_pages`, `list_files_of_page`, `get_save_num` | a page shown is the page asked for; no save state replaces a file |
| Save states, hand-over | `M/file_reader/formats.c`, `file_format_aux.c`, `mem_addrs.h` | the video memory at 0x4000 and its copies, the program's stack | `save_SNA`, the ends of `load_SNA` and `load_z80`, the injected SAVE and LOAD routines | the program goes on with its registers and memory |
| `.z80` reader | `M/file_reader/formats.c` 402-920 | decoder state, block counters | `load_z80`, `load_compressed_data_block_z80` | every page at its address, byte for byte |
| Memory map | `project/top.vhd` 1050-1154 | none (combinational) | decoding of ROM, RAM, ports | one driver per access, one cell per address |
| Resets | `project/top.vhd` 985-1010, `reset_counter.vhd`, `reset_audio_ctr.vhd` | counters | hold NIOS, Z80 and codec in reset, in this order | both processors start afresh from anywhere |
| Keyboard | `project/keyboard/*.vhd` | key matrix, prefix and modifier flags, LED state | PS/2 scan codes, LED commands | a released key is released, in whatever order |
| Joystick | `project/joystick/*.vhd` | shift register | NES serial protocol, Kempston port | the buttons read are those held |
| ULA | `project/ula/ula_count.vhd` | raster and flash counters, two latches, the Z80's clock | counting, interrupt, contention | the picture and the interrupt have their length; an access is held up once and not for long |
| Video | `project/video/data_interpreter.vhd` | none but the pixel being read | addresses from beam coordinates | every pixel has its bit, every cell its colour |
| Audio, 7-segment, VGA timing | `project/audio`, `7seg`, `video/vga_controller.vhd` | sample and position counters | data paths | - |
| T80, FatFs, terasic_lib, board support | vendored | - | - | used, not verified |

How they meet: the Z80 writes a command (IN or OUT) and HALTs; NIOS sees it by polling
(`listen_for_en`), reads its type, takes the bus (`DMA_request`), writes memory, writes a
routine to 0x4000, and gives the bus back together with an NMI
(`DMA_stop_w_interrupt`), which runs the routine; then it acknowledges the command
(`per_cmd_ack`), which clears the register.

What is hard: two processors without a common clock and without interrupts between
them; polls with bounded tries whose results are partly ignored; commands overwritten
by a push-button; a routine that overwrites itself while it runs and is overwritten by
the other processor when a bus address seems to show that it is done; a reset of both at any
of these places; a decoder that carries its state over the pieces, pages and files it is
fed; a clock that is stopped by gates it is itself an input of. Every place of this kind
is in `PROJECT.json` under `hazards`, with the properties that would catch it going wrong; where
the timing or the user a property assumes keeps a hazard away, its note says so instead.

## Modules

**`DmaHal`** (with the abstract **`BusLease`** and **`DmaHal_proofs`**): one action for each
access of `dma_hal.c` to a pin, interleaved with the Z80's clock (`MidCycle`, `GrantBus`,
`NextCycle`, `NextInstruction`, `PrefixedFetch`; T80.vhd 1209-1283). The callers are the
handlers' DMA sessions: `Accepts(c)` says which results of `DMA_request` a session goes on
with, `EndsInStop`/`EndsInNmi` how it ends. `slow`, chosen at the start, says which of the
loops of `DMA_request` and `DMA_stop` the Z80 may outlast; what needs that stops are answered
in time says so (`"stop" \notin slow`). `BusLease` is what the layer promises, two owners and cycles inside an ownership;
`LeaseRefinement` shows that the sessions which look at the result implement it. KEY0 may be
pressed at any step: `ResetNios` takes the firmware's outputs back at once, `ResetZ80` comes
some Z80 clocks later (top.vhd 995-1007), and the NMI latch, which has no reset, keeps what it has.

**`SdCard`**: what `sd_if.c` makes of a directory that it reads from the beginning each time:
`num_of_pages`, `list_files_of_page` with its two loops (an error in the second leaves the old
size over half-new names), `get_save_num` and the name of the next save state. A name is a stem,
the two-character tags behind it and a kind; `fail` is the number of the one call of FatFs that
returns an error. Operators only; `SdLoader` extends it.

**`SdLoader`** (instance **`MCSdLoader`**, with **`SdLoader_proofs`**): the Z80's menus, the command register, the push-
button, the main loop with all its handlers, and the card, to which save states add files.
A DMA session with its NMI is one step (`DmaHal` has it in detail). `adverse`, chosen at the
start from `Adversity`, says whether what `MayFail` lists does happen: bus requests, listings,
opening, reading and creating files that fail, and `"lag"`, an NMI between IN and HALT.
`HastyUser` lets keys be pressed while the firmware is busy, `ButtonWhen` says where KEY3 may be
pressed. KEY0 (`ResetNios`, `ResetZ80`) comes at any step: the firmware starts at the first
line of `main` with its variables cleared, the Z80 at its start-up code, while the card, the memory
and a command the Z80 leaves in between are what they were.

**`SaveState`** (with **`SaveState_proofs`**): `save_SNA` and the end of the loads. The injected routines
are sequences of instructions, each with the bytes it is fetched from and stores in; the bytes at 0x4000 are tagged with what they are, so
that a store into a routine, or a restore under it, that reaches an instruction
before it is fetched makes the Z80 run astray (`RunAstray`). `adverse` is chosen at the
start: when it is FALSE the firmware's `printf`s outlast the SAVE routine, the polls of
`wait_until_routine_ends` outlast the LOAD routine and do not see its end on the last of them, and
calls succeed; when it is TRUE nothing is known. Then the third session, which puts the video memory back, may
not take place (`NotPutBack`): a high address on the last poll counts as a timeout
(dma_hal.c:168-171), and the third `DMA_request` may time out without anybody reading its
result (formats.c:388, 205, 908), so that the writes reach no memory (a grant that comes late lasts
a clock or two, a write 100 us: the first byte at most, which the model leaves out). `DMA_stop`
behind it may time out as well and leaves the Z80 stopped (`PutBack`, `PutBackLoaded`), until the
next save state, which starts wherever that was. `put_back` is a history variable: no put-back
has failed since the program was loaded. A `DMA_request` at the start of `save_SNA` that times out
changes nothing and is no step. Properties say which of all this they need.

**`RoutineStack`** (with **`RoutineStack_proofs`**): the stack pointer from the file to the Z80. The firmware keeps it byte-
swapped and subtracts `n << 8`; `AddToStack` writes AF', AF and PC below the program's stack,
the LOAD routine's LD SP, POPs and RETN take them back. Bytes of memory are tagged.

**`Z80Rle`** (with **`Z80Rle_proofs`**): the five-state decoder `load_compressed_data_block_z80`, fed with every encoding
of a page that the format allows (`Literal`, `Run`, `EndTag`: the format is external), two
pages and two files in a row. `fresh` records whether a page began with the decoder holding
nothing back: what it holds crosses pages and files, which `rle_next_page` is about.

**`Z80Blocks`** (with **`Z80Blocks_proofs`**): `load_z80`'s loop over 256-byte pieces of the
file: the first header, a header cut by the end of a piece, the data of a block, the rest of
a piece behind a new header. A byte is its position in the file; `begin` and `end` are where
the file really has the block, and become known with its header.

**`Keyboard`** (instance **`MCKeyboard`**, with **`Keyboard_proofs`**): the process of `input_receiver.vhd` that turns scan
codes into the matrix of 40 keys. `Combination` is its case statements: the Spectrum keys a
code stands for with SHIFT, ALT GR and Num Lock, a Spectrum key being a bit of a half row.
`Receive` is one received byte, with the E0 and F0 prefixes. The keyboard (`Press`, `Repeat`,
`LetGo`) is external. `Habits` names what people do that the code does not expect: hold a
modifier until it repeats, hold two modifiers, toggle Num Lock or reset with a key down.

**`Ula`** (with the abstract **`Raster`**, instance **`MCUla`**, and **`Fpga_proofs`**): a step is a
period of the 7 MHz clock. The counters are cascaded as in `ula_count.vhd` (`Counted`: c0-c3 count
together, c4 and c5 are clocked by what falls below them, c5 clocks c6-c8 and v, v8 the flash
counter). The Z80's clock is low when c0, or a contention that it is itself an input of,
says so: where an input changes at the same edge as the clock would rise (`Glitch`), either
may win, so `Rise` and `Hold` are both possible. The Z80 runs any sequence of T80a's bus cycles at
any addresses; in a DMA session (`DmaChanges`) anything may be on the buses at any edge.
`Raster` is what the counters are for: 448 by 312 and a count of pictures.

**`MemoryMap`** and **`ScreenLayout`** (with **`Fpga_proofs`**) have no state: the signals of
top.vhd's address decoder, and of `data_interpreter.vhd`'s address generator, as functions of
what is on the buses and of the beam's coordinates. There is nothing for TLC to step through;
the theorems are about all addresses and all positions.

What one action stands for: in `DmaHal` one access to a pin, in `SdLoader` one handler,
in `SaveState` one instruction or what the firmware does between two waits, in `Z80Rle` one
byte, in `Z80Blocks` one part of the loop's body, in `Keyboard` one byte from the keyboard, in
`Ula` a period of the pixel clock. Nothing in the code preempts NIOS (it takes no interrupts for
these devices), so a handler's steps interleave with the Z80's only, and where the Z80 is off
the bus or in HALT, not at all.

## Runs

| Run | Asks |
|---|---|
| `dma` | whichever loops may time out, and with KEY0 at any step: are checked sessions safe, do they implement the lease, do handlers return? With stops answered: record, NMI edge, NMI service. Deadlock is checked. |
| `loader` | a card that works: right page, right game, all HALTs answered, no NMI astray, across a reset; a card and a bus that fail: index in range, selection honoured; both: no save state over a file |
| `save` | SAVE and LOAD routines against the firmware's writes: with good timing, does the Z80 stay in them, is the header the program's, does the program go on; with bad timing and calls that fail, what has a program that goes on? |
| `routine_stack` | additions, LD SP and POPs agree for every pointer that needs no borrow |
| `rle_decodes` | every encoding of every page up to five bytes decodes to itself when it begins with nothing held back, and a complete page hands nothing over |
| `z80_blocks` | blocks and headers cut anywhere |
| `keyboard` | keys and modifiers in every order, three held at a time: flags follow the modifiers, no key stays down. Deadlock is checked. |
| `ula` | do the flip-flops count the picture; is the interrupt long enough; is an access held up once, and for how long, whatever is on the buses |
| `loader_ack`, `rle_next_page`, `stack_borrow`, `keyboard_repeat` | disagreements, below |

Every property of a passing run has a mutant in `PROJECT.json`: a change of the kind a bug
would make, with which TLC finds the property violated.

### Bounds

- `DmaHal`: 2 polls of a request, 3 of a stop instead of 10 (100). A poll either sees the
  answer or not; a second one is needed for an answer between polls, a third adds
  nothing but length. The proofs hold for any number.
- `SdLoader`: pages of 2 files instead of 16, bytes of 4 values instead of 256, save states
  numbered 0 and 1. The cards (`MCCards`): no file; no supported file; one full page, with and
  without room for a save state that begins no page; a save state; a name that looks like one;
  a name too long for its save states; a game whose save states have negative numbers; three pages, the last one half full, an unsupported file
  first. The button is pressed up to `MaxEntries` = 3 files, KEY0 once (`MaxResets`): a second
  reset starts from states the first one reaches. Pages stay below `ByteMod`: more than 256
  would wrap the Z80's page byte.
- `SaveState`: no bound; the routines have their real lengths.
- `RoutineStack`: 16-valued bytes, a 256-byte memory, every pointer whose stack fits in RAM.
- `Z80Rle`: four byte values with ED the largest, pages up to 5 bytes, two pages, two files:
  enough for a zero, a double ED, a run of them and the end tag in one page.
- `Z80Blocks`: pieces of 8 bytes, headers of 3, blocks of 5 to 14 bytes, where 5 + 3 = 8 is the
  least the code allows (260 + 3 >= 256 in the code: 16384 equal bytes take 65 runs of 4).
  The proofs hold for all sizes with `MinBlock + DATA_BLOCK_HEADER_SIZE >= ChunkSize`.
- `Ula`: `MCStarts` follows one whole picture and a line more with the buses quiet, the end of the
  picture from each flash count, and two lines each around the first and last line of the screen
  and the interrupt with the buses in use. Lines of the screen differ in nothing the
  contention looks at; the proofs hold for any number of lines from any start.
- `Keyboard`: one key of each kind (plain, combination, different with a modifier, number pad,
  cursor, Spectrum shift, the three modifiers, Num Lock), three of them held at a time: two
  keys that share a Spectrum key and a modifier. What a key sends is received before the
  next one moves, as bytes arrive a thousand times slower than the receiver's clock.

`CHECK_DEADLOCK FALSE` is set where the system stops: a file has been read, the lines to
follow are over, the firmware's `main` has returned, or the Z80 runs a game or astray with nobody to press a key.

### Fairness

NIOS runs one thread that nothing blocks: weak fairness of its steps. Its transfers have a
fixed length, so a session that may end again and again ends (`SF(LeaveOwn)`). The Z80's clock
may stretch but does not stop, and an instruction has finitely many machine cycles:
weak fairness of each kind of clock, strong of `NextInstruction`. The reset counter runs out
(`WF(ResetZ80)`). In `SdLoader` the Z80 takes its start-up steps and goes from a command to its HALT;
no key is ever fair, but a button that is down comes up. In `SaveState` the firmware and the Z80
take their next step. `Ula`, the decoders, the stack and the keyboard have safety properties only.

### Disagreements the runs show

- `loader_ack` (`AckedIsProcessed`): the acknowledge clears whatever the register holds. The Z80
  is awake before it, so a command issued in between is cleared unread and its HALT lasts
  (top.vhd:742 says the command saved in it has been processed).
- `rle_next_page` (`PageIsWritten`): a zero or ED held back at the end of a page is written
  at the beginning of the next one, since `addr` has moved on (formats.c:529-530, 813).
  `zero_detected` outlives the end tag of a version 1 file likewise (formats.c:508, 589), and
  the next file gets a zero it does not have before its first ED.
- `stack_borrow` (`SizeSubtracted`): the size is subtracted from a byte-swapped pointer
  (file_format_aux.c:167): no borrow, so that a pointer ending in 00 to 05 ends 256 too high.
- `keyboard_repeat` (`ShiftGoesWithKey`): the code of the right SHIFT that comes to "register
  letting go of SHIFT" (input_receiver.vhd:426) is not looked at for F0. A SHIFT held until the
  keyboard repeats it is taken for let go, all rows are cleared, and each further repeat
  turns it over.

Met while modelling and not run, because each restates a line of the code:
`save_SNA` listens for a command that is still the button's own (formats.c:292, 300);
`wait_until_routine_ends` accepts any high address, the first one unread, and answers 0 when
its tries run out (dma_hal.c:168, formats.c:200); the repository's README says that after the routine NIOS
writes the original video data (README.md:204), which it does not when the end of the routine is
seen on the last poll (dma_hal.c:171) or the third `DMA_request` times out unread (formats.c:388, 205,
908): the program goes on over the routine's bytes, the next save state takes them for the
program's, and `ResumesUnchanged` claims the video memory only while `put_back` is true; the bytes the
NMI pushes at the end of the pixels are not put back by `save_SNA` at all (formats.c:391); a save state whose
command overrides a page request leaves `curr_page` behind the Z80's page (main.c:304);
`max_page` is counted once and save states add files, so that one that begins a page is
beyond RT_HNDLR until a reset (main.c:137); `get_save_num` reads a tag of letters as a number
beyond 99 (GAME_II), so that every save state of that game is number 0 and replaces the last; it
does not see save states whose names are longer than `is_supported_file` allows (games of 25
to 27 characters); and when it fails it returns -1, which `save_state` prints into the name
(main.c:183): `_-1` reads back as -29, the save state of that game as number -28, `_-2`, and
the next one as -27, which is cut to `_-2` again and replaces it. `SaveNameIsNew` excepts these; `get_addr_from_page` and
`get_data_offset` return -1 as an unsigned value that is compared with -1, so that the tests
at formats.c:703, 732, 757 and 815 never fire; a block length of 0xFFFF (not compressed) is
taken for 65535; after a read error `load_z80` starts what it has (formats.c:844); KEY0 in the
middle of a save state leaves a file that is not whole (formats.c:324); the LEDs' state machine
of the keyboard waits for `PS2_COMMAND_ACK` only and stands still after `PS2_COMMAND_ERR`
(input_receiver.vhd:113); an interrupt the ULA asks for during a DMA session is lost.
`Keyboard` with other habits: with `"overlap"` or `"reset"` `ModifiersFollowKeys` fails (ALT GR
pressed under SHIFT is ignored, and sets `alt` for good when it is let go after SHIFT;
a reset clears the flag of a SHIFT that is held, whose release sets it), with `"toggle"`
`NoGhostKey` does (a number pad key held over Num Lock leaves its digit down).

## Proofs

Nothing is assumed but the named assumptions on constants in the modules; all steps are
checked by tlapm with Z3, Zenon and LS4.

**`DmaHal_proofs`**, for all `RequestTries`, `StopTries` and `slow`: `TypeCorrect`,
`BusInvariant`, `CheckedCyclesOwn`, `HeldIsRequested`, `StoppedAfterFailure`, `RecordIsLine`, `NmiIsRearmed`,
`LeaseImplemented`. `CheckedCyclesOwnBus` is not inductive: that a session owns the bus in its
cycles follows from how it got it. `IInv` adds, for each place in the HAL, how request, sample and
grant stand (`Agreement`: after a successful poll all three are on until `DMA_stop` takes the
request back; between sessions of one handler all are off), that strobes are on only inside
a cycle (`Strobing`), and that `DMA_state` is 1 only while the bus is asked for (`Record`).
What handlers leave to each other is a second invariant, `LeftBehind`, on top of it: a session
records the bus it holds and no other, and only the button's handler starts on a held bus.
`Rearmed`, on top of both, follows the latch from the end of a pulse to the next session that
gives one. `LeaseImplemented` maps each step to a step of `BusLease` or a stutter; beside `IInv` it
needs that the strobes in a cycle are those of one kind (`KnownStrobes`, inductive with
`IInv`) and that no two kinds share theirs.

**`Z80Blocks_proofs`**, for all sizes within the module's assumptions: `BlocksInvariant`,
`TypeCorrect`, `InOrder`, `Complete`. What the code keeps between pieces is three numbers and a
partial header; the invariant `Inv` says for each step of the loop which place of the file
they describe: `InBlock(p)`, position p is in a block's data and `data_block_size` of it are left,
or `InHeader(p)`, p is behind the first bytes of the next header and `block_header` has them. It
also has that the file is well-formed up to the block in progress (`FileInv`), and what the
piece has (`PieceInv`). The assumption `MinBlockAssumption` is used in one step, `NewHeaderStep`:
there the code decodes all the piece has left without a look at the block's length.
The assumptions on sizes are those of the `.z80` format and of the code's constants.

**`Z80Rle_proofs`**, for any `MaxByte`, any `ED` but 0 and pages and files of any length and number:
`DecoderInvariant`, `TypeCorrect`, `NoByteLost`, `EndTagRecognised`, `CarriesHeldOnly`. `NothingLost` is about
the places between two tokens; `IInv` extends it into them: what is written, what the state
holds back and what is left of the token are the data (`Lit`, and `Run4` to `Run1` for the four
bytes of a run), or, in an end tag, all is written but at most its own zero (`InTag`). One lemma
per place and state shows that `Decode` leads to the next one. No induction over the data is
needed: the invariant carries the data read so far.

**`RoutineStack_proofs`**, for any `ByteMod` above 6 and any `RamBase`: `StackInvariant`, `TypeCorrect`,
`ProgramIsRestored`, `ProgramIsKept`. `NoBorrow` is that the pointer's low byte is not below what is
subtracted; from it the lemmas on `reverse_16` and `Less` give the plain difference, and the
invariant `Progress` says for each instruction of the LOAD routine which words are popped and
where the next one is. That no file has another pointer is not claimed: `stack_borrow` shows one.

**`Keyboard_proofs`**, for any set of keys, any `MaxHeld`, and `Habits` = {}: `KeyboardInvariant`, `TypeCorrect`,
`NoKeyStaysDown`, `FlagsFollowModifiers`. The properties hold when no byte is under way; `IInv` adds
what holds while the bytes of one key are (`Making`, `Breaking`: the prefix flags are those
of the bytes received, and the flags and rows those of the keys held before), and `Settled`:
the flags are the modifiers', and without one every Spectrum key that is down is one a held
key stands for. With a habit the properties are false (see above), so the assumption is needed.

**`Fpga_proofs`**, of `Ula`, for all `Starts`: `UlaInvariant`, `TypeCorrect`, `HeldOnce`, `HeldBriefly`, `InterruptKept`,
`RasterCounted`. `AccessHeldOnce` needs to know what the latches know: `IInv` has that the Z80's clock is
c0's but where it is held (`ClockFollows`), that it has been held no longer than c2 or c3 has been
on, and inside the screen (`HeldWaits`), and that the latches are MREQ and IORQ as they were when the clock was
last high (`LatchesFollow`). `RasterCounted` is the refinement: a case for each flip-flop that
does not toggle, and the arithmetic of 64 * hi + 32 * c5 + 16 * c4 + lo.
Of `MemoryMap`, for all 65536 addresses, `OneChip`, `OnePort`, `CellInChip`, where `Partition`
turns the gates on single address lines into comparisons of addresses, one power of two at a time;
of `ScreenLayout`, for all coordinates and the three sizes, `InsideMemory`, `OneBitPerPixel`,
`ColourOfCell`, `ReadAhead`, from the bounds of the fields.

**`SdLoader_proofs`**, for any set of cards, any page size, byte size, number of save states and
resets, and any of the faults: `LoaderInvariant`, `TypeCorrect`, `NothingCrashes`, `HighlightInTable`,
`LoadsTheHighlighted`, `SavesAreNew`, all under `CalmUser` (keys wait for the firmware, and the save-
state button is pressed where a program or a menu runs: with a hasty user the register is
overwritten, see `loader_ack`). The properties speak of the Z80's half of a command and of
the firmware's; what connects them is in `IInv`: `Commands`, a pending command says where the Z80 is and
which page and entry it is on; `Routine`, a RETN is left at 0x4000 only under a Z80 that
clears it or that nothing will wake, so that a `load_page` without the bus never comes to the
file menu with the table of another page; `Shown`, the table is that of `curr_page_file_list`; and `Control`
and `TopFirst`. The list is a list of names up to its size after any failure (`ListType`).
`PagesInvariant` and `ShowsTheRequested` need `CardsFit` too, no more entries than 256 pages have: `Paged`
adds that `max_page` pages begin on the card, also after save states, and that the Z80's page is one of
them, so that neither the byte of pages left nor the Z80's page number wraps. What the listings
compute (`ListIsPage`, `EntriesArePage`, `HighestNum`, `NewSaveName`) is proved for directories of
any length. `Supported` is a recursive function; the induction over its entries is on sets of
naturals, from the library's theorem that every such set has a least element
(`LeastNatural`, `SetInduction`): no operator has to be instantiated.
The second exception of `SaveNameIsNew` was found by this proof.

**`SaveState_proofs`**, for any `Surroundings`: `SaveStateInvariant`, `TypeCorrect`, `StaysOnCourse`,
`SnapshotIsProgram`, `GoesOnUnchanged`. The last one needs no good timing, so the invariant has to follow
a save that is broken off, or whose end leaves the bus held: a second one then starts in a Z80 that is in a HALT, or
in a routine, or astray, and copies a video memory that has been written over. What tells such a
save from a sound one is the program's stack. `Pushed` says which words are on it at each instruction if the routine was entered
from the program, and that they are out of order, for good, from the first PUSH of a routine
that was not; `Sound` names the saves whose words are in order, and `Kept` that the copy of these is the
program's. A put-back that fails leaves a LOAD routine that a pending NMI may still enter: `Memory`
has that the routine is there whole or not at all (`LoadWhole`, `LoadGone`), and that it stays only
where `put_back` is false; `OwnBytes` is what is true of the program's video memory, and of
the copies later saves make of it, in either case. `Stored` is the SAVE routine half way: each instruction that is done has its register in
its bytes, all others are still code. It rests on the listing alone (`Instructions`, `Reads`): no two
instructions store in the same byte, and none stores in what is fetched after it.

Model-checked only: everything temporal under fairness (`NmiServiced`, `HandlersReturn`,
`HaltsAnswered`, `GameStarts`, `ProgramGoesOn`), and the four disagreements.

## Order of the work

`DmaHal` and `BusLease` came first, as everything the two processors do passes through them; then
`SdLoader`, which takes their sessions as steps; `SaveState`, `RoutineStack`, `Z80Rle` and `Z80Blocks` for
what is loaded and saved; `Keyboard`; `SdCard` under `SdLoader`, and the resets in both; `Ula` with
`Raster`; `MemoryMap` and `ScreenLayout`. What would come next: the LEDs' state machine of the
keyboard against `PS2_Controller`, the gamepad's shift register against a gamepad, and the
wait of `wait_until_routine_ends` inside `DmaHal`.

## Not modelled, and why

- The sound path, the codec's set-up (vendor code) and the seven-segment animation: data paths
  and free-running counters, on which nothing else depends. `ula_port.vhd` is the last byte
  written to a port. The VGA timing is two counters of fixed lengths.
- The joystick: `nes_gamepad.vhd` stores bits by their place in a count; which button a bit is
  depends on the timing of a gamepad no file of the repository describes.
- FatFs, the board libraries, PS2_Controller (third party): what the code sees of
  them is in the models, an error at any call included. The T80 only by its bus cycles and its
  answers to BUSRQ and NMI; its instructions only where a routine is injected.
- The registers of a snapshot that pass through unchanged (one value); what is in a file
  beyond its blocks; what is drawn on the screen.
- Glitches of the asynchronous NMI latch in top.vhd; of the ULA, the reset of its latches, its
  test inputs, and the interrupt-acknowledge cycle, which comes in the lower border, where
  nothing holds the clock.
- The reset counters: wizard-generated, they end each reset by the clock; their order is
  what `ResetNios` and `ResetZ80` take from them.
- The floating bus of top.vhd, which answers ports nobody else does.
