----------------------------- MODULE MemoryMap -----------------------------
(***************************************************************************)
(* How top.vhd turns an address on the ZX Spectrum's buses into a chip and *)
(* a place in it: gates on the address lines say who is enabled, and a     *)
(* subtraction and a cut to the chip's address lines where.  There is no   *)
(* state: the definitions are what the signals are, of what is on the      *)
(* buses.  Fpga_proofs has what the gates, written line by line, add up    *)
(* to, for all 65536 addresses.                                            *)
(***************************************************************************)
EXTENDS Integers

Address == 0 .. 65535

\* What is on the buses: whose they are, the request, the address; and the
\* Z80's own RD and MREQ, which nobody drives while the NIOS has the buses.
Buses == [owner : {"z80", "nios"}, mreq : BOOLEAN, iorq : BOOLEAN,
          read : BOOLEAN, write : BOOLEAN, address : Address,
          cpu_rd : BOOLEAN, cpu_mreq : BOOLEAN]

\* An access of the Z80 drives its own lines; it reads or it writes, memory
\* or a port.
Access == {b \in Buses : /\ b.mreq <=> ~b.iorq
                         /\ b.read <=> ~b.write
                         /\ b.owner = "z80" => /\ b.cpu_rd <=> b.read
                                               /\ b.cpu_mreq <=> b.mreq}

-----------------------------------------------------------------------------
(* The enables.  A(a, w) is the address line of weight w. *)
A(a, w) == (a \div w) % 2 = 1

A15(a) == A(a, 32768)
A14(a) == A(a, 16384)
A13(a) == A(a, 8192)
A12(a) == A(a, 4096)
A11(a) == A(a, 2048)
A10(a) == A(a, 1024)
A9(a)  == A(a, 512)
A8(a)  == A(a, 256)

\* What each enable asks of the address.
RomAt(a)   == ~A15(a) /\ ~A14(a)
PixelAt(a) == ~A15(a) /\ A14(a) /\ ~A13(a) /\ (~A12(a) \/ ~A11(a))
ColorAt(a) == ~A15(a) /\ A14(a) /\ ~A13(a) /\ A12(a) /\ A11(a) /\ ~A10(a)
              /\ (~A9(a) \/ ~A8(a))
RamAt(a)   == A15(a) \/ (A14(a) /\ (A13(a) \/ (A12(a) /\ A11(a)
                                       /\ (A10(a) \/ (A9(a) /\ A8(a))))))

rom_en(b)       == b.mreq /\ b.cpu_rd /\ RomAt(b.address)
cpu_pixel_en(b) == b.mreq /\ PixelAt(b.address)
cpu_color_en(b) == b.mreq /\ ColorAt(b.address)
ram_en(b)       == b.mreq /\ RamAt(b.address)

Low(a) == a % 256

nios_en(b) == /\ b.iorq /\ ~b.cpu_mreq /\ b.owner = "z80"
              /\ Low(b.address) \in {23, 25, 27, 29}   \* 0x17, 0x19, 0x1B, 0x1D
ula_en(b)  == b.iorq /\ ~b.mreq /\ Low(b.address) = 254
kemp_en(b) == b.iorq /\ ~b.mreq /\ Low(b.address) = 31

\* Who may put data on the buses: the choices of data_in, in whatever order.
Answers(b) ==
  {d \in {"rom", "pixel", "color", "ram", "nios", "ula", "kemp"} :
     \/ d = "rom" /\ rom_en(b)
     \/ d = "pixel" /\ cpu_pixel_en(b)
     \/ d = "color" /\ cpu_color_en(b)
     \/ d = "ram" /\ ram_en(b)
     \/ d = "nios" /\ nios_en(b)
     \/ d = "ula" /\ ula_en(b)
     \/ d = "kemp" /\ kemp_en(b)}

-----------------------------------------------------------------------------
(* The chips' address lines, and how many bytes the chips have. *)
rom_address(a)    == a % 16384
cpu_pixel_addr(a) == ((a - 16384) % 65536) % 8192
cpu_color_addr(a) == ((a - 22528) % 65536) % 1024
ram_address(a)    == (a - 23296) % 65536

RomBytes   == 16384
PixelBytes == 6144
ColorBytes == 768
RamBytes   == 42240
=============================================================================
