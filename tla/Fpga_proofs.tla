---------------------------- MODULE Fpga_proofs ----------------------------
(***************************************************************************)
(* Proofs about what the FPGA's gates add up to.  The memory map: four     *)
(* pieces without a gap or an overlap, each laid byte by byte into a chip  *)
(* of just its size.  The layout of the screen at every zoom: every pixel  *)
(* of the picture is a bit of its own inside the pixel memory, and the     *)
(* eight lines of a character share the byte of their colour.  The ULA:    *)
(* its counters implement the raster, whatever the Z80 does, and the loop  *)
(* of gates holds up an access once.                                       *)
(***************************************************************************)
EXTENDS MemoryMap, ScreenLayout, Ula, TLAPS

-----------------------------------------------------------------------------
(* The memory map. *)

(* The ranges that the comments of top.vhd give the enables. *)
InRom(a)   == a < 16384
InPixel(a) == a >= 16384 /\ a < 22528
InColor(a) == a >= 22528 /\ a < 23296
InRam(a)   == a >= 23296

(* The form of Address that the provers are fast with. *)
LEMMA AddressIs ==
  ASSUME NEW a \in Address
  PROVE  a \in Nat /\ a < 65536
<1> QED
  BY DEF Address

(* The address lines that tell the ranges apart, from the highest down, and *)
(* the enables: each is the range that its comment gives. *)
LEMMA Ranges ==
  ASSUME NEW a \in Nat, a < 65536
  PROVE  /\ RomAt(a) <=> InRom(a)
         /\ PixelAt(a) <=> InPixel(a)
         /\ ColorAt(a) <=> InColor(a)
         /\ RamAt(a) <=> InRam(a)
<1>1. A15(a) <=> a >= 32768
  <2>1. a < 32768 => a \div 32768 = 0
    OBVIOUS
  <2>2. a >= 32768 => a \div 32768 = 1
    OBVIOUS
  <2>3. 0 % 2 = 0 /\ 1 % 2 = 1
    OBVIOUS
  <2> QED
    BY <2>1, <2>2, <2>3 DEF A15, A
<1>2. a < 32768 => (A14(a) <=> a >= 16384)
  <2>1. a < 16384 => a \div 16384 = 0
    OBVIOUS
  <2>2. a >= 16384 /\ a < 32768 => a \div 16384 = 1
    OBVIOUS
  <2>3. 0 % 2 = 0 /\ 1 % 2 = 1
    OBVIOUS
  <2> QED
    BY <2>1, <2>2, <2>3 DEF A14, A
<1>3. a >= 16384 /\ a < 32768 => (A13(a) <=> a >= 24576)
  <2>1. a >= 16384 /\ a < 24576 => a \div 8192 = 2
    OBVIOUS
  <2>2. a >= 24576 /\ a < 32768 => a \div 8192 = 3
    BY SMTT(30)
  <2>3. 2 % 2 = 0 /\ 3 % 2 = 1
    OBVIOUS
  <2> QED
    BY <2>1, <2>2, <2>3 DEF A13, A
<1>4. a >= 16384 /\ a < 24576 => (A12(a) <=> a >= 20480)
  <2>1. a >= 16384 /\ a < 20480 => a \div 4096 = 4
    OBVIOUS
  <2>2. a >= 20480 /\ a < 24576 => a \div 4096 = 5
    OBVIOUS
  <2>3. 4 % 2 = 0 /\ 5 % 2 = 1
    OBVIOUS
  <2> QED
    BY <2>1, <2>2, <2>3 DEF A12, A
<1>5. a >= 20480 /\ a < 24576 => (A11(a) <=> a >= 22528)
  <2>1. a >= 20480 /\ a < 22528 => a \div 2048 = 10
    OBVIOUS
  <2>2. a >= 22528 /\ a < 24576 => a \div 2048 = 11
    OBVIOUS
  <2>3. 10 % 2 = 0 /\ 11 % 2 = 1
    OBVIOUS
  <2> QED
    BY <2>1, <2>2, <2>3 DEF A11, A
<1>6. a >= 22528 /\ a < 24576 => (A10(a) <=> a >= 23552)
  <2>1. a >= 22528 /\ a < 23552 => a \div 1024 = 22
    OBVIOUS
  <2>2. a >= 23552 /\ a < 24576 => a \div 1024 = 23
    OBVIOUS
  <2>3. 22 % 2 = 0 /\ 23 % 2 = 1
    OBVIOUS
  <2> QED
    BY <2>1, <2>2, <2>3 DEF A10, A
<1>7. a >= 22528 /\ a < 23552 => (A9(a) <=> a >= 23040)
  <2>1. a >= 22528 /\ a < 23040 => a \div 512 = 44
    OBVIOUS
  <2>2. a >= 23040 /\ a < 23552 => a \div 512 = 45
    OBVIOUS
  <2>3. 44 % 2 = 0 /\ 45 % 2 = 1
    OBVIOUS
  <2> QED
    BY <2>1, <2>2, <2>3 DEF A9, A
<1>8. a >= 23040 /\ a < 23552 => (A8(a) <=> a >= 23296)
  <2>1. a >= 23040 /\ a < 23296 => a \div 256 = 90
    OBVIOUS
  <2>2. a >= 23296 /\ a < 23552 => a \div 256 = 91
    OBVIOUS
  <2>3. 90 % 2 = 0 /\ 91 % 2 = 1
    OBVIOUS
  <2> QED
    BY <2>1, <2>2, <2>3 DEF A8, A
<1>10. CASE a < 16384
  <2>1. ~A15(a) /\ ~A14(a)
    BY <1>10, <1>1, <1>2
  <2>2. RomAt(a) /\ ~PixelAt(a) /\ ~ColorAt(a) /\ ~RamAt(a)
    BY <2>1, SMT DEF RomAt, PixelAt, ColorAt, RamAt
  <2>3. /\ InRom(a)
        /\ ~InPixel(a)
        /\ ~InColor(a)
        /\ ~InRam(a)
    BY <1>10 DEF InRom, InPixel, InColor, InRam
  <2> QED
    BY <2>2, <2>3
<1>11. CASE a >= 16384 /\ a < 20480
  <2>1. ~A15(a) /\ A14(a) /\ ~A13(a) /\ ~A12(a)
    BY <1>11, <1>1, <1>2, <1>3, <1>4
  <2>2. ~RomAt(a) /\ PixelAt(a) /\ ~ColorAt(a) /\ ~RamAt(a)
    BY <2>1, SMT DEF RomAt, PixelAt, ColorAt, RamAt
  <2>3. /\ ~InRom(a)
        /\ InPixel(a)
        /\ ~InColor(a)
        /\ ~InRam(a)
    BY <1>11 DEF InRom, InPixel, InColor, InRam
  <2> QED
    BY <2>2, <2>3
<1>12. CASE a >= 20480 /\ a < 22528
  <2>1. ~A15(a) /\ A14(a) /\ ~A13(a) /\ A12(a) /\ ~A11(a)
    BY <1>12, <1>1, <1>2, <1>3, <1>4, <1>5
  <2>2. ~RomAt(a) /\ PixelAt(a) /\ ~ColorAt(a) /\ ~RamAt(a)
    BY <2>1, SMT DEF RomAt, PixelAt, ColorAt, RamAt
  <2>3. /\ ~InRom(a)
        /\ InPixel(a)
        /\ ~InColor(a)
        /\ ~InRam(a)
    BY <1>12 DEF InRom, InPixel, InColor, InRam
  <2> QED
    BY <2>2, <2>3
<1>13. CASE a >= 22528 /\ a < 23040
  <2>1. ~A15(a) /\ A14(a) /\ ~A13(a) /\ A12(a) /\ A11(a) /\ ~A10(a) /\ ~A9(a)
    BY <1>13, <1>1, <1>2, <1>3, <1>4, <1>5, <1>6, <1>7
  <2>2. ~RomAt(a) /\ ~PixelAt(a) /\ ColorAt(a) /\ ~RamAt(a)
    BY <2>1, SMT DEF RomAt, PixelAt, ColorAt, RamAt
  <2>3. /\ ~InRom(a)
        /\ ~InPixel(a)
        /\ InColor(a)
        /\ ~InRam(a)
    BY <1>13 DEF InRom, InPixel, InColor, InRam
  <2> QED
    BY <2>2, <2>3
<1>14. CASE a >= 23040 /\ a < 23296
  <2>1. /\ ~A15(a) /\ A14(a) /\ ~A13(a) /\ A12(a)
        /\ A11(a) /\ ~A10(a) /\ A9(a) /\ ~A8(a)
    BY <1>14, <1>1, <1>2, <1>3, <1>4, <1>5, <1>6, <1>7, <1>8
  <2>2. ~RomAt(a) /\ ~PixelAt(a) /\ ColorAt(a) /\ ~RamAt(a)
    BY <2>1, SMT DEF RomAt, PixelAt, ColorAt, RamAt
  <2>3. /\ ~InRom(a)
        /\ ~InPixel(a)
        /\ InColor(a)
        /\ ~InRam(a)
    BY <1>14 DEF InRom, InPixel, InColor, InRam
  <2> QED
    BY <2>2, <2>3
<1>15. CASE a >= 23296 /\ a < 23552
  <2>1. /\ ~A15(a) /\ A14(a) /\ ~A13(a) /\ A12(a)
        /\ A11(a) /\ ~A10(a) /\ A9(a) /\ A8(a)
    BY <1>15, <1>1, <1>2, <1>3, <1>4, <1>5, <1>6, <1>7, <1>8
  <2>2. ~RomAt(a) /\ ~PixelAt(a) /\ ~ColorAt(a) /\ RamAt(a)
    BY <2>1, SMT DEF RomAt, PixelAt, ColorAt, RamAt
  <2>3. /\ ~InRom(a)
        /\ ~InPixel(a)
        /\ ~InColor(a)
        /\ InRam(a)
    BY <1>15 DEF InRom, InPixel, InColor, InRam
  <2> QED
    BY <2>2, <2>3
<1>16. CASE a >= 23552 /\ a < 24576
  <2>1. ~A15(a) /\ A14(a) /\ ~A13(a) /\ A12(a) /\ A11(a) /\ A10(a)
    BY <1>16, <1>1, <1>2, <1>3, <1>4, <1>5, <1>6
  <2>2. ~RomAt(a) /\ ~PixelAt(a) /\ ~ColorAt(a) /\ RamAt(a)
    BY <2>1, SMT DEF RomAt, PixelAt, ColorAt, RamAt
  <2>3. /\ ~InRom(a)
        /\ ~InPixel(a)
        /\ ~InColor(a)
        /\ InRam(a)
    BY <1>16 DEF InRom, InPixel, InColor, InRam
  <2> QED
    BY <2>2, <2>3
<1>17. CASE a >= 24576 /\ a < 32768
  <2>1. ~A15(a) /\ A14(a) /\ A13(a)
    BY <1>17, <1>1, <1>2, <1>3
  <2>2. ~RomAt(a) /\ ~PixelAt(a) /\ ~ColorAt(a) /\ RamAt(a)
    BY <2>1, SMT DEF RomAt, PixelAt, ColorAt, RamAt
  <2>3. /\ ~InRom(a)
        /\ ~InPixel(a)
        /\ ~InColor(a)
        /\ InRam(a)
    BY <1>17 DEF InRom, InPixel, InColor, InRam
  <2> QED
    BY <2>2, <2>3
<1>18. CASE a >= 32768
  <2>1. A15(a)
    BY <1>18, <1>1
  <2>2. ~RomAt(a) /\ ~PixelAt(a) /\ ~ColorAt(a) /\ RamAt(a)
    BY <2>1, SMT DEF RomAt, PixelAt, ColorAt, RamAt
  <2>3. /\ ~InRom(a)
        /\ ~InPixel(a)
        /\ ~InColor(a)
        /\ InRam(a)
    BY <1>18 DEF InRom, InPixel, InColor, InRam
  <2> QED
    BY <2>2, <2>3
<1> QED
  BY <1>10, <1>11, <1>12, <1>13, <1>14, <1>15, <1>16, <1>17, <1>18

(* What an access is, field by field. *)
LEMMA AccessFields ==
  ASSUME NEW b \in Access
  PROVE  /\ b.address \in Address
         /\ b.mreq <=> ~b.iorq
         /\ b.owner = "z80" => (b.cpu_rd <=> b.read) /\ (b.read <=> ~b.write)
<1>1. b \in Buses
  BY DEF Access
<1>2. b.address \in Address
  BY <1>1, SMT DEF Buses
<1> QED
  BY <1>2, SMT DEF Access

(* In memory accesses no port is enabled, and in port accesses no memory.  *)
LEMMA MemoryOrPort ==
  ASSUME NEW b \in Access
  PROVE  /\ b.mreq => ~nios_en(b) /\ ~ula_en(b) /\ ~kemp_en(b)
         /\ b.iorq => ~rom_en(b) /\ ~cpu_pixel_en(b) /\ ~cpu_color_en(b) /\ ~ram_en(b)
<1> QED
  BY AccessFields, SMT DEF nios_en, ula_en, kemp_en, rom_en, cpu_pixel_en,
     cpu_color_en, ram_en

(* The ranges leave no gap and do not overlap. *)
LEMMA Partition ==
  ASSUME NEW a \in Nat, a < 65536
  PROVE  /\ InRom(a) \/ InPixel(a) \/ InColor(a) \/ InRam(a)
         /\ InRom(a) => ~InPixel(a) /\ ~InColor(a) /\ ~InRam(a)
         /\ InPixel(a) => ~InColor(a) /\ ~InRam(a)
         /\ InColor(a) => ~InRam(a)
         /\ InRom(a) <=> ~(a >= 16384)
<1> QED
  BY DEF InRom, InPixel, InColor, InRam

(* Who answers if one chip is enabled, or no chip is. *)
LEMMA ChipAnswers ==
  ASSUME NEW b, ~nios_en(b), ~ula_en(b), ~kemp_en(b)
  PROVE  /\ rom_en(b) /\ ~cpu_pixel_en(b) /\ ~cpu_color_en(b) /\ ~ram_en(b)
              => Answers(b) = {"rom"}
         /\ ~rom_en(b) /\ cpu_pixel_en(b) /\ ~cpu_color_en(b) /\ ~ram_en(b)
              => Answers(b) = {"pixel"}
         /\ ~rom_en(b) /\ ~cpu_pixel_en(b) /\ cpu_color_en(b) /\ ~ram_en(b)
              => Answers(b) = {"color"}
         /\ ~rom_en(b) /\ ~cpu_pixel_en(b) /\ ~cpu_color_en(b) /\ ram_en(b)
              => Answers(b) = {"ram"}
<1>1. \A d : d \in Answers(b) <=> \/ d = "rom" /\ rom_en(b)
                                  \/ d = "pixel" /\ cpu_pixel_en(b)
                                  \/ d = "color" /\ cpu_color_en(b)
                                  \/ d = "ram" /\ ram_en(b)
  BY SMT DEF Answers
<1>2. ASSUME rom_en(b) /\ ~cpu_pixel_en(b) /\ ~cpu_color_en(b) /\ ~ram_en(b)
      PROVE  Answers(b) = {"rom"}
  <2>1. \A d : d \in Answers(b) <=> d = "rom"
    BY <1>1, <1>2
  <2> QED
    BY <2>1
<1>3. ASSUME ~rom_en(b) /\ cpu_pixel_en(b) /\ ~cpu_color_en(b) /\ ~ram_en(b)
      PROVE  Answers(b) = {"pixel"}
  <2>1. \A d : d \in Answers(b) <=> d = "pixel"
    BY <1>1, <1>3
  <2> QED
    BY <2>1
<1>4. ASSUME ~rom_en(b) /\ ~cpu_pixel_en(b) /\ cpu_color_en(b) /\ ~ram_en(b)
      PROVE  Answers(b) = {"color"}
  <2>1. \A d : d \in Answers(b) <=> d = "color"
    BY <1>1, <1>4
  <2> QED
    BY <2>1
<1>5. ASSUME ~rom_en(b) /\ ~cpu_pixel_en(b) /\ ~cpu_color_en(b) /\ ram_en(b)
      PROVE  Answers(b) = {"ram"}
  <2>1. \A d : d \in Answers(b) <=> d = "ram"
    BY <1>1, <1>5
  <2> QED
    BY <2>1
<1> QED
  BY <1>2, <1>3, <1>4, <1>5

LEMMA PortAnswers ==
  ASSUME NEW b, ~rom_en(b), ~cpu_pixel_en(b), ~cpu_color_en(b), ~ram_en(b),
         NEW d \in Answers(b)
  PROVE  \/ d = "nios" /\ nios_en(b)
         \/ d = "ula" /\ ula_en(b)
         \/ d = "kemp" /\ kemp_en(b)
<1> QED
  BY SMT DEF Answers

(***************************************************************************)
(* Of every memory read of the Z80, and of every DMA cycle above the ROM,  *)
(* whatever the Z80's floating lines are taken for, exactly one chip is    *)
(* enabled (top.vhd:1060-1102): two would fight over a byte, none would    *)
(* leave the one before on the lines.                                      *)
(***************************************************************************)
THEOREM OneChip ==
  ASSUME NEW b \in Access, b.mreq,
         (b.owner = "z80" /\ b.read) \/ b.address >= 16384
  PROVE  \/ InRom(b.address)   /\ Answers(b) = {"rom"}
         \/ InPixel(b.address) /\ Answers(b) = {"pixel"}
         \/ InColor(b.address) /\ Answers(b) = {"color"}
         \/ InRam(b.address)   /\ Answers(b) = {"ram"}
<1>1. b.address \in Nat /\ b.address < 65536
  BY AccessFields, AddressIs, SMT
<1>2. ~nios_en(b) /\ ~ula_en(b) /\ ~kemp_en(b)
  BY MemoryOrPort, SMT
<1>3. InRom(b.address) => b.cpu_rd
  <2>1. InRom(b.address) <=> ~(b.address >= 16384)
    BY <1>1, Partition, SMT
  <2> QED
    BY <2>1, AccessFields, SMT
<1>4. /\ rom_en(b) <=> InRom(b.address)
      /\ cpu_pixel_en(b) <=> InPixel(b.address)
      /\ cpu_color_en(b) <=> InColor(b.address)
      /\ ram_en(b) <=> InRam(b.address)
  <2>1. /\ RomAt(b.address) <=> InRom(b.address)
        /\ PixelAt(b.address) <=> InPixel(b.address)
        /\ ColorAt(b.address) <=> InColor(b.address)
        /\ RamAt(b.address) <=> InRam(b.address)
    BY <1>1, Ranges, SMT
  <2> QED
    BY <1>3, <2>1, SMT DEF rom_en, cpu_pixel_en, cpu_color_en, ram_en
<1>5. CASE InRom(b.address)
  <2>1. rom_en(b) /\ ~cpu_pixel_en(b) /\ ~cpu_color_en(b) /\ ~ram_en(b)
    BY <1>1, <1>4, <1>5, Partition, SMT
  <2>2. Answers(b) = {"rom"}
    BY <1>2, <2>1, ChipAnswers, SMT
  <2> QED
    BY <1>5, <2>2
<1>6. CASE InPixel(b.address)
  <2>1. ~rom_en(b) /\ cpu_pixel_en(b) /\ ~cpu_color_en(b) /\ ~ram_en(b)
    BY <1>1, <1>4, <1>6, Partition, SMT
  <2>2. Answers(b) = {"pixel"}
    BY <1>2, <2>1, ChipAnswers, SMT
  <2> QED
    BY <1>6, <2>2
<1>7. CASE InColor(b.address)
  <2>1. ~rom_en(b) /\ ~cpu_pixel_en(b) /\ cpu_color_en(b) /\ ~ram_en(b)
    BY <1>1, <1>4, <1>7, Partition, SMT
  <2>2. Answers(b) = {"color"}
    BY <1>2, <2>1, ChipAnswers, SMT
  <2> QED
    BY <1>7, <2>2
<1>8. CASE InRam(b.address)
  <2>1. ~rom_en(b) /\ ~cpu_pixel_en(b) /\ ~cpu_color_en(b) /\ ram_en(b)
    BY <1>1, <1>4, <1>8, Partition, SMT
  <2>2. Answers(b) = {"ram"}
    BY <1>2, <2>1, ChipAnswers, SMT
  <2> QED
    BY <1>8, <2>2
<1> QED
  BY <1>1, <1>5, <1>6, <1>7, <1>8, Partition, SMT

(* Of every port access at most one device is enabled: neither an odd port *)
(* of the NIOS nor the joystick's is the ULA's (top.vhd:1052-1065).        *)
THEOREM OnePort ==
  ASSUME NEW b \in Access, b.iorq,
         NEW d \in Answers(b), NEW e \in Answers(b)
  PROVE  d = e
<1>1. ~rom_en(b) /\ ~cpu_pixel_en(b) /\ ~cpu_color_en(b) /\ ~ram_en(b)
  BY MemoryOrPort, SMT
<1>2. ~(nios_en(b) /\ ula_en(b)) /\ ~(nios_en(b) /\ kemp_en(b)) /\ ~(ula_en(b) /\ kemp_en(b))
  BY DEF nios_en, ula_en, kemp_en
<1>3. /\ (d = "nios" /\ nios_en(b)) \/ (d = "ula" /\ ula_en(b)) \/ (d = "kemp" /\ kemp_en(b))
      /\ (e = "nios" /\ nios_en(b)) \/ (e = "ula" /\ ula_en(b)) \/ (e = "kemp" /\ kemp_en(b))
  BY <1>1, PortAnswers, SMT
<1> QED
  BY <1>2, <1>3, SMT

(***************************************************************************)
(* The cell an address stands for is its distance from the start of its    *)
(* range, and inside the chip, whose last byte is used: the cut to 13 or   *)
(* 10 lines loses nothing, and no two addresses share a byte               *)
(* (top.vhd:1107-1119, the chips' numwords_a).                             *)
(***************************************************************************)
THEOREM CellInChip ==
  ASSUME NEW a \in Address
  PROVE  /\ InRom(a)   => rom_address(a) = a            /\ a < RomBytes
         /\ InPixel(a) => cpu_pixel_addr(a) = a - 16384 /\ a - 16384 < PixelBytes
         /\ InColor(a) => cpu_color_addr(a) = a - 22528 /\ a - 22528 < ColorBytes
         /\ InRam(a)   => ram_address(a) = a - 23296    /\ a - 23296 < RamBytes
<1>1. a \in Nat /\ a < 65536
  BY AddressIs
<1>2. ASSUME InRom(a)
      PROVE  rom_address(a) = a /\ a < RomBytes
  BY <1>1, <1>2 DEF InRom, rom_address, RomBytes
<1>3. ASSUME InPixel(a)
      PROVE  cpu_pixel_addr(a) = a - 16384 /\ a - 16384 < PixelBytes
  <2>1. a - 16384 \in Nat /\ a - 16384 < 6144
    BY <1>1, <1>3 DEF InPixel
  <2>2. (a - 16384) % 65536 = a - 16384 /\ (a - 16384) % 8192 = a - 16384
    BY <2>1
  <2> QED
    BY <2>1, <2>2 DEF cpu_pixel_addr, PixelBytes
<1>4. ASSUME InColor(a)
      PROVE  cpu_color_addr(a) = a - 22528 /\ a - 22528 < ColorBytes
  <2>1. a - 22528 \in Nat /\ a - 22528 < 768
    BY <1>1, <1>4 DEF InColor
  <2>2. (a - 22528) % 65536 = a - 22528 /\ (a - 22528) % 1024 = a - 22528
    BY <2>1
  <2> QED
    BY <2>1, <2>2 DEF cpu_color_addr, ColorBytes
<1>5. ASSUME InRam(a)
      PROVE  ram_address(a) = a - 23296 /\ a - 23296 < RamBytes
  <2>1. a - 23296 \in Nat /\ a - 23296 < 42240
    BY <1>1, <1>5 DEF InRam
  <2>2. (a - 23296) % 65536 = a - 23296
    BY <2>1
  <2> QED
    BY <2>1, <2>2 DEF ram_address, RamBytes
<1> QED
  BY <1>2, <1>3, <1>4, <1>5

-----------------------------------------------------------------------------
(* The layout of the screen. *)

(* The fields, in terms of the line and the column of the picture. *)
PictureLine(z, y)   == y \div z
PictureColumn(z, x) == x \div z

(* The beam is on the picture. *)
OnPicture(z, x, y) == x < 256 * z /\ y < 192 * z

(* The last octal digit of a number, and the number without it. *)
Digit(m) == m % 8
Rest(m)  == m \div 8

LEMMA Fields ==
  ASSUME NEW z \in Zooms, NEW x \in Coordinate, NEW y \in Coordinate, OnPicture(z, x, y)
  PROVE  /\ group_num(z, y) = Rest(Rest(PictureLine(z, y)))
         /\ att_row_num(z, y) = Digit(Rest(PictureLine(z, y)))
         /\ pix_row_num(z, y) = Digit(PictureLine(z, y))
         /\ att_col_num(z, x) = Rest(PictureColumn(z, x))
         /\ pix_col_num(z, x) = Digit(PictureColumn(z, x))
         /\ PictureLine(z, y) \in Nat /\ PictureLine(z, y) < 192
         /\ PictureColumn(z, x) \in Nat /\ PictureColumn(z, x) < 256
<1>1. x \in Nat /\ y \in Nat /\ x < 256 * z /\ y < 192 * z
  BY DEF Coordinate, OnPicture
<1> USE DEF group_num, att_row_num, pix_row_num, att_col_num, pix_col_num,
            PictureLine, PictureColumn, Digit, Rest
<1>2. CASE z = 1
  BY <1>1, <1>2
<1>3. CASE z = 2
  BY <1>1, <1>3
<1>4. CASE z = 4
  BY <1>1, <1>4
<1> QED
  BY <1>2, <1>3, <1>4 DEF Zooms

(* A number is its last digit and the rest. *)
LEMMA LastDigit ==
  ASSUME NEW m \in Nat, m < 256
  PROVE  /\ m = 8 * Rest(m) + Digit(m)
         /\ Digit(m) \in Nat /\ Digit(m) < 8
         /\ Rest(m) \in Nat /\ Rest(m) < 32
<1>1. PICK q \in Nat, r \in Nat : r < 8 /\ q < 32 /\ m = 8 * q + r
  <2>1. \E q \in 0..31 : 8 * q <= m /\ m < 8 * q + 8
    BY SMT
  <2>2. PICK q \in 0..31 : 8 * q <= m /\ m < 8 * q + 8
    BY <2>1
  <2>3. q \in Nat /\ q < 32 /\ m - 8 * q \in Nat /\ m - 8 * q < 8
    BY <2>2
  <2>4. m = 8 * q + (m - 8 * q)
    BY <2>3
  <2> QED
    BY <2>3, <2>4
<1>2. Rest(m) = q
  BY <1>1 DEF Rest
<1>3. Digit(m) = r
  BY <1>1 DEF Digit
<1> QED
  BY <1>1, <1>2, <1>3

(* The rest of a line's number has two digits. *)
LEMMA RestOfRest ==
  ASSUME NEW l \in Nat, l < 192
  PROVE  Rest(Rest(l)) < 3
<1> QED
  BY DEF Rest

(* The fields' bounds, and what they are the fields of. *)
LEMMA FieldBounds ==
  ASSUME NEW z \in Zooms, NEW x \in Coordinate, NEW y \in Coordinate, OnPicture(z, x, y)
  PROVE  /\ group_num(z, y) \in Nat   /\ group_num(z, y) < 3
         /\ att_row_num(z, y) \in Nat /\ att_row_num(z, y) < 8
         /\ pix_row_num(z, y) \in Nat /\ pix_row_num(z, y) < 8
         /\ att_col_num(z, x) \in Nat /\ att_col_num(z, x) < 32
         /\ pix_col_num(z, x) \in Nat /\ pix_col_num(z, x) < 8
         /\ PictureLine(z, y) = 64 * group_num(z, y) + 8 * att_row_num(z, y) + pix_row_num(z, y)
         /\ PictureColumn(z, x) = 8 * att_col_num(z, x) + pix_col_num(z, x)
<1> DEFINE l == PictureLine(z, y)  k == PictureColumn(z, x)
<1>1. l \in Nat /\ l < 192 /\ k \in Nat /\ k < 256
  BY Fields
<1>2. /\ group_num(z, y) = Rest(Rest(l)) /\ att_row_num(z, y) = Digit(Rest(l))
      /\ pix_row_num(z, y) = Digit(l)
      /\ att_col_num(z, x) = Rest(k) /\ pix_col_num(z, x) = Digit(k)
  BY Fields
<1> HIDE DEF l, k
<1>3. /\ l = 8 * Rest(l) + Digit(l) /\ Digit(l) \in Nat /\ Digit(l) < 8
      /\ Rest(l) \in Nat /\ Rest(l) < 32
  BY <1>1, LastDigit
<1>4. /\ Rest(l) = 8 * Rest(Rest(l)) + Digit(Rest(l))
      /\ Digit(Rest(l)) \in Nat /\ Digit(Rest(l)) < 8 /\ Rest(Rest(l)) \in Nat
  BY <1>3, LastDigit
<1>5. Rest(Rest(l)) < 3
  BY <1>1, RestOfRest
<1>6. /\ k = 8 * Rest(k) + Digit(k) /\ Digit(k) \in Nat /\ Digit(k) < 8
      /\ Rest(k) \in Nat /\ Rest(k) < 32
  BY <1>1, LastDigit
<1>7. l = 64 * Rest(Rest(l)) + 8 * Digit(Rest(l)) + Digit(l)
  BY <1>3, <1>4
<1> QED
  BY <1>2, <1>3, <1>4, <1>5, <1>6, <1>7 DEF l, k

(* On the picture no address is outside its memory, although the fields of *)
(* the coordinates could make 8192 and 1024 of them (data_interpreter.vhd: *)
(* 105-109; the memories have 6144 and 768 bytes).                         *)
THEOREM InsideMemory ==
  ASSUME NEW z \in Zooms, NEW x \in Coordinate, NEW y \in Coordinate, OnPicture(z, x, y)
  PROVE  /\ PIXEL_ADDR(z, x, y) \in Nat /\ PIXEL_ADDR(z, x, y) < 6144
         /\ COLOR_ADDR(z, x, y) \in Nat /\ COLOR_ADDR(z, x, y) < 768
<1> QED
  BY FieldBounds DEF PIXEL_ADDR, COLOR_ADDR

(* Two places of the beam that read the same bit of the same byte are on   *)
(* the same pixel of the picture: no field is dealt out twice and none is  *)
(* left out.                                                               *)
THEOREM OneBitPerPixel ==
  ASSUME NEW z \in Zooms,
         NEW x1 \in Coordinate, NEW y1 \in Coordinate, OnPicture(z, x1, y1),
         NEW x2 \in Coordinate, NEW y2 \in Coordinate, OnPicture(z, x2, y2),
         PIXEL_ADDR(z, x1, y1) = PIXEL_ADDR(z, x2, y2),
         PixelBit(z, x1) = PixelBit(z, x2)
  PROVE  PictureLine(z, y1) = PictureLine(z, y2) /\ PictureColumn(z, x1) = PictureColumn(z, x2)
<1> DEFINE g1 == group_num(z, y1)    g2 == group_num(z, y2)
           r1 == att_row_num(z, y1)  r2 == att_row_num(z, y2)
           p1 == pix_row_num(z, y1)  p2 == pix_row_num(z, y2)
           a1 == att_col_num(z, x1)  a2 == att_col_num(z, x2)
           b1 == pix_col_num(z, x1)  b2 == pix_col_num(z, x2)
<1>1. /\ g1 \in Nat /\ g1 < 3 /\ r1 \in Nat /\ r1 < 8 /\ p1 \in Nat /\ p1 < 8
      /\ a1 \in Nat /\ a1 < 32 /\ b1 \in Nat /\ b1 < 8
      /\ PictureLine(z, y1) = 64 * g1 + 8 * r1 + p1 /\ PictureColumn(z, x1) = 8 * a1 + b1
  BY FieldBounds
<1>2. /\ g2 \in Nat /\ g2 < 3 /\ r2 \in Nat /\ r2 < 8 /\ p2 \in Nat /\ p2 < 8
      /\ a2 \in Nat /\ a2 < 32 /\ b2 \in Nat /\ b2 < 8
      /\ PictureLine(z, y2) = 64 * g2 + 8 * r2 + p2 /\ PictureColumn(z, x2) = 8 * a2 + b2
  BY FieldBounds
<1>3. 2048 * g1 + 256 * p1 + 32 * r1 + a1 = 2048 * g2 + 256 * p2 + 32 * r2 + a2
  BY DEF PIXEL_ADDR
<1>4. 7 - b1 = 7 - b2
  BY DEF PixelBit
<1> HIDE DEF g1, g2, r1, r2, p1, p2, a1, a2, b1, b2
<1>5. b1 = b2
  BY <1>1, <1>2, <1>4
<1>6. g1 = g2
  BY <1>1, <1>2, <1>3
<1>7. p1 = p2
  BY <1>1, <1>2, <1>3, <1>6
<1>8. r1 = r2
  BY <1>1, <1>2, <1>3, <1>6, <1>7
<1>9. a1 = a2
  BY <1>1, <1>2, <1>3, <1>6, <1>7, <1>8
<1> QED
  BY <1>1, <1>2, <1>5, <1>6, <1>7, <1>8, <1>9

(* The colour of a pixel is that of its character cell: the address is the *)
(* cell's number, counted line by line, whatever the pixel in it.          *)
THEOREM ColourOfCell ==
  ASSUME NEW z \in Zooms, NEW x \in Coordinate, NEW y \in Coordinate, OnPicture(z, x, y)
  PROVE  COLOR_ADDR(z, x, y) = 32 * (PictureLine(z, y) \div 8) + PictureColumn(z, x) \div 8
<1> DEFINE g == group_num(z, y)  r == att_row_num(z, y)  p == pix_row_num(z, y)
           a == att_col_num(z, x)  b == pix_col_num(z, x)
<1>1. /\ g \in Nat /\ g < 3 /\ r \in Nat /\ r < 8 /\ p \in Nat /\ p < 8
      /\ a \in Nat /\ a < 32 /\ b \in Nat /\ b < 8
      /\ PictureLine(z, y) = 64 * g + 8 * r + p /\ PictureColumn(z, x) = 8 * a + b
  BY FieldBounds
<1> HIDE DEF g, r, p, a, b
<1>2. (64 * g + 8 * r + p) \div 8 = 8 * g + r
  BY <1>1
<1>3. (8 * a + b) \div 8 = a
  BY <1>1
<1>4. COLOR_ADDR(z, x, y) = 256 * g + 32 * r + a
  BY DEF COLOR_ADDR, g, r, a
<1> QED
  BY <1>1, <1>2, <1>3, <1>4

(* In the blanking before a row the interpreter addresses that row's first *)
(* byte, which the beam will ask for first (read_next).                    *)
THEOREM ReadAhead ==
  ASSUME NEW X \in Coordinate, NEW Y \in Coordinate,
         NEW X_INIT \in Coordinate, NEW Y_INIT \in Coordinate, Y + 1 \in Coordinate
  PROVE  /\ x_trans(X, X_INIT, TRUE) = x_trans(X_INIT, X_INIT, FALSE)
         /\ y_trans(Y, Y_INIT, TRUE) = y_trans(Y + 1, Y_INIT, FALSE)
<1>1. X_INIT \in Nat /\ Y \in Nat /\ Y_INIT \in Nat
  BY DEF Coordinate
<1>2. (X_INIT - X_INIT) % 1024 = 0
  BY <1>1
<1>3. (Y - Y_INIT) + 1 = (Y + 1) - Y_INIT
  BY <1>1
<1> QED
  BY <1>2, <1>3 DEF x_trans, y_trans

-----------------------------------------------------------------------------
(* The ULA. *)

Counters == [lo : 0 .. 15, c4 : 0 .. 1, c5 : 0 .. 1, hi : 0 .. 6,
             vlo : 0 .. 7, vhi : 0 .. 38, f : 0 .. 31]

-----------------------------------------------------------------------------
(* c8 and c7 are both set in the last sixth of the counts of c8..c6 only. *)
LEMMA LastSix ==
  ASSUME NEW m \in Counters
  PROVE  hcrst(m) <=> m.hi = 6
<1>1. m.hi \in 0 .. 6
  BY DEF Counters
<1>2. Bit(m.hi, 2) <=> m.hi \in {2, 3, 6}
  BY <1>1, SMT DEF Bit
<1>3. Bit(m.hi, 4) <=> m.hi \in {4, 5, 6}
  BY <1>1, SMT DEF Bit
<1> QED
  BY <1>1, <1>2, <1>3 DEF hcrst

(* v8, v5 and v4 are all set in line 304 and after only. *)
LEMMA LastLines ==
  ASSUME NEW m \in Counters
  PROVE  vrst(m) <=> m.hi = 6 /\ m.vlo = 7 /\ m.vhi = 38
<1>1. m.vhi \in 0 .. 38
  BY DEF Counters
<1>2. m.vhi = 38 => Bit(m.vhi, 2) /\ Bit(m.vhi, 4) /\ Bit(m.vhi, 32)
  BY SMT DEF Bit
<1>3. Bit(m.vhi, 32) => m.vhi >= 32
  BY <1>1, SMT DEF Bit
<1>4. m.vhi >= 32 /\ Bit(m.vhi, 4) => m.vhi >= 36
  BY <1>1, SMT DEF Bit
<1>5. m.vhi >= 36 /\ Bit(m.vhi, 2) => m.vhi = 38
  BY <1>1, SMT DEF Bit
<1> QED
  BY <1>2, <1>3, <1>4, <1>5, LastSix DEF vrst, en_vtff3

(* The flash counter counts where the lines start again. *)
LEMMA FlashCounts ==
  ASSUME NEW m \in Counters
  PROVE  /\ vrst(m) => NextFlash(m) = (m.f + 1) % 32
         /\ ~vrst(m) => NextFlash(m) = m.f
<1>1. m.vhi \in 0 .. 38
  BY DEF Counters
<1>2. ASSUME NEW x \in 0 .. 39 PROVE Bit(x, 32) <=> x >= 32
  BY SMT DEF Bit
<1>3. CASE vrst(m)
  <2>1. Bit(m.vhi, 32) /\ NextVhi(m) = 0
    BY <1>3 DEF vrst, NextVhi
  <2>2. ~Bit(0, 32)
    BY <1>2
  <2> QED
    BY <1>3, <2>1, <2>2 DEF NextFlash
<1>4. CASE ~vrst(m)
  <2>1. NextVhi(m) \in {m.vhi, (m.vhi + 1) % 64}
    BY <1>4 DEF NextVhi
  <2>2. (m.vhi + 1) % 64 = m.vhi + 1
    BY <1>1
  <2>3. NextVhi(m) \in 0 .. 39 /\ NextVhi(m) >= m.vhi
    BY <1>1, <2>1, <2>2
  <2>4. Bit(m.vhi, 32) => Bit(NextVhi(m), 32)
    BY <1>1, <1>2, <2>3
  <2> QED
    BY <1>4, <2>4 DEF NextFlash
<1> QED
  BY <1>3, <1>4

(* The counters that the 7 MHz clock moves, one by one. *)
LEMMA CountedFields ==
  ASSUME NEW m \in Counters
  PROVE  /\ Counted(m).lo = (m.lo + 1) % 16
         /\ Counted(m).c4 = IF m.lo = 15 THEN 1 - m.c4 ELSE m.c4
         /\ Counted(m).c5 = IF m.lo = 15 /\ m.c4 = 1 THEN 1 - m.c5 ELSE m.c5
         /\ Counted(m).hi = IF Clkhc6Falls(m) THEN NextHi(m) ELSE m.hi
         /\ Counted(m).vlo = IF Clkhc6Falls(m) THEN NextVlo(m) ELSE m.vlo
         /\ Counted(m).vhi = IF Clkhc6Falls(m) THEN NextVhi(m) ELSE m.vhi
         /\ Counted(m).f = IF Clkhc6Falls(m) THEN NextFlash(m) ELSE m.f
         /\ DOMAIN Counted(m) = DOMAIN m
<1> QED
  BY DEF Counted, Counters, C3Falls, C4Falls

(* None of them leaves its range. *)
LEMMA CountedType ==
  ASSUME NEW m \in Counters
  PROVE  Counted(m) \in Counters
<1>1. (m.lo + 1) % 16 \in 0 .. 15
  BY DEF Counters
<1>2. NextHi(m) \in 0 .. 6
  BY LastSix DEF NextHi, Counters
<1>3. NextVlo(m) \in 0 .. 7
  BY DEF NextVlo, Counters
<1>4. NextVhi(m) \in 0 .. 38
  <2>1. m.vhi \in 0 .. 38
    BY DEF Counters
  <2>2. ~vrst(m) /\ en_vtff3(m) => m.vhi # 38
    BY LastLines, LastSix DEF en_vtff3
  <2>3. m.vhi # 38 => (m.vhi + 1) % 64 \in 0 .. 38
    BY <2>1
  <2> QED
    BY <2>1, <2>2, <2>3 DEF NextVhi
<1>5. NextFlash(m) \in 0 .. 31
  BY FlashCounts DEF Counters
<1> DEFINE upper == [m EXCEPT !.hi = NextHi(m), !.vlo = NextVlo(m),
                           !.vhi = NextVhi(m), !.f = NextFlash(m)]
           base  == IF Clkhc6Falls(m) THEN upper ELSE m
<1>6. upper \in Counters
  BY <1>2, <1>3, <1>4, <1>5 DEF Counters
<1>7. base \in Counters
  BY <1>6
<1>8. Counted(m) = [base EXCEPT !.lo = (m.lo + 1) % 16,
                                !.c4 = IF C3Falls(m) THEN 1 - @ ELSE @,
                                !.c5 = IF C4Falls(m) THEN 1 - @ ELSE @]
  BY DEF Counted
<1> HIDE DEF base
<1>9. 1 - base.c4 \in 0 .. 1 /\ 1 - base.c5 \in 0 .. 1
  BY <1>7 DEF Counters
<1> QED
  BY <1>1, <1>7, <1>8, <1>9 DEF Counters

-----------------------------------------------------------------------------
(* The numbers that the counters stand for, as in the refinement mapping. *)
Column(m) == m.lo + 16 * m.c4 + 32 * m.c5 + 64 * m.hi
Row(m)    == m.vlo + 8 * m.vhi

(* The end of a line is where c5 falls with c8 and c7 set, and the end of *)
(* the picture where line 311 ends. *)
LEMMA Ends ==
  ASSUME NEW m \in Counters
  PROVE  /\ Column(m) = 447 <=> Clkhc6Falls(m) /\ m.hi = 6
         /\ Row(m) = 311 <=> m.vlo = 7 /\ m.vhi = 38
<1> DEFINE lo == m.lo  c4 == m.c4  c5 == m.c5  hi == m.hi
<1>1. /\ lo \in 0 .. 15 /\ c4 \in 0 .. 1 /\ c5 \in 0 .. 1 /\ hi \in 0 .. 6
      /\ m.vlo \in 0 .. 7 /\ m.vhi \in 0 .. 38
  BY DEF Counters
<1>2. Row(m) = 311 <=> m.vlo = 7 /\ m.vhi = 38
  BY <1>1 DEF Row
<1>3. Column(m) = 447 <=> lo = 15 /\ c4 = 1 /\ c5 = 1 /\ hi = 6
  BY <1>1 DEF Column
<1> QED
  BY <1>2, <1>3 DEF Clkhc6Falls, C4Falls, C3Falls

(* A step of the 7 MHz clock takes the column to the next one. *)
LEMMA ColumnCounts ==
  ASSUME NEW m \in Counters
  PROVE  Column(Counted(m)) = IF Column(m) = 447 THEN 0 ELSE Column(m) + 1
<1>1. /\ m.lo \in 0 .. 15 /\ m.c4 \in 0 .. 1 /\ m.c5 \in 0 .. 1 /\ m.hi \in 0 .. 6
  BY DEF Counters
<1>2. CASE m.lo # 15
  <2>1. ~Clkhc6Falls(m)
    BY <1>2 DEF Clkhc6Falls, C4Falls, C3Falls
  <2>2. (m.lo + 1) % 16 = m.lo + 1
    BY <1>1, <1>2
  <2>3. Column(Counted(m)) = Column(m) + 1
    BY <1>1, <1>2, <2>1, <2>2, CountedFields DEF Column
  <2> QED
    BY <2>1, <2>3, Ends
<1>3. CASE m.lo = 15 /\ ~Clkhc6Falls(m)
  <2>1. m.c4 = 0 \/ m.c5 = 0
    BY <1>1, <1>3 DEF Clkhc6Falls, C4Falls, C3Falls
  <2>2. Counted(m).lo = 0 /\ Counted(m).hi = m.hi
    BY <1>3, CountedFields
  <2>3. 16 * Counted(m).c4 + 32 * Counted(m).c5 = 16 * m.c4 + 32 * m.c5 + 16
    BY <1>1, <1>3, <2>1, CountedFields
  <2>4. Counted(m).c4 \in 0 .. 1 /\ Counted(m).c5 \in 0 .. 1
    BY CountedType DEF Counters
  <2>5. Column(Counted(m)) = Column(m) + 1
    BY <1>1, <1>3, <2>2, <2>3, <2>4 DEF Column
  <2> QED
    BY <1>3, <2>5, Ends
<1>4. CASE Clkhc6Falls(m)
  <2>1. m.lo = 15 /\ m.c4 = 1 /\ m.c5 = 1
    BY <1>4 DEF Clkhc6Falls, C4Falls, C3Falls
  <2>2. /\ Counted(m).lo = 0 /\ Counted(m).c4 = 0 /\ Counted(m).c5 = 0
        /\ Counted(m).hi = NextHi(m)
    BY <1>4, <2>1, CountedFields
  <2>3. NextHi(m) = IF m.hi = 6 THEN 0 ELSE m.hi + 1
    BY <1>1, LastSix DEF NextHi
  <2> QED
    BY <1>1, <1>4, <2>1, <2>2, <2>3, Ends DEF Column
<1> QED
  BY <1>2, <1>3, <1>4

(* And at the end of a line the row to the next one. *)
LEMMA RowCounts ==
  ASSUME NEW m \in Counters
  PROVE  Row(Counted(m)) = IF Column(m) = 447 /\ Row(m) = 311 THEN 0
                           ELSE IF Column(m) = 447 THEN Row(m) + 1 ELSE Row(m)
<1>1. m.vlo \in 0 .. 7 /\ m.vhi \in 0 .. 38
  BY DEF Counters
<1>2. CASE ~(Clkhc6Falls(m) /\ m.hi = 6)
  <2>1. ~hcrst(m) \/ ~Clkhc6Falls(m)
    BY <1>2, LastSix
  <2>2. Counted(m).vlo = m.vlo /\ Counted(m).vhi = m.vhi
    BY <2>1, CountedFields DEF NextVlo, NextVhi, vrst, en_vtff3
  <2> QED
    BY <1>2, <2>2, Ends DEF Row
<1>3. CASE Clkhc6Falls(m) /\ m.hi = 6
  <2>1. hcrst(m) /\ Column(m) = 447
    BY <1>3, LastSix, Ends
  <2>2. Counted(m).vlo = (m.vlo + 1) % 8 /\ Counted(m).vhi = NextVhi(m)
    BY <1>3, <2>1, CountedFields DEF NextVlo
  <2>3. CASE m.vlo # 7
    <3>1. (m.vlo + 1) % 8 = m.vlo + 1 /\ NextVhi(m) = m.vhi
      BY <1>1, <2>3 DEF NextVhi, vrst, en_vtff3
    <3> QED
      BY <1>1, <2>1, <2>2, <2>3, <3>1, Ends DEF Row
  <2>4. CASE m.vlo = 7 /\ m.vhi = 38
    <3>1. NextVhi(m) = 0
      BY <1>3, <2>4, LastLines DEF NextVhi
    <3> QED
      BY <1>1, <2>1, <2>2, <2>4, <3>1, Ends DEF Row
  <2>5. CASE m.vlo = 7 /\ m.vhi # 38
    <3>1. NextVhi(m) = (m.vhi + 1) % 64
      BY <2>1, <2>5, LastLines DEF NextVhi, en_vtff3
    <3>2. (m.vhi + 1) % 64 = m.vhi + 1
      BY <1>1
    <3> QED
      BY <1>1, <2>1, <2>2, <2>5, <3>1, <3>2, Ends DEF Row
  <2> QED
    BY <2>3, <2>4, <2>5
<1> QED
  BY <1>2, <1>3

-----------------------------------------------------------------------------
(***************************************************************************)
(* The inductive invariant.  What the clock and the time it has been held  *)
(* for have to do with the counters, and what the latches and the buses    *)
(* have to do with the bus cycle.                                          *)
(***************************************************************************)
ClockFollows == IF Bit(n.lo, 1) THEN n_cpu_clk = FALSE
                ELSE border(n) => n_cpu_clk = TRUE

HeldWaits == held > 0 => /\ n.lo >= 4 /\ 2 * held <= n.lo - 2
                         /\ ~border(n)

LatchesFollow ==
  cyc.kind # "dma" => /\ mreq_t23 = MreqFirst(cyc)
                      /\ iorq => cyc.kind = "io" /\ (cyc.t = 1 \/ ioreq_gtw3)

IInv == TypeOK /\ ClockFollows /\ HeldWaits /\ LatchesFollow /\ AccessHeldOnce

(* Every start is in the range of the counters. *)
LEMMA InitIInv == Init => IInv
<1> SUFFICES ASSUME Init PROVE IInv
  OBVIOUS
<1>1. PICK s \in Starts :
        /\ n = [lo |-> 0, c4 |-> 0, c5 |-> 0, hi |-> 0,
                vlo |-> s.v % 8, vhi |-> s.v \div 8, f |-> s.f]
        /\ n_cpu_clk = TRUE /\ mreq_t23 = FALSE /\ ioreq_gtw3 = FALSE
        /\ cyc = Quiet /\ mreq = FALSE /\ iorq = FALSE /\ zone = FALSE
        /\ held = 0 /\ lines = s.lines /\ active = s.active
  BY DEF Init
<1>2. s.v \in 0 .. 311 /\ s.f \in 0 .. 31 /\ s.lines \in Nat /\ s.active \in BOOLEAN
  BY StartsAssumption
<1>3. s.v % 8 \in 0 .. 7 /\ s.v \div 8 \in 0 .. 38
  BY <1>2
<1>4. cyc.kind = "internal" /\ cyc.t = 1
  BY <1>1 DEF Quiet, Cycle
<1>5. TypeOK
  <2>1. cyc.kind \in Kinds /\ cyc.t \in 1 .. Length(cyc.kind)
    BY <1>4 DEF Kinds, Length
  <2>2. n \in [lo : 0 .. 15, c4 : 0 .. 1, c5 : 0 .. 1, hi : 0 .. 6,
               vlo : 0 .. 7, vhi : 0 .. 38, f : 0 .. 31]
    BY <1>1, <1>2, <1>3
  <2> QED
    BY <1>1, <1>2, <2>1, <2>2 DEF TypeOK
<1>6. ~Bit(0, 1)
  BY SMT DEF Bit
<1>7. ClockFollows
  BY <1>1, <1>6 DEF ClockFollows
<1>8. MreqFirst(cyc) = FALSE
  BY <1>4 DEF MreqFirst
<1>9. HeldWaits /\ AccessHeldOnce
  BY <1>1 DEF HeldWaits, AccessHeldOnce
<1>10. LatchesFollow
  <2>1. mreq_t23 = FALSE /\ iorq = FALSE
    BY <1>1
  <2> QED
    BY <1>8, <2>1 DEF LatchesFollow
<1> QED
  BY <1>5, <1>7, <1>9, <1>10 DEF IInv

(* c0 alternates; where it rises nothing else counts. *)
LEMMA Alternates ==
  ASSUME NEW m \in Counters
  PROVE  /\ Bit(Counted(m).lo, 1) <=> ~Bit(m.lo, 1)
         /\ ~Bit(m.lo, 1) => Counted(m).lo = m.lo + 1 /\ border(Counted(m)) = border(m)
<1>1. m.lo \in 0 .. 15 /\ Counted(m).lo = (m.lo + 1) % 16
  BY CountedFields DEF Counters
<1>2. ((m.lo + 1) % 16) % 2 = 1 <=> m.lo % 2 # 1
  BY <1>1
<1>3. ASSUME NEW x \in 0 .. 15 PROVE Bit(x, 1) <=> x % 2 = 1
  BY SMT DEF Bit
<1>4. Bit(Counted(m).lo, 1) <=> ~Bit(m.lo, 1)
  <2>1. (m.lo + 1) % 16 \in 0 .. 15
    BY <1>1
  <2> QED
    BY <1>1, <1>2, <1>3, <2>1
<1>5. ASSUME ~Bit(m.lo, 1)
      PROVE  Counted(m).lo = m.lo + 1 /\ border(Counted(m)) = border(m)
  <2>1. m.lo # 15
    BY <1>1, <1>3, <1>5
  <2>2. Counted(m).lo = m.lo + 1
    BY <1>1, <2>1
  <2>3. ~Clkhc6Falls(m)
    BY <2>1 DEF Clkhc6Falls, C4Falls, C3Falls
  <2>4. Counted(m).vhi = m.vhi /\ Counted(m).hi = m.hi
    BY <2>3, CountedFields
  <2> QED
    BY <2>2, <2>4 DEF border
<1> QED
  BY <1>4, <1>5

(* The part of TypeOK that is the same for every step. *)
LEMMA StepCounters ==
  ASSUME TypeOK, n' = Counted(n), Follow
  PROVE  /\ n \in Counters
         /\ n' \in Counters
         /\ lines' \in Nat
<1>1. n \in Counters
  BY DEF TypeOK, Counters
<1>2. n' \in Counters
  BY <1>1, CountedType
<1>3. lines' \in Nat
  BY DEF TypeOK, Follow
<1> QED
  BY <1>1, <1>2, <1>3

(* Where c0 rises. *)
LEMMA FallIInv == IInv /\ Fall => IInv'
<1> SUFFICES ASSUME IInv, Fall PROVE IInv'
  OBVIOUS
<1>1. n \in Counters /\ n' \in Counters /\ lines' \in Nat
  BY StepCounters DEF IInv, Fall
<1>2. /\ n_cpu_clk' = FALSE /\ cyc' = cyc /\ held' = held /\ active' = active
      /\ mreq_t23' = mreq_t23 /\ ioreq_gtw3' = ioreq_gtw3
  BY DEF Fall
<1>3. Bit(n'.lo, 1) /\ n'.lo = n.lo + 1 /\ border(n') = border(n)
  BY <1>1, Alternates DEF Fall
<1>4. mreq' \in BOOLEAN /\ iorq' \in BOOLEAN /\ zone' \in BOOLEAN
  BY DEF IInv, TypeOK, Fall, DmaChanges, MreqSecond
<1>5. TypeOK'
  BY <1>1, <1>2, <1>4 DEF IInv, TypeOK, Counters
<1>6. ClockFollows'
  BY <1>2, <1>3 DEF ClockFollows
<1>7. HeldWaits'
  <2>1. n.lo \in 0 .. 15 /\ held \in Nat
    BY <1>1 DEF IInv, TypeOK, Counters
  <2> QED
    BY <1>2, <1>3, <2>1 DEF IInv, HeldWaits
<1>8. LatchesFollow'
  <2> SUFFICES ASSUME cyc.kind # "dma"
               PROVE  /\ mreq_t23 = MreqFirst(cyc)
                      /\ iorq' => cyc.kind = "io" /\ (cyc.t = 1 \/ ioreq_gtw3)
    BY <1>2 DEF LatchesFollow, MreqFirst
  <2>1. mreq_t23 = MreqFirst(cyc)
    BY DEF IInv, LatchesFollow
  <2>2. \/ IorqSecond(cyc) /\ cyc.t = 1
        \/ iorq' = (iorq /\ IorqSecond(cyc))
    BY DEF Fall, DmaChanges
  <2> QED
    BY <2>1, <2>2 DEF IInv, LatchesFollow, IorqSecond
<1>9. AccessHeldOnce'
  <2>1. cyc.kind = "dma" => cyc.t = 1
    BY DEF IInv, TypeOK, Length
  <2>2. cyc.kind = "dma" \/ zone' = zone
    BY DEF Fall, DmaChanges
  <2> QED
    BY <1>2, <2>1, <2>2 DEF IInv, AccessHeldOnce
<1> QED
  BY <1>5, <1>6, <1>7, <1>8, <1>9 DEF IInv

(* Where c0 falls and the clock is held: only with m_wait set. *)
LEMMA HoldIInv == IInv /\ Hold => IInv'
<1> SUFFICES ASSUME IInv, Hold PROVE IInv'
  OBVIOUS
<1>1. n \in Counters /\ n' \in Counters /\ lines' \in Nat
  BY StepCounters DEF IInv, Hold
<1>2. /\ n_cpu_clk' = n_cpu_clk /\ cyc' = cyc /\ held' = held + 1 /\ active' = active
      /\ mreq_t23' = mreq_t23 /\ ioreq_gtw3' = ioreq_gtw3
  BY DEF Hold
<1>3. ~Bit(n'.lo, 1) /\ Bit(n.lo, 1)
  BY <1>1, Alternates DEF Hold
<1>4. ~border(n') /\ n'.lo \notin 0 .. 3
  BY DEF Hold, MayStay, m_wait
<1>5. mreq' \in BOOLEAN /\ iorq' \in BOOLEAN /\ zone' \in BOOLEAN
  BY DEF IInv, TypeOK, Hold, DmaChanges
<1>6. TypeOK'
  BY <1>1, <1>2, <1>5 DEF IInv, TypeOK, Counters
<1>7. ClockFollows'
  BY <1>3, <1>4 DEF ClockFollows
<1>8. HeldWaits'
  <2>1. n.lo \in 0 .. 15 /\ n'.lo \in 0 .. 15 /\ held \in Nat
    BY <1>1 DEF IInv, TypeOK, Counters
  <2>2. n'.lo >= 4
    BY <1>4, <2>1
  <2>3. n'.lo = (n.lo + 1) % 16
    BY <1>1, CountedFields DEF Hold
  <2>4. n'.lo = n.lo + 1
    BY <2>1, <2>2, <2>3
  <2>5. n.lo % 2 = 1
    BY <1>3, <2>1, SMT DEF Bit
  <2>6. held > 0 => 2 * held <= n.lo - 2
    BY DEF IInv, HeldWaits
  <2>7. 2 * (held + 1) <= n.lo - 1
    BY <2>1, <2>2, <2>4, <2>5, <2>6
  <2> QED
    BY <1>2, <1>4, <2>1, <2>2, <2>4, <2>7 DEF HeldWaits
<1>9. LatchesFollow'
  <2>1. cyc.kind # "dma" => iorq' = iorq
    BY DEF Hold, DmaChanges
  <2> QED
    BY <1>2, <2>1 DEF IInv, LatchesFollow, MreqFirst
<1>10. AccessHeldOnce'
  <2> SUFFICES ASSUME cyc.t # 1, ~(cyc.kind = "fetch" /\ cyc.t = 3)
               PROVE  cyc.kind = "io" /\ zone' /\ ~ioreq_gtw3
    BY <1>2 DEF AccessHeldOnce
  <2>1. cyc.kind \in {"fetch", "data", "io"} /\ cyc.t \in 2 .. 4
    <3>1. cyc.kind \in Kinds /\ cyc.t \in 1 .. Length(cyc.kind)
      BY DEF IInv, TypeOK
    <3>2. Length(cyc.kind) \in {1, 3, 4} /\ (Length(cyc.kind) = 1 => cyc.t = 1)
      BY <3>1 DEF Kinds, Length
    <3>3. cyc.t \in 2 .. 4 /\ Length(cyc.kind) # 1
      BY <3>1, <3>2
    <3> QED
      BY <3>1, <3>3 DEF Kinds, Length
  <2>2. iorq' = iorq
    BY <2>1 DEF Hold, DmaChanges
  <2>3. ~ioreq_gtw3 /\ (iorq' \/ (zone' /\ ~mreq_t23))
    BY DEF Hold, MayStay, Contended
  <2>4. mreq_t23 = MreqFirst(cyc) /\ ~iorq
    BY <2>1, <2>3 DEF IInv, LatchesFollow
  <2>5. zone' /\ ~MreqFirst(cyc)
    BY <2>2, <2>3, <2>4
  <2>6. cyc.kind # "fetch" /\ cyc.kind # "data"
    BY <2>1, <2>5 DEF MreqFirst
  <2> QED
    BY <2>1, <2>3, <2>5, <2>6
<1> QED
  BY <1>6, <1>7, <1>8, <1>9, <1>10 DEF IInv

(* Where the clock rises: a T state begins, and the latches are open. *)
LEMMA RiseIInv == IInv /\ Rise => IInv'
<1> SUFFICES ASSUME IInv, Rise PROVE IInv'
  OBVIOUS
<1>1. n \in Counters /\ n' \in Counters /\ lines' \in Nat
  BY StepCounters DEF IInv, Rise
<1>2. /\ n_cpu_clk' = TRUE /\ held' = 0 /\ active' = active
      /\ mreq_t23' = mreq' /\ ioreq_gtw3' = iorq'
  BY DEF Rise, Latch
<1>3. ~Bit(n'.lo, 1)
  BY <1>1, Alternates DEF Rise
<1>4. cyc' \in Following(cyc) /\ zone' \in Addresses(cyc')
  BY DEF Rise
<1>5. cyc'.kind \in Kinds /\ cyc'.t \in 1 .. Length(cyc'.kind)
  <2>1. cyc.kind \in Kinds /\ cyc.t \in 1 .. Length(cyc.kind)
    BY DEF IInv, TypeOK
  <2>2. \A kind \in Kinds : Length(kind) \in {1, 3, 4}
    BY DEF Kinds, Length
  <2>3. CASE cyc.t < Length(cyc.kind) /\ cyc' = Cycle(cyc.kind, cyc.t + 1)
    BY <2>1, <2>2, <2>3 DEF Cycle
  <2>4. CASE \E kind \in Kinds : cyc' = Cycle(kind, 1)
    BY <2>2, <2>4 DEF Cycle
  <2>5. "internal" \in Kinds
    BY DEF Kinds
  <2> QED
    BY <1>4, <2>3, <2>4, <2>5 DEF Following, Quiet
<1>6. zone' \in BOOLEAN
  BY <1>4 DEF IInv, TypeOK, Addresses
<1>7. mreq' \in BOOLEAN /\ iorq' \in BOOLEAN
  BY DEF IInv, TypeOK, Rise, MreqFirst, IorqFirst
<1>8. TypeOK'
  BY <1>1, <1>2, <1>5, <1>6, <1>7 DEF IInv, TypeOK, Counters
<1>9. ClockFollows' /\ HeldWaits' /\ AccessHeldOnce'
  BY <1>2, <1>3 DEF ClockFollows, HeldWaits, AccessHeldOnce
<1>10. LatchesFollow'
  <2>1. cyc'.kind # "dma" => mreq' = MreqFirst(cyc') /\ iorq' = (iorq /\ IorqFirst(cyc'))
    BY DEF Rise
  <2> QED
    BY <1>2, <2>1 DEF LatchesFollow, MreqFirst, IorqFirst
<1> QED
  BY <1>8, <1>9, <1>10 DEF IInv

(* Every step. *)
LEMMA StepIInv == IInv /\ [Next]_vars => IInv'
<1> SUFFICES ASSUME IInv, [Next]_vars PROVE IInv'
  OBVIOUS
<1>1. CASE Fall
  BY <1>1, FallIInv
<1>2. CASE Hold
  BY <1>2, HoldIInv
<1>3. CASE Rise
  BY <1>3, RiseIInv
<1>4. CASE UNCHANGED vars
  BY <1>4 DEF vars, busVars, IInv, TypeOK, ClockFollows, HeldWaits, LatchesFollow,
     AccessHeldOnce, MreqFirst, border
<1> QED
  BY <1>1, <1>2, <1>3, <1>4 DEF Next

(* The invariant of the ULA: the clock, the latches and the buses go with  *)
(* the counters and the bus cycle at every edge (ula_count.vhd:166-200).   *)
THEOREM UlaInvariant == Spec => []IInv
<1>1. Init => IInv
  BY InitIInv
<1>2. IInv /\ [Next]_vars => IInv'
  BY StepIInv
<1> QED
  BY <1>1, <1>2, PTL DEF Spec

-----------------------------------------------------------------------------
(* No counter leaves its range: c8..c6 are reset at 6 and v8..v3 at 38     *)
(* (hcrst, vrst).                                                          *)
THEOREM TypeCorrect == Spec => []TypeOK
<1>1. IInv => TypeOK
  BY DEF IInv
<1> QED
  BY <1>1, UlaInvariant, PTL

(* An access is held up in its first T state, and at a refresh, and not    *)
(* again: by then a latch has seen MREQ or IORQ (ula_count.vhd:189-200).   *)
THEOREM HeldOnce == Spec => []AccessHeldOnce
<1>1. IInv => AccessHeldOnce
  BY DEF IInv
<1> QED
  BY <1>1, UlaInvariant, PTL

(* The Z80's clock is never held for more than six of its periods, nor     *)
(* outside the picture, whatever is on the buses (m_wait, border).         *)
THEOREM HeldBriefly == Spec => []StretchBounded
<1>1. IInv => StretchBounded
  <2> SUFFICES ASSUME IInv PROVE StretchBounded
    OBVIOUS
  <2>1. /\ n.lo \in 0 .. 15 /\ n.c4 \in 0 .. 1 /\ n.c5 \in 0 .. 1 /\ n.hi \in 0 .. 6
        /\ n.vlo \in 0 .. 7 /\ n.vhi \in 0 .. 38 /\ held \in Nat
    BY DEF IInv, TypeOK
  <2>2. held > 0 => 2 * held <= n.lo - 2 /\ ~border(n)
    BY DEF IInv, HeldWaits
  <2>3. held <= 6
    BY <2>1, <2>2
  <2>4. ~Bit(n.hi, 4) => n.hi < 4
    BY <2>1, SMT DEF Bit
  <2>5. n.hi < 4 => RasterC < 256
    BY <2>1 DEF RasterC
  <2>6. ~Bit(n.vhi, 32) => n.vhi < 32
    BY <2>1, SMT DEF Bit
  <2>7. n.vhi < 32 /\ ~(Bit(n.vhi, 16) /\ Bit(n.vhi, 8)) => n.vhi < 24
    BY <2>1, SMT DEF Bit
  <2>8. n.vhi < 24 => RasterV < 192
    BY <2>1 DEF RasterV
  <2> QED
    BY <2>2, <2>3, <2>4, <2>5, <2>6, <2>7, <2>8 DEF StretchBounded, border
<1> QED
  BY <1>1, UlaInvariant, PTL

(* The interrupt is asked for in the first 64 pixel clocks of line 248, in *)
(* which the Z80's clock goes on (nINT, border).                           *)
THEOREM InterruptKept == Spec => []InterruptLong
<1>1. IInv => InterruptLong
  <2> SUFFICES ASSUME IInv PROVE InterruptLong
    OBVIOUS
  <2>1. /\ n.lo \in 0 .. 15 /\ n.c4 \in 0 .. 1 /\ n.c5 \in 0 .. 1 /\ n.hi \in 0 .. 6
        /\ n.vlo \in 0 .. 7 /\ n.vhi \in 0 .. 38 /\ n_cpu_clk \in BOOLEAN
    BY DEF IInv, TypeOK
  <2>2. (\A w \in {1, 2, 4, 8, 16} : Bit(n.vhi, w)) <=> n.vhi = 31
    <3>1. Bit(n.vhi, 16) => n.vhi \in 16 .. 31
      BY <2>1, SMT DEF Bit
    <3>2. n.vhi \in 16 .. 31 /\ Bit(n.vhi, 8) => n.vhi \in 24 .. 31
      BY <2>1, SMT DEF Bit
    <3>3. n.vhi \in 24 .. 31 /\ Bit(n.vhi, 4) => n.vhi \in 28 .. 31
      BY <2>1, SMT DEF Bit
    <3>4. n.vhi \in 28 .. 31 /\ Bit(n.vhi, 2) => n.vhi \in 30 .. 31
      BY <2>1, SMT DEF Bit
    <3>5. n.vhi \in 30 .. 31 /\ Bit(n.vhi, 1) => n.vhi = 31
      BY <2>1, SMT DEF Bit
    <3>6. /\ Bit(31, 1) /\ Bit(31, 2) /\ Bit(31, 4) /\ Bit(31, 8) /\ Bit(31, 16)
      BY SMT DEF Bit
    <3> QED
      BY <3>1, <3>2, <3>3, <3>4, <3>5, <3>6
  <2>3. ~Bit(0, 4)
    BY SMT DEF Bit
  <2>4. ~nINT(n) <=> n.vhi = 31 /\ n.vlo = 0 /\ n.hi = 0
    BY <2>2, <2>3 DEF nINT, vsync
  <2>5. n.vhi = 31 /\ n.vlo = 0 <=> RasterV = 248
    BY <2>1 DEF RasterV
  <2>6. n.hi = 0 <=> RasterC < 64
    BY <2>1 DEF RasterC
  <2>7. n.vhi = 31 => border(n)
    BY <2>2 DEF border
  <2>8. border(n) => n_cpu_clk = ~Bit(n.lo, 1)
    BY <2>1 DEF IInv, ClockFollows
  <2> QED
    BY <2>4, <2>5, <2>6, <2>7, <2>8 DEF InterruptLong
<1> QED
  BY <1>1, UlaInvariant, PTL

(* The flip-flops count a picture of 312 lines of 448 pixel clocks, for    *)
(* ever, and the pictures (ula_count.vhd, HORIZONTAL, VERTICAL and FLASH   *)
(* COUNTER).                                                               *)
THEOREM RasterCounted == Spec => RasterImplemented
<1>1. Init => Picture!RasterInit
  <2> SUFFICES ASSUME Init PROVE Picture!RasterInit
    OBVIOUS
  <2>1. TypeOK
    BY InitIInv DEF IInv
  <2>2. n.lo = 0 /\ n.c4 = 0 /\ n.c5 = 0 /\ n.hi = 0
    BY DEF Init
  <2>3. n.vlo \in 0 .. 7 /\ n.vhi \in 0 .. 38 /\ n.f \in 0 .. 31
    BY <2>1 DEF TypeOK
  <2>4. PICK s \in Starts : n.vlo = s.v % 8 /\ n.vhi = s.v \div 8
    BY DEF Init
  <2>5. s.v \in 0 .. 311
    BY StartsAssumption
  <2>6. RasterV = s.v
    BY <2>4, <2>5 DEF RasterV
  <2>7. RasterC = 0
    BY <2>2 DEF RasterC
  <2> QED
    BY <2>3, <2>5, <2>6, <2>7 DEF Picture!RasterInit, Picture!PixelClocks,
       Picture!LineCount, Picture!FlashMod
<1>2. IInv /\ [Next]_vars => [Picture!RasterNext]_<<RasterC, RasterV, n.f>>
  <2> SUFFICES ASSUME IInv, [Next]_vars
               PROVE  [Picture!RasterNext]_<<RasterC, RasterV, n.f>>
    OBVIOUS
  <2>1. n \in Counters
    BY DEF IInv, TypeOK, Counters
  <2>2. n' = Counted(n) \/ n' = n
    BY DEF Next, Fall, Hold, Rise, vars
  <2>3. CASE n' = n
    BY <2>3 DEF RasterC, RasterV
  <2>4. CASE n' = Counted(n)
    <3>1. RasterC = Column(n) /\ RasterV = Row(n)
      BY DEF RasterC, RasterV, Column, Row
    <3>2. RasterC' = Column(Counted(n)) /\ RasterV' = Row(Counted(n))
      BY <2>4 DEF RasterC, RasterV, Column, Row
    <3>3. RasterC' = IF RasterC = 447 THEN 0 ELSE RasterC + 1
      BY <2>1, <3>1, <3>2, ColumnCounts
    <3>4. RasterV' = IF RasterC = 447 /\ RasterV = 311 THEN 0
                     ELSE IF RasterC = 447 THEN RasterV + 1 ELSE RasterV
      BY <2>1, <3>1, <3>2, RowCounts
    <3>5. n'.f = IF RasterC = 447 /\ RasterV = 311 THEN (n.f + 1) % 32 ELSE n.f
      <4>1. n'.f = IF Clkhc6Falls(n) THEN NextFlash(n) ELSE n.f
        BY <2>1, <2>4, CountedFields
      <4>2. Clkhc6Falls(n) /\ vrst(n) <=> RasterC = 447 /\ RasterV = 311
        BY <2>1, <3>1, Ends, LastLines
      <4> QED
        BY <2>1, <4>1, <4>2, FlashCounts
    <3>6. 448 - 1 = 447 /\ 312 - 1 = 311
      OBVIOUS
    <3> QED
      BY <3>3, <3>4, <3>5, <3>6 DEF Picture!RasterNext, Picture!EndOfLine,
         Picture!EndOfPicture, Picture!PixelClocks, Picture!LineCount, Picture!FlashMod
  <2> QED
    BY <2>2, <2>3, <2>4
<1> QED
  BY <1>1, <1>2, UlaInvariant, PTL DEF Spec, RasterImplemented, Picture!RasterSpec
=============================================================================
