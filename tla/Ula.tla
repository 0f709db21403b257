-------------------------------- MODULE Ula --------------------------------
(***************************************************************************)
(* The ULA's counters and what hangs on them (ula_count.vhd): the raster,  *)
(* the interrupt, and the Z80's clock, which the ULA stops while the Z80   *)
(* is about to use the memory the picture is read from.                    *)
(*                                                                         *)
(* A step is a period of the 7 MHz clock.  The Z80's clock is half as      *)
(* fast; its T states begin where it rises (n_cpu_clk, T80a's CLK_n) and   *)
(* T80a changes MREQ and IORQ where it falls.  Stopping the clock is a     *)
(* loop of gates: n_cpu_clk depends on contention_time, which depends on   *)
(* n_cpu_clk.  Where two of its inputs change at the same edge either may  *)
(* win.                                                                    *)
(***************************************************************************)
EXTENDS Integers

CONSTANT
  Starts   \* where to start and how far to go: [v, f, lines, active], the
           \* line, the flash counter, a number of lines, and whether the Z80
           \* and DMA sessions use the buses

ASSUME StartsAssumption ==
  Starts \subseteq [v : 0 .. 311, f : 0 .. 31, lines : Nat \ {0}, active : BOOLEAN]

VARIABLES
  n,           \* the counters: lo (c3..c0), c4, c5, hi (c8..c6), vlo (v2..v0),
               \* vhi (v8..v3), f (flash_ctr)
  n_cpu_clk,   \* the Z80's clock
  mreq_t23, ioreq_gtw3,  \* the latches
  cyc,         \* the bus cycle: its kind and its T state
  mreq, iorq, zone,  \* MREQ, IORQ of an even port, and an address with A15..A14
                     \* = 01, on the buses
  held,        \* T states' worth of time the clock has been held for by now
  lines,       \* lines that are still to be followed
  active       \* see Starts; never changes

busVars == <<cyc, mreq, iorq, zone>>
vars    == <<n, n_cpu_clk, mreq_t23, ioreq_gtw3, busVars, held, lines, active>>

\* The bit of weight w.
Bit(x, w) == (x \div w) % 2 = 1

-----------------------------------------------------------------------------
(* The counters.  c0..c3 count together; c4 and c5 are clocked by what falls *)
(* below them, and c5 clocks all of c6..c8 and v.                            *)
C3Falls(m) == m.lo = 15
C4Falls(m) == C3Falls(m) /\ m.c4 = 1
Clkhc6Falls(m) == C4Falls(m) /\ m.c5 = 1

\* Mutant: c8..c6 run on to 7.
hcrst_All(m) == m.hi = 7

hcrst(m) == Bit(m.hi, 2) /\ Bit(m.hi, 4)
en_vtff3(m) == hcrst(m) /\ m.vlo = 7

\* Mutant: v4 is not looked at.
vrst_NoV4(m) == en_vtff3(m) /\ Bit(m.vhi, 4) /\ Bit(m.vhi, 32)

vrst(m) == en_vtff3(m) /\ Bit(m.vhi, 2) /\ Bit(m.vhi, 4) /\ Bit(m.vhi, 32)

NextHi(m) == IF hcrst(m) THEN 0 ELSE (m.hi + 1) % 8
NextVlo(m) == IF hcrst(m) THEN (m.vlo + 1) % 8 ELSE m.vlo
NextVhi(m) == IF vrst(m) THEN 0
              ELSE IF en_vtff3(m) THEN (m.vhi + 1) % 64 ELSE m.vhi

\* The flash counter is clocked by v8.
NextFlash(m) == IF Bit(m.vhi, 32) /\ ~Bit(NextVhi(m), 32) THEN (m.f + 1) % 32 ELSE m.f

Counted(m) ==
  LET upper == [m EXCEPT !.hi = NextHi(m), !.vlo = NextVlo(m),
                         !.vhi = NextVhi(m), !.f = NextFlash(m)]
  IN  [(IF Clkhc6Falls(m) THEN upper ELSE m) EXCEPT
         !.lo = (m.lo + 1) % 16,
         !.c4 = IF C3Falls(m) THEN 1 - @ ELSE @,
         !.c5 = IF C4Falls(m) THEN 1 - @ ELSE @]

-----------------------------------------------------------------------------
(* What is read off the counters. *)

\* Mutant: the lower border is left out.
border_UpperOnly(m) == Bit(m.vhi, 32) \/ Bit(m.hi, 4)

border(m) == (Bit(m.vhi, 16) /\ Bit(m.vhi, 8)) \/ Bit(m.vhi, 32) \/ Bit(m.hi, 4)
vsync(m)  == (\A w \in {1, 2, 4, 8, 16} : Bit(m.vhi, w)) /\ ~Bit(m.vlo, 4)
nINT(m)   == ~(vsync(m) /\ m.vlo = 0 /\ m.hi = 0)

\* Mutant: c1 makes the Z80 wait as well.
m_wait_Early(m) == m.lo \notin 0 .. 1

m_wait(m) == m.lo \notin 0 .. 3

\* The inputs of m_wait change at the edge that would let the clock rise: c2
\* comes up, or goes as c3 comes.
Glitch(m) == m.lo \in {4, 8}

\* memory_contention or io_contention, n_cpu_clk being low.
Contended(io, adr) ==
  ~ioreq_gtw3 /\ (io \/ (adr /\ ~mreq_t23))

\* What may become of the clock where c0 falls.
MayRise(m, io, adr) == ~Contended(io, adr) \/ border(m) \/ ~m_wait(m) \/ Glitch(m)
MayStay(m, io, adr) == Contended(io, adr) /\ ~border(m) /\ m_wait(m)

-----------------------------------------------------------------------------
(* The buses.  T80a's bus cycles: an opcode fetch of four T states with the  *)
(* refresh in the last two, a memory access of three, a port access of four, *)
(* single T states without either; and what a DMA session puts on the buses. *)
Length(kind) == CASE kind = "fetch" -> 4 [] kind = "data" -> 3 [] kind = "io" -> 4
                  [] kind \in {"internal", "dma"} -> 1

Kinds == {"fetch", "data", "io", "internal", "dma"}
Cycle(kind, t) == [kind |-> kind, t |-> t]
Quiet == Cycle("internal", 1)

\* MREQ and IORQ in the two halves of a T state.
MreqFirst(y)  == (y.kind = "fetch" /\ y.t \in {2, 4}) \/ (y.kind = "data" /\ y.t > 1)
MreqSecond(y) == (y.kind = "fetch" /\ y.t < 4) \/ (y.kind = "data" /\ y.t < 3)
IorqFirst(y)  == y.kind = "io" /\ y.t > 1
IorqSecond(y) == y.kind = "io" /\ y.t < 4

\* The T state that follows: the next of the cycle, or the first of another.
Following(y) ==
  IF ~active THEN {Quiet}
  ELSE IF y.t < Length(y.kind) THEN {Cycle(y.kind, y.t + 1)}
  ELSE {Cycle(kind, 1) : kind \in Kinds}

\* The address changes with the cycle, and at the refresh.
Addresses(y) == IF ~active THEN {FALSE}
                ELSE IF y.t = 1 \/ (y.kind = "fetch" /\ y.t = 3) THEN BOOLEAN
                ELSE {zone}

-----------------------------------------------------------------------------
Init ==
  \E s \in Starts :
    /\ n = [lo |-> 0, c4 |-> 0, c5 |-> 0, hi |-> 0,
            vlo |-> s.v % 8, vhi |-> s.v \div 8, f |-> s.f]
    /\ n_cpu_clk = TRUE /\ mreq_t23 = FALSE /\ ioreq_gtw3 = FALSE
    /\ cyc = Quiet /\ mreq = FALSE /\ iorq = FALSE /\ zone = FALSE
    /\ held = 0 /\ lines = s.lines /\ active = s.active

\* The bound: the last line is followed to its end.
Follow == /\ lines > 0
          /\ lines' = IF hcrst(n) /\ Clkhc6Falls(n) THEN lines - 1 ELSE lines

\* A DMA session may do anything to the buses at any time.
DmaChanges == /\ cyc.kind = "dma"
              /\ mreq' \in BOOLEAN /\ iorq' \in BOOLEAN /\ zone' \in BOOLEAN

\* c0 rises: the Z80's clock falls, unless it is low already.  An IORQ of an
\* odd port does not reach the ULA (top.vhd).
Fall ==
  /\ ~Bit(n.lo, 1) /\ Follow /\ n' = Counted(n)
  /\ n_cpu_clk' = FALSE
  /\ \/ DmaChanges
     \/ /\ cyc.kind # "dma"
        /\ mreq' = MreqSecond(cyc)
        /\ IF n_cpu_clk /\ IorqSecond(cyc) /\ cyc.t = 1
           THEN iorq' \in BOOLEAN
           ELSE iorq' = (iorq /\ IorqSecond(cyc))
        /\ UNCHANGED zone
  /\ UNCHANGED <<mreq_t23, ioreq_gtw3, cyc, held, active>>

\* c0 falls: the clock is held low ...
Hold ==
  /\ Bit(n.lo, 1) /\ Follow /\ n' = Counted(n)
  /\ DmaChanges \/ (cyc.kind # "dma" /\ UNCHANGED <<mreq, iorq, zone>>)
  /\ MayStay(n', iorq', zone')
  /\ held' = held + 1
  /\ UNCHANGED <<n_cpu_clk, mreq_t23, ioreq_gtw3, cyc, active>>

\* Mutant: the latches are closed for good.
Latch_Closed == UNCHANGED <<mreq_t23, ioreq_gtw3>>

\* The latches are transparent while the clock is high.
Latch == mreq_t23' = mreq' /\ ioreq_gtw3' = iorq'

\* ... or rises: the next T state begins.
Rise ==
  /\ Bit(n.lo, 1) /\ Follow /\ n' = Counted(n)
  /\ MayRise(n', iorq, zone)
  /\ n_cpu_clk' = TRUE
  /\ cyc' \in Following(cyc)
  /\ zone' \in Addresses(cyc')
  /\ IF cyc'.kind = "dma" THEN mreq' \in BOOLEAN /\ iorq' \in BOOLEAN
     ELSE mreq' = MreqFirst(cyc') /\ iorq' = (iorq /\ IorqFirst(cyc'))
  /\ Latch
  /\ held' = 0
  /\ UNCHANGED active

Next == Fall \/ Hold \/ Rise

Spec == Init /\ [][Next]_vars

-----------------------------------------------------------------------------
(* Types of all variables: no counter leaves its range. *)
TypeOK ==
  /\ n \in [lo : 0 .. 15, c4 : 0 .. 1, c5 : 0 .. 1, hi : 0 .. 6,
            vlo : 0 .. 7, vhi : 0 .. 38, f : 0 .. 31]
  /\ n_cpu_clk \in BOOLEAN /\ mreq_t23 \in BOOLEAN /\ ioreq_gtw3 \in BOOLEAN
  /\ cyc.kind \in Kinds /\ cyc.t \in 1 .. Length(cyc.kind)
  /\ mreq \in BOOLEAN /\ iorq \in BOOLEAN /\ zone \in BOOLEAN
  /\ held \in Nat /\ lines \in Nat /\ active \in BOOLEAN

\* The refinement mapping: the counters as the numbers they stand for.
RasterC == n.lo + 16 * n.c4 + 32 * n.c5 + 64 * n.hi
RasterV == n.vlo + 8 * n.vhi

Picture == INSTANCE Raster WITH c <- RasterC, v <- RasterV, f <- n.f

(***************************************************************************)
(* The flip-flops, clocked by one another and reset in two places, count a *)
(* picture (ula_count.vhd, HORIZONTAL, VERTICAL and FLASH COUNTER).        *)
(***************************************************************************)
RasterImplemented == Picture!RasterSpec

(***************************************************************************)
(* The interrupt is asked for once a picture, for 64 pixel clocks in which *)
(* nothing holds the Z80's clock: 32 T states, more than the longest       *)
(* instruction has, so that the Z80 finds it at the end of one (nINT).     *)
(***************************************************************************)
InterruptLong ==
  /\ ~nINT(n) <=> RasterV = 248 /\ RasterC < 64
  /\ ~nINT(n) => n_cpu_clk = ~Bit(n.lo, 1)

(***************************************************************************)
(* An access to contended memory, or to the ULA's port, is held up once    *)
(* only, in its first T state, and again at the refresh of a fetch: after  *)
(* that the latches know that the access is under way.  A port access that *)
(* is not the ULA's, at a contended address, is held up in each T state.   *)
(***************************************************************************)
AccessHeldOnce ==
  held > 0 => \/ cyc.t = 1
              \/ cyc.kind = "fetch" /\ cyc.t = 3
              \/ cyc.kind = "io" /\ zone /\ ~ioreq_gtw3

(***************************************************************************)
(* Nothing on the buses, not even a DMA session, stops the Z80's clock for *)
(* more than six T states at a time, or outside the picture (m_wait,       *)
(* border, contention_time).                                               *)
(***************************************************************************)
StretchBounded ==
  /\ held <= 6
  /\ held > 0 => RasterV < 192 /\ RasterC < 256
=============================================================================
