------------------------------ MODULE BusLease ------------------------------
(***************************************************************************)
(* What the bus arbitration between the Z80 and the NIOS II promises,      *)
(* without saying how: at any time one of the two owns the ZX Spectrum's   *)
(* buses, a DMA cycle of the NIOS takes place only while the NIOS owns     *)
(* them, and the ownership never changes in the middle of a DMA cycle.     *)
(* DmaHal implements it (DmaHal!LeaseRefinement).                          *)
(***************************************************************************)
VARIABLES
  owner,      \* who drives the address, data and control buses
  cycle       \* the kind of the DMA cycle in progress, or "none"

leaseVars == <<owner, cycle>>

Cycles == {"read_mem", "write_mem", "read_io", "write_io"}

LeaseTypeOK == owner \in {"z80", "nios"} /\ cycle \in Cycles \union {"none"}

LeaseInit == owner = "z80" /\ cycle = "none"

Grant == /\ owner = "z80"
         /\ owner' = "nios"
         /\ UNCHANGED cycle

Release == /\ owner = "nios" /\ cycle = "none"
           /\ owner' = "z80"
           /\ UNCHANGED cycle

Begin(kind) == /\ owner = "nios" /\ cycle = "none"
               /\ cycle' = kind
               /\ UNCHANGED owner

End == /\ cycle # "none"
       /\ cycle' = "none"
       /\ UNCHANGED owner

LeaseNext == Grant \/ Release \/ (\E kind \in Cycles : Begin(kind)) \/ End

LeaseSpec == LeaseInit /\ [][LeaseNext]_leaseVars
=============================================================================
