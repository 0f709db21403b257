------------------------------- MODULE Raster -------------------------------
(***************************************************************************)
(* What the ULA's counters are for: a picture of 312 lines of 448 pixel    *)
(* clocks, over and over, and a flash counter of five bits that counts the *)
(* pictures.  Ula implements it (Ula!RasterImplemented) with cascaded      *)
(* flip-flops; the process that ula_count.vhd has commented out says it    *)
(* this way.                                                               *)
(***************************************************************************)
EXTENDS Naturals

VARIABLES c, v, f   \* pixel of the line, line, flash counter

PixelClocks == 448
LineCount   == 312
FlashMod    == 32

RasterInit == c \in 0 .. PixelClocks - 1 /\ v \in 0 .. LineCount - 1
              /\ f \in 0 .. FlashMod - 1

EndOfLine    == c = PixelClocks - 1
EndOfPicture == EndOfLine /\ v = LineCount - 1

RasterNext ==
  /\ c' = IF EndOfLine THEN 0 ELSE c + 1
  /\ v' = IF EndOfPicture THEN 0 ELSE IF EndOfLine THEN v + 1 ELSE v
  /\ f' = IF EndOfPicture THEN (f + 1) % FlashMod ELSE f

RasterSpec == RasterInit /\ [][RasterNext]_<<c, v, f>>
=============================================================================
