---------------------------- MODULE ScreenLayout ----------------------------
(***************************************************************************)
(* Where data_interpreter.vhd finds the pixel that the VGA beam is at: the *)
(* bits of its coordinates, from the corner of the ZX Spectrum's picture,  *)
(* are dealt out to the addresses of the pixel and of the colour memory.   *)
(* No state: the signals as functions of the coordinates.                  *)
(* Fpga_proofs has what they add up to.                                    *)
(***************************************************************************)
EXTENDS Integers

\* The beam's coordinates have ten bits.
Coordinate == {k \in Nat : k < 1024}

\* How many VGA pixels wide and high a pixel of the picture is.
Zooms == {1, 2, 4}

\* MODE: "11" and "10" are the small pictures, any other the large one.
Zoom(MODE) == CASE MODE = 3 -> 1 [] MODE = 2 -> 2 [] OTHER -> 4

\* The coordinates from the picture's corner; in the blanking (read_next) those
\* of the first pixel of the row that follows.
x_trans(X, X_INIT, read_next) == IF read_next THEN 0 ELSE (X - X_INIT) % 1024
y_trans(Y, Y_INIT, read_next) ==
  IF read_next THEN ((Y - Y_INIT) + 1) % 1024 ELSE (Y - Y_INIT) % 1024

-----------------------------------------------------------------------------
(* The fields of the coordinates, z being the zoom. *)
group_num(z, y)   == (y \div (64 * z)) % 4
att_row_num(z, y) == (y \div (8 * z)) % 8
pix_row_num(z, y) == (y \div z) % 8
att_col_num(z, x) == (x \div (8 * z)) % 32
pix_col_num(z, x) == (x \div z) % 8

PIXEL_ADDR(z, x, y) == 2048 * group_num(z, y) + 256 * pix_row_num(z, y)
                       + 32 * att_row_num(z, y) + att_col_num(z, x)
COLOR_ADDR(z, x, y) == 256 * group_num(z, y) + 32 * att_row_num(z, y)
                       + att_col_num(z, x)

\* The bit of the byte at PIXEL_ADDR: the leftmost pixel is its highest.
PixelBit(z, x) == 7 - pix_col_num(z, x)
=============================================================================
