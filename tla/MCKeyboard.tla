----------------------------- MODULE MCKeyboard -----------------------------
(***************************************************************************)
(* Keyboard with one key of each kind: plain, a combination, a different   *)
(* combination with SHIFT or ALT GR, a number pad key and the cursor key   *)
(* of the same code, a Spectrum shift key, the modifiers and Num Lock.     *)
(***************************************************************************)
EXTENDS Keyboard

Plain(codes) == {[ext |-> FALSE, code |-> c] : c \in codes}

MCKeys == Plain({"A", "2", "DOT", "BACKSPACE", "SPACE", "KP4", "CTRL", "NUMLOCK"})
          \union {[ext |-> TRUE, code |-> "KP4"]} \union Modifiers
=============================================================================
