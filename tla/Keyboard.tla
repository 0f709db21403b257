------------------------------ MODULE Keyboard ------------------------------
(***************************************************************************)
(* The PS/2 keyboard as the Z80 sees it: input_receiver.vhd turns the scan *)
(* codes that arrive one byte at a time into the matrix of 40 keys of a ZX *)
(* Spectrum.  A PS/2 key may stand for a combination of Spectrum keys, and *)
(* for different ones with SHIFT, ALT GR or Num Lock.                      *)
(*                                                                         *)
(* The keyboard itself is not this project's: pressing a key sends its     *)
(* code, letting it go F0 and the code, with E0 in front for the extended  *)
(* keys, and the key pressed last repeats its code while it is held.  A    *)
(* Spectrum key stands for its bit of a half row, a scan code for the      *)
(* constant of that name (constants.vhd, PT keyboard), and KP0 .. KP9 for  *)
(* the literals of the number pad, the cursor keys' codes after an E0.     *)
(* Left out: capslock, which only lights an LED, and with it the process   *)
(* that sends the LEDs to the keyboard, and the rows of the joysticks.     *)
(***************************************************************************)
EXTENDS SequencesExt, Naturals

CONSTANTS
  Keys,     \* the keys somebody presses: records of a code and whether E0 is sent
  MaxHeld,  \* bound: keys held at the same time
  Habits    \* what the person at the keyboard does: see the assumption

ASSUME HabitsAssumption == Habits \subseteq {"repeat", "overlap", "toggle", "reset"}
ASSUME MaxHeldAssumption == MaxHeld \in Nat
ASSUME KeysAssumption == Keys \subseteq [ext : BOOLEAN, code : STRING \ {"E0", "F0"}]

VARIABLES
  down,               \* the Spectrum keys whose half-row bit is 0
  extended, release,  \* an E0, an F0 was received and the code is to come
  shift, alt,         \* SHIFT (right), ALT (right) held
  numlock,
  held, last,         \* the keys held, and the one pressed last
  line                \* the bytes on their way from the keyboard

receiver == <<down, extended, release, shift, alt, numlock>>
keyboard == <<held, last, line>>
vars     == <<receiver, keyboard>>

Letters == {"A", "B", "C", "D", "E", "F", "G", "H", "I", "J", "K", "L", "M",
            "N", "O", "P", "Q", "R", "S", "T", "U", "V", "W", "X", "Y", "Z"}
Digits  == {"0", "1", "2", "3", "4", "5", "6", "7", "8", "9"}
SpectrumKeys == Letters \union Digits \union {"CAPS", "SYMB", "SPACE", "ENTER"}

RShift == [ext |-> FALSE, code |-> "R_SHIFT"]
AltGr  == [ext |-> TRUE,  code |-> "ALT"]
LAlt   == [ext |-> FALSE, code |-> "ALT"]
Modifiers == {RShift, AltGr, LAlt}

-----------------------------------------------------------------------------
(* What a code stands for, in the order of the source's case statements. *)

\* The value of a table that names combinations, and nothing for other codes.
Of(table, code) == IF code \in DOMAIN table THEN table[code] ELSE {}

Unshifted(code) ==
  IF code \in Letters \union Digits \union {"ENTER"} THEN {code}
  ELSE Of([L_SHIFT |-> {"CAPS"}, CTRL |-> {"SYMB"},
           BACKSPACE |-> {"CAPS", "0"}, CAPSLOCK |-> {"CAPS", "2"},
           ESC |-> {"CAPS", "SPACE"}, TAB |-> {"CAPS", "SYMB"},
           SQUOTE |-> {"SYMB", "7"}, HYPHEN |-> {"SYMB", "J"},
           COMMA |-> {"SYMB", "N"}, DOT |-> {"SYMB", "M"},
           LESS |-> {"SYMB", "R"}, PLUS |-> {"SYMB", "K"}], code)

\* "/" has no key of its own on the PT keyboard: SHIFT_FWSLASH is the 7 key.
Shifted(code) ==
  IF code \in Letters THEN {code, "CAPS"}
  ELSE IF code \in Digits \ {"2", "7", "0"} THEN {"SYMB", code}
  ELSE Of([HYPHEN |-> {"SYMB", "0"}, LESS |-> {"SYMB", "T"}, DOT |-> {"SYMB", "Z"},
           SQUOTE |-> {"SYMB", "C"}, PLUS |-> {"SYMB", "B"}, COMMA |-> {"SYMB", "O"}], code)
       \union (IF code = "2" THEN {"SYMB", "P"} ELSE {})
       \union (IF code = "7" THEN {"SYMB", "V"} ELSE {})
       \union (IF code = "0" THEN {"SYMB", "L"} ELSE {})

NumPad(code) ==
  Of([KP0 |-> {"0"}, KP1 |-> {"1"}, KP2 |-> {"2"}, KP3 |-> {"3"}, KP4 |-> {"4"},
      KP5 |-> {"5"}, KP6 |-> {"6"}, KP7 |-> {"7"}, KP8 |-> {"8"}, KP9 |-> {"9"},
      KP_DOT |-> {"SYMB", "M"}], code)

\* End, Down, Left, Insert, Up, Home and Right.
Cursor(code) ==
  Of([KP1 |-> {"CAPS", "4"}, KP2 |-> {"CAPS", "6"}, KP4 |-> {"CAPS", "5"},
      KP0 |-> {"CAPS", "1"}, KP8 |-> {"CAPS", "7"}, KP7 |-> {"CAPS", "3"},
      KP6 |-> {"CAPS", "8"}], code)

Always(code) ==
  Of([SPACE |-> {"SPACE"}, KP_MINUS |-> {"SYMB", "J"}, KP_PLUS |-> {"SYMB", "K"},
      KP_TIMES |-> {"SYMB", "B"}], code)

\* The Spectrum keys a code presses or lets go.
Combination(ext, code, sh, al, num) ==
  IF ext
  THEN (IF sh \/ al THEN {}
        ELSE Cursor(code) \union Of([MENU |-> {"CAPS", "9"}, ENTER |-> {"ENTER"}], code))
       \union Of([HYPHEN |-> {"SYMB", "V"}], code)
  ELSE (CASE sh -> Shifted(code)
          [] ~sh /\ al -> IF code = "2" THEN {"SYMB", "2"} ELSE {}
          [] OTHER -> Unshifted(code) \union IF num THEN NumPad(code) ELSE {})
       \union (IF sh \/ ~num THEN Cursor(code) ELSE {})
       \union Always(code)

Init ==
  /\ down = {} /\ extended = FALSE /\ release = FALSE
  /\ shift = FALSE /\ alt = FALSE /\ numlock = TRUE
  /\ held = {} /\ last = LAlt /\ line = <<>>

-----------------------------------------------------------------------------
(* The receiver *)

\* Mutant: the rows are left as they are when a modifier goes.
Clears_Never(code) == FALSE

\* clear_halfrows: both modifiers, received while they count as held.
Clears(code) ==
  \/ shift /\ ~extended /\ code = "R_SHIFT"
  \/ ~shift /\ alt /\ code = "ALT"

\* Neither looks at release: a modifier's code takes it from one state to the
\* other.
NextShift(code) ==
  IF ~extended /\ code = "R_SHIFT" THEN ~shift /\ ~alt ELSE shift

\* Mutant: ALT (left) counts as ALT GR.
NextAlt_Left(code) == IF ~shift /\ code = "ALT" THEN ~alt ELSE alt

NextAlt(code) ==
  IF ~shift /\ code = "ALT" THEN ~alt /\ extended ELSE alt

\* Mutant: release survives the code.
Translate_KeepRelease(code) ==
  LET keys == Combination(extended, code, shift, alt, numlock)
  IN  /\ down' = IF Clears(code) THEN {}
                 ELSE IF release THEN down \ keys ELSE down \union keys
      /\ shift' = NextShift(code) /\ alt' = NextAlt(code)
      /\ numlock' = (numlock # (code = "NUMLOCK" /\ ~extended /\ ~release))
      /\ extended' = FALSE /\ UNCHANGED release

Translate(code) ==
  LET keys == Combination(extended, code, shift, alt, numlock)
  IN  /\ down' = IF Clears(code) THEN {}
                 ELSE IF release THEN down \ keys ELSE down \union keys
      /\ shift' = NextShift(code) /\ alt' = NextAlt(code)
      /\ numlock' = (numlock # (code = "NUMLOCK" /\ ~extended /\ ~release))
      /\ extended' = FALSE /\ release' = FALSE

Receive ==
  /\ line # <<>> /\ line' = Tail(line)
  /\ \/ /\ Head(line) = "E0" /\ extended' = TRUE
        /\ UNCHANGED <<down, release, shift, alt, numlock>>
     \/ /\ Head(line) = "F0" /\ release' = TRUE
        /\ UNCHANGED <<down, extended, shift, alt, numlock>>
     \/ /\ Head(line) \notin {"E0", "F0"} /\ Translate(Head(line))
  /\ UNCHANGED <<held, last>>

\* keyboard_reset, at the start and whenever the reset button is pressed.
Reset ==
  /\ "reset" \in Habits \/ (held = {} /\ line = <<>>)
  /\ down' = {} /\ extended' = FALSE /\ release' = FALSE
  /\ shift' = FALSE /\ alt' = FALSE /\ numlock' = TRUE
  /\ UNCHANGED keyboard

-----------------------------------------------------------------------------
(* The keyboard and the person at it.  Keys come one after the other: what a *)
(* key sends is received before the next one is pressed or let go.           *)
Make(key)  == IF key.ext THEN <<"E0", key.code>> ELSE <<key.code>>
Break(key) == IF key.ext THEN <<"E0", "F0", key.code>> ELSE <<"F0", key.code>>

\* Without the habit of it nobody holds two modifiers at a time, or presses
\* Num Lock while a key is held.
Press(key) ==
  /\ line = <<>> /\ key \notin held /\ Cardinality(held) < MaxHeld
  /\ key \in Modifiers => "overlap" \in Habits \/ held \intersect Modifiers = {}
  /\ key.code = "NUMLOCK" => "toggle" \in Habits \/ held = {}
  /\ held' = held \union {key} /\ last' = key /\ line' = Make(key)
  /\ UNCHANGED receiver

Repeat ==
  /\ line = <<>> /\ last \in held
  /\ last \in Modifiers => "repeat" \in Habits
  /\ line' = Make(last)
  /\ UNCHANGED <<held, last, receiver>>

LetGo(key) ==
  /\ line = <<>> /\ key \in held
  /\ held' = held \ {key} /\ line' = Break(key)
  /\ UNCHANGED <<last, receiver>>

Next == Receive \/ Reset \/ Repeat \/ \E key \in Keys : Press(key) \/ LetGo(key)

Spec == Init /\ [][Next]_vars

-----------------------------------------------------------------------------
(* Types of all variables; a prefix waits for its code and not longer. *)
TypeOK ==
  /\ down \subseteq SpectrumKeys
  /\ extended \in BOOLEAN /\ release \in BOOLEAN
  /\ line = <<>> => ~extended /\ ~release
  /\ shift \in BOOLEAN /\ alt \in BOOLEAN /\ numlock \in BOOLEAN
  /\ held \subseteq Keys /\ last \in Keys \union {LAlt}
  /\ Len(line) <= 3

\* The Spectrum keys a PS/2 key can press, with whatever else is held.
CanPress(key) ==
  {k \in SpectrumKeys : \E sh, al, num \in BOOLEAN :
                          k \in Combination(key.ext, key.code, sh, al, num)}

(***************************************************************************)
(* "To remove problem with shift being let go before the button": in       *)
(* whatever order keys and modifiers are pressed and let go, and though a  *)
(* key may let other Spectrum keys go than it pressed, a Spectrum key is   *)
(* down with no modifier held only if one of its PS/2 keys is held         *)
(* (input_receiver.vhd:428-432).                                           *)
(***************************************************************************)
NoGhostKey ==
  line = <<>> /\ ~shift /\ ~alt =>
    \A k \in down : \E key \in held : k \in CanPress(key)

(***************************************************************************)
(* The two flags that choose the tables say which modifiers are held: as   *)
(* every code of theirs turns them over, one too many would leave them the *)
(* wrong way round for good.                                               *)
(***************************************************************************)
ModifiersFollowKeys ==
  line = <<>> => (shift <=> RShift \in held) /\ (alt <=> AltGr \in held)

(***************************************************************************)
(* "To register letting go of SHIFT" (input_receiver.vhd:426): the flag    *)
(* goes only when the key does, or with a reset.                           *)
(***************************************************************************)
ShiftGoesWithKey ==
  [][ shift /\ ~shift' /\ line' # line => RShift \notin held ]_vars
=============================================================================
