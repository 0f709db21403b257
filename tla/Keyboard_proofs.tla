-------------------------- MODULE Keyboard_proofs --------------------------
(***************************************************************************)
(* Proofs about the keyboard, for any keys and any number of them held, of *)
(* somebody without the habits that Keyboard lists: one modifier at a time *)
(* and Num Lock alone.  What a key sends takes several steps, so the       *)
(* invariant says where its codes are, and what the matrix and the flags   *)
(* were when they were sent.                                               *)
(***************************************************************************)
EXTENDS Keyboard, TLAPS

-----------------------------------------------------------------------------
(* What the codes stand for. *)

LEMMA TablesInMatrix ==
  ASSUME NEW c
  PROVE  /\ NumPad(c) \subseteq SpectrumKeys
         /\ Cursor(c) \subseteq SpectrumKeys
         /\ Always(c) \subseteq SpectrumKeys
         /\ Shifted(c) \subseteq SpectrumKeys
         /\ Unshifted(c) \subseteq SpectrumKeys
<1> USE DEF Of, SpectrumKeys, Digits, Letters
<1>1. NumPad(c) \subseteq SpectrumKeys
  BY DEF NumPad
<1>2. Cursor(c) \subseteq SpectrumKeys
  BY DEF Cursor
<1>3. Always(c) \subseteq SpectrumKeys
  BY DEF Always
<1>4. Shifted(c) \subseteq SpectrumKeys
  BY DEF Shifted
<1>5. Unshifted(c) \subseteq SpectrumKeys
  BY DEF Unshifted
<1> QED
  BY <1>1, <1>2, <1>3, <1>4, <1>5

LEMMA CombinationInMatrix ==
  ASSUME NEW e \in BOOLEAN, NEW c, NEW sh \in BOOLEAN, NEW al \in BOOLEAN, NEW num \in BOOLEAN
  PROVE  Combination(e, c, sh, al, num) \subseteq SpectrumKeys
<1>1. /\ Of([MENU |-> {"CAPS", "9"}, ENTER |-> {"ENTER"}], c) \subseteq SpectrumKeys
      /\ Of([HYPHEN |-> {"SYMB", "V"}], c) \subseteq SpectrumKeys
      /\ {"SYMB", "2"} \subseteq SpectrumKeys
  BY DEF Of, SpectrumKeys, Letters, Digits
<1> QED
  BY <1>1, TablesInMatrix DEF Combination

(* Num Lock has no place in the matrix. *)
LEMMA NumLockHasNone ==
  ASSUME NEW num \in BOOLEAN
  PROVE  Combination(FALSE, "NUMLOCK", FALSE, FALSE, num) = {}
<1>1. NumPad("NUMLOCK") = {}
  BY DEF Of, NumPad
<1>2. Unshifted("NUMLOCK") = {}
  BY DEF Of, Unshifted, Letters, Digits
<1>3. Cursor("NUMLOCK") = {} /\ Always("NUMLOCK") = {}
  BY DEF Of, Cursor, Always
<1> QED
  BY <1>1, <1>2, <1>3 DEF Combination

(* What a key is, and which keys are modifiers. *)
LEMMA KeyParts ==
  ASSUME NEW key \in Keys
  PROVE  /\ key.ext \in BOOLEAN /\ key.code \notin {"E0", "F0"}
         /\ key = RShift <=> ~key.ext /\ key.code = "R_SHIFT"
         /\ key = AltGr <=> key.ext /\ key.code = "ALT"
         /\ key = LAlt <=> ~key.ext /\ key.code = "ALT"
<1>1. key \in [ext : BOOLEAN, code : STRING \ {"E0", "F0"}]
  BY KeysAssumption
<1>2. key = [ext |-> key.ext, code |-> key.code]
  BY <1>1
<1> QED
  BY <1>1, <1>2 DEF RShift, AltGr, LAlt

(* A key presses what it stands for with no modifier, among others. *)
LEMMA PlainCanPress ==
  ASSUME NEW key \in Keys, numlock \in BOOLEAN
  PROVE  Combination(key.ext, key.code, FALSE, FALSE, numlock) \subseteq CanPress(key)
<1> SUFFICES ASSUME NEW k \in Combination(key.ext, key.code, FALSE, FALSE, numlock)
             PROVE  k \in CanPress(key)
  OBVIOUS
<1>1. k \in SpectrumKeys
  BY KeyParts, CombinationInMatrix
<1>2. \E sh, al, num \in BOOLEAN : k \in Combination(key.ext, key.code, sh, al, num)
  OBVIOUS
<1> QED
  BY <1>1, <1>2 DEF CanPress

-----------------------------------------------------------------------------
(* The invariant. *)

(* The matrix and the flags are those of the held keys H. *)
Settled(H) ==
  /\ shift <=> RShift \in H
  /\ alt <=> AltGr \in H
  /\ ~shift /\ ~alt =>
       \A k \in down : \E key \in H : k \in Combination(key.ext, key.code, FALSE, FALSE, numlock)

OneModifier(H) == \A m, n \in H \intersect Modifiers : m = n

(* What is left of the codes that a key sends, pressed or let go (rel), and *)
(* which of their prefixes the receiver has.                                *)
Sending(key, rel) ==
  \/ /\ key.ext /\ ~extended /\ ~release
     /\ line = IF rel THEN <<"E0", "F0", key.code>> ELSE <<"E0", key.code>>
  \/ /\ rel /\ (extended <=> key.ext) /\ ~release
     /\ line = <<"F0", key.code>>
  \/ /\ (extended <=> key.ext) /\ (release <=> rel)
     /\ line = <<key.code>>

(* The codes of a key that was pressed, or repeats; of one that was let go. *)
Making(key) ==
  /\ Sending(key, FALSE) /\ key \in held /\ key = last /\ OneModifier(held)
  /\ Settled(IF key \in Modifiers THEN held \ {key} ELSE held)

Breaking(key) ==
  /\ Sending(key, TRUE) /\ key \notin held
  /\ OneModifier(held \union {key}) /\ Settled(held \union {key})

Quiet ==
  /\ line = <<>> /\ ~extended /\ ~release
  /\ OneModifier(held) /\ Settled(held)

(* Num Lock repeats while it is the only key held. *)
NumLockAlone == last \in held /\ last.code = "NUMLOCK" => held = {last}

Typed ==
  /\ down \subseteq SpectrumKeys
  /\ extended \in BOOLEAN /\ release \in BOOLEAN
  /\ shift \in BOOLEAN /\ alt \in BOOLEAN /\ numlock \in BOOLEAN
  /\ held \subseteq Keys /\ last \in Keys \union {LAlt}

IInv ==
  /\ Typed /\ NumLockAlone
  /\ Quiet \/ \E key \in Keys : Making(key) \/ Breaking(key)

(* The sequences of codes, taken apart. *)
LEMMA Codes ==
  ASSUME NEW a, NEW b, NEW c
  PROVE  /\ Head(<<a>>) = a /\ Tail(<<a>>) = <<>>
         /\ Head(<<a, b>>) = a /\ Tail(<<a, b>>) = <<b>>
         /\ Head(<<a, b, c>>) = a /\ Tail(<<a, b, c>>) = <<b, c>>
         /\ <<a>> # <<>> /\ <<a, b>> # <<>> /\ <<a, b, c>> # <<>>
         /\ Len(<<a>>) = 1 /\ Len(<<a, b>>) = 2 /\ Len(<<a, b, c>>) = 3
<1> QED
  OBVIOUS

LEMMA InitInv == Init => IInv
<1> QED
  BY DEF Init, IInv, Typed, NumLockAlone, Quiet, Settled, OneModifier

-----------------------------------------------------------------------------
(* A code received. *)

(* A byte of what a key sends is a prefix, or the code. *)
LEMMA NextByte ==
  ASSUME Typed, NEW key \in Keys, NEW rel \in BOOLEAN, Sending(key, rel), Receive
  PROVE  /\ held' = held /\ last' = last
         /\ \/ Sending(key, rel)' /\ UNCHANGED <<down, shift, alt, numlock>>
            \/ /\ extended = key.ext /\ release = rel
               /\ line' = <<>> /\ Translate(key.code)
<1>1. key.ext \in BOOLEAN /\ key.code # "E0" /\ key.code # "F0"
  BY KeyParts
<1>2. held' = held /\ last' = last /\ line' = Tail(line)
  BY DEF Receive
<1>3. /\ Head(line) = "E0" => extended' = TRUE /\ UNCHANGED <<down, release, shift, alt, numlock>>
      /\ Head(line) = "F0" => release' = TRUE /\ UNCHANGED <<down, extended, shift, alt, numlock>>
      /\ Head(line) \notin {"E0", "F0"} => Translate(Head(line))
  BY DEF Receive
<1>4. extended \in BOOLEAN /\ release \in BOOLEAN
  BY DEF Typed
<1>5. CASE /\ key.ext /\ ~extended /\ ~release
           /\ line = IF rel THEN <<"E0", "F0", key.code>> ELSE <<"E0", key.code>>
  <2>1. CASE rel
    <3>1. line = <<"E0", "F0", key.code>>
      BY <1>5, <2>1
    <3>2. Head(line) = "E0" /\ Tail(line) = <<"F0", key.code>>
      BY <3>1, Codes
    <3> QED
      BY <1>2, <1>3, <1>5, <2>1, <3>2 DEF Sending
  <2>2. CASE ~rel
    <3>1. line = <<"E0", key.code>>
      BY <1>5, <2>2
    <3>2. Head(line) = "E0" /\ Tail(line) = <<key.code>>
      BY <3>1, Codes
    <3> QED
      BY <1>2, <1>3, <1>5, <2>2, <3>2 DEF Sending
  <2> QED
    BY <2>1, <2>2
<1>6. CASE rel /\ (extended <=> key.ext) /\ ~release /\ line = <<"F0", key.code>>
  <2>1. Head(line) = "F0" /\ Tail(line) = <<key.code>>
    BY <1>6, Codes
  <2> QED
    BY <1>2, <1>3, <1>6, <2>1 DEF Sending
<1>7. CASE (extended <=> key.ext) /\ (release <=> rel) /\ line = <<key.code>>
  <2>1. Head(line) = key.code /\ Tail(line) = <<>>
    BY <1>7, Codes
  <2>2. Translate(key.code)
    BY <1>1, <1>3, <2>1
  <2> QED
    BY <1>1, <1>2, <1>4, <1>7, <2>1, <2>2
<1> QED
  BY <1>5, <1>6, <1>7 DEF Sending

(* What a code's translation assigns. *)
LEMMA Translated ==
  ASSUME Typed, NEW key \in Keys, extended = key.ext, Translate(key.code)
  PROVE  /\ down' = IF Clears(key.code) THEN {}
                    ELSE IF release
                         THEN down \ Combination(key.ext, key.code, shift, alt, numlock)
                         ELSE down \union Combination(key.ext, key.code, shift, alt, numlock)
         /\ Clears(key.code) <=> (shift /\ key = RShift) \/ (~shift /\ alt /\ key.code = "ALT")
         /\ shift' = IF key = RShift THEN ~shift /\ ~alt ELSE shift
         /\ alt' = IF ~shift /\ key.code = "ALT" THEN ~alt /\ key.ext ELSE alt
         /\ numlock' = (numlock # (key.code = "NUMLOCK" /\ ~key.ext /\ ~release))
         /\ ~extended' /\ ~release'
         /\ extended' \in BOOLEAN /\ release' \in BOOLEAN
         /\ shift' \in BOOLEAN /\ alt' \in BOOLEAN /\ numlock' \in BOOLEAN
         /\ down' \subseteq SpectrumKeys
<1>1. key = RShift <=> ~key.ext /\ key.code = "R_SHIFT"
  BY KeyParts
<1>2. /\ key.ext \in BOOLEAN /\ shift \in BOOLEAN /\ alt \in BOOLEAN /\ numlock \in BOOLEAN
      /\ down \subseteq SpectrumKeys
  BY KeyParts DEF Typed
<1>3. Clears(key.code) <=> (shift /\ key = RShift) \/ (~shift /\ alt /\ key.code = "ALT")
  BY <1>1 DEF Clears
<1>4. shift' = IF key = RShift THEN ~shift /\ ~alt ELSE shift
  BY <1>1 DEF Translate, NextShift
<1>5. alt' = IF ~shift /\ key.code = "ALT" THEN ~alt /\ key.ext ELSE alt
  BY DEF Translate, NextAlt
<1>6. /\ numlock' = (numlock # (key.code = "NUMLOCK" /\ ~key.ext /\ ~release))
      /\ extended' = FALSE /\ release' = FALSE
  BY DEF Translate
<1>7. down' = IF Clears(key.code) THEN {}
              ELSE IF release
                   THEN down \ Combination(key.ext, key.code, shift, alt, numlock)
                   ELSE down \union Combination(key.ext, key.code, shift, alt, numlock)
  BY DEF Translate
<1>8. Combination(key.ext, key.code, shift, alt, numlock) \subseteq SpectrumKeys
  BY <1>2, CombinationInMatrix
<1>9. down' \subseteq SpectrumKeys
  BY <1>2, <1>7, <1>8
<1>10. shift' \in BOOLEAN /\ alt' \in BOOLEAN /\ numlock' \in BOOLEAN
  BY <1>2, <1>4, <1>5, <1>6
<1> QED
  BY <1>3, <1>4, <1>5, <1>6, <1>7, <1>9, <1>10

(* The code of a key that was pressed: the matrix and the flags are those   *)
(* of the keys held, with it.                                               *)
LEMMA MadeSettles ==
  ASSUME Typed, NumLockAlone, NEW key \in Keys, key \in held, key = last,
         OneModifier(held),
         Settled(IF key \in Modifiers THEN held \ {key} ELSE held),
         extended = key.ext, release = FALSE, Translate(key.code), held' = held
  PROVE  Settled(held)'
<1> DEFINE C == Combination(key.ext, key.code, shift, alt, numlock)
<1>1. /\ down' = IF Clears(key.code) THEN {} ELSE down \union C
      /\ Clears(key.code) <=> (shift /\ key = RShift) \/ (~shift /\ alt /\ key.code = "ALT")
      /\ shift' = IF key = RShift THEN ~shift /\ ~alt ELSE shift
      /\ alt' = IF ~shift /\ key.code = "ALT" THEN ~alt /\ key.ext ELSE alt
      /\ numlock' = (numlock # (key.code = "NUMLOCK" /\ ~key.ext))
      /\ shift' \in BOOLEAN /\ alt' \in BOOLEAN
  BY Translated
<1>2. /\ key.ext \in BOOLEAN /\ shift \in BOOLEAN /\ alt \in BOOLEAN /\ numlock \in BOOLEAN
      /\ key = RShift <=> ~key.ext /\ key.code = "R_SHIFT"
      /\ key = AltGr <=> key.ext /\ key.code = "ALT"
      /\ key = LAlt <=> ~key.ext /\ key.code = "ALT"
  BY KeyParts DEF Typed
<1>3. \A m \in held \intersect Modifiers : key \in Modifiers => m = key
  BY DEF OneModifier
<1> HIDE DEF C
<1>4. CASE key = RShift
  <2>1. ~shift /\ ~alt
    BY <1>3, <1>4 DEF Settled, Modifiers, RShift, AltGr, LAlt
  <2>2. shift' /\ ~alt' /\ RShift \in held /\ AltGr \notin held
    BY <1>1, <1>2, <1>3, <1>4, <2>1 DEF Modifiers, RShift, AltGr, LAlt
  <2> QED
    BY <2>2 DEF Settled
<1>5. CASE key = AltGr
  <2>1. ~shift /\ ~alt
    BY <1>3, <1>5 DEF Settled, Modifiers, RShift, AltGr, LAlt
  <2>2. ~shift' /\ alt' /\ RShift \notin held /\ AltGr \in held
    BY <1>1, <1>2, <1>3, <1>5, <2>1 DEF Modifiers, RShift, AltGr, LAlt
  <2> QED
    BY <2>2 DEF Settled
<1>6. CASE key # RShift /\ key # AltGr
  <2>1. (shift <=> RShift \in held) /\ (alt <=> AltGr \in held)
    BY <1>6 DEF Settled
  <2>2. ~shift /\ ~alt =>
          \A k \in down : \E h \in held : k \in Combination(h.ext, h.code, FALSE, FALSE, numlock)
    BY DEF Settled
  <2>3. shift' = shift /\ alt' = alt
    BY <1>1, <1>2, <1>3, <1>6, <2>1 DEF Modifiers, RShift, AltGr, LAlt
  <2>4. CASE ~(key.code = "NUMLOCK" /\ ~key.ext)
    <3>1. numlock' = numlock
      BY <1>1, <1>2, <2>4
    <3>2. ASSUME ~shift, ~alt, NEW k \in down'
          PROVE  \E h \in held : k \in Combination(h.ext, h.code, FALSE, FALSE, numlock)
      <4>1. k \in down \/ k \in Combination(key.ext, key.code, FALSE, FALSE, numlock)
        <5>1. shift = FALSE /\ alt = FALSE
          BY <1>2, <3>2
        <5> QED
          BY <1>1, <3>2, <5>1 DEF C
      <4> QED
        BY <2>2, <3>2, <4>1
    <3> QED
      BY <2>1, <2>3, <3>1, <3>2 DEF Settled
  <2>5. CASE key.code = "NUMLOCK" /\ ~key.ext
    <3>1. held = {key}
      BY <2>5 DEF NumLockAlone
    <3>2. ~shift /\ ~alt
      BY <1>6, <2>1, <3>1
    <3>3. shift = FALSE /\ alt = FALSE /\ key.ext = FALSE
      BY <1>2, <2>5, <3>2
    <3>4. Combination(key.ext, key.code, FALSE, FALSE, numlock) = {}
      BY <1>2, <2>5, <3>3, NumLockHasNone
    <3>5. down = {} /\ C = {}
      BY <2>2, <3>1, <3>2, <3>3, <3>4 DEF C
    <3>6. down' = {}
      BY <1>1, <3>5
    <3> QED
      BY <2>1, <2>3, <3>6 DEF Settled
  <2> QED
    BY <2>4, <2>5
<1> QED
  BY <1>4, <1>5, <1>6

(* The code of a key that was let go: those of the keys held, without it.   *)
LEMMA BrokenSettles ==
  ASSUME Typed, NEW key \in Keys, key \notin held,
         OneModifier(held \union {key}), Settled(held \union {key}),
         extended = key.ext, release = TRUE, Translate(key.code), held' = held
  PROVE  Settled(held)'
<1> DEFINE C == Combination(key.ext, key.code, shift, alt, numlock)
<1>1. /\ down' = IF Clears(key.code) THEN {} ELSE down \ C
      /\ Clears(key.code) <=> (shift /\ key = RShift) \/ (~shift /\ alt /\ key.code = "ALT")
      /\ shift' = IF key = RShift THEN ~shift /\ ~alt ELSE shift
      /\ alt' = IF ~shift /\ key.code = "ALT" THEN ~alt /\ key.ext ELSE alt
      /\ numlock' = (numlock # FALSE)
      /\ shift' \in BOOLEAN /\ alt' \in BOOLEAN
  BY Translated
<1>2. /\ key.ext \in BOOLEAN /\ shift \in BOOLEAN /\ alt \in BOOLEAN /\ numlock \in BOOLEAN
      /\ key = RShift <=> ~key.ext /\ key.code = "R_SHIFT"
      /\ key = AltGr <=> key.ext /\ key.code = "ALT"
      /\ key = LAlt <=> ~key.ext /\ key.code = "ALT"
  BY KeyParts DEF Typed
<1>3. key \in Modifiers => \A m \in held : m \notin Modifiers
  BY DEF OneModifier
<1>4. numlock' = numlock
  BY <1>1, <1>2
<1>5. /\ shift <=> RShift \in held \/ RShift = key
      /\ alt <=> AltGr \in held \/ AltGr = key
  BY DEF Settled
<1> HIDE DEF C
<1>6. CASE key = RShift \/ key = AltGr
  <2>1. RShift \notin held /\ AltGr \notin held
    BY <1>3, <1>6 DEF Modifiers
  <2>2. Clears(key.code)
    BY <1>1, <1>2, <1>5, <1>6, <2>1 DEF RShift, AltGr
  <2>3. ~shift' /\ ~alt'
    BY <1>1, <1>2, <1>5, <1>6, <2>1 DEF RShift, AltGr
  <2> QED
    BY <1>1, <2>1, <2>2, <2>3 DEF Settled
<1>7. CASE key # RShift /\ key # AltGr
  <2>1. (shift <=> RShift \in held) /\ (alt <=> AltGr \in held)
    BY <1>5, <1>7
  <2>2. ~(~shift /\ alt /\ key.code = "ALT")
    BY <1>2, <1>3, <1>7, <2>1 DEF Modifiers
  <2>3. shift' = shift /\ alt' = alt /\ ~Clears(key.code)
    BY <1>1, <1>2, <1>3, <1>7, <2>1, <2>2
  <2>4. ASSUME ~shift, ~alt, NEW k \in down'
        PROVE  \E h \in held : k \in Combination(h.ext, h.code, FALSE, FALSE, numlock)
    <3>1. shift = FALSE /\ alt = FALSE
      BY <1>2, <2>4
    <3>2. k \in down /\ k \notin Combination(key.ext, key.code, FALSE, FALSE, numlock)
      BY <1>1, <2>3, <2>4, <3>1 DEF C
    <3> QED
      BY <2>4, <3>2 DEF Settled
  <2> QED
    BY <1>4, <2>1, <2>3, <2>4 DEF Settled
<1> QED
  BY <1>6, <1>7

-----------------------------------------------------------------------------
(* The steps. *)

LEMMA ReceiveInv == IInv /\ Receive => IInv'
<1> SUFFICES ASSUME IInv, Receive PROVE IInv'
  OBVIOUS
<1>1. Typed /\ NumLockAlone
  BY DEF IInv
<1>2. line # <<>>
  BY DEF Receive
<1>3. PICK key \in Keys : Making(key) \/ Breaking(key)
  BY <1>2 DEF IInv, Quiet
<1>4. ASSUME NEW rel \in BOOLEAN, Sending(key, rel)' /\ UNCHANGED <<down, shift, alt, numlock>>,
             held' = held, last' = last
      PROVE  Typed' /\ NumLockAlone'
  <2>1. extended' \in BOOLEAN /\ release' \in BOOLEAN
    BY <1>1 DEF Receive, Typed, Translate
  <2> QED
    BY <1>1, <1>4, <2>1 DEF Typed, NumLockAlone
<1>5. ASSUME extended = key.ext, Translate(key.code), line' = <<>>, held' = held, last' = last
      PROVE  /\ Typed' /\ NumLockAlone'
             /\ line' = <<>> /\ ~extended' /\ ~release'
  <2>1. /\ ~extended' /\ ~release'
        /\ extended' \in BOOLEAN /\ release' \in BOOLEAN
        /\ shift' \in BOOLEAN /\ alt' \in BOOLEAN /\ numlock' \in BOOLEAN
        /\ down' \subseteq SpectrumKeys
    BY <1>1, <1>5, Translated
  <2> QED
    BY <1>1, <1>5, <2>1 DEF Typed, NumLockAlone
<1>6. CASE Making(key)
  <2>1. Sending(key, FALSE)
    BY <1>6 DEF Making
  <2>2. /\ held' = held /\ last' = last
        /\ \/ Sending(key, FALSE)' /\ UNCHANGED <<down, shift, alt, numlock>>
           \/ /\ extended = key.ext /\ release = FALSE
              /\ line' = <<>> /\ Translate(key.code)
    BY <1>1, <2>1, NextByte
  <2>3. CASE Sending(key, FALSE)' /\ UNCHANGED <<down, shift, alt, numlock>>
    <3>1. Making(key)'
      BY <1>6, <2>2, <2>3 DEF Making, Settled, OneModifier
    <3> QED
      BY <1>4, <2>2, <2>3, <3>1 DEF IInv
  <2>4. CASE /\ extended = key.ext /\ release = FALSE
             /\ line' = <<>> /\ Translate(key.code)
    <3>1. Settled(held)'
      BY <1>1, <1>6, <2>2, <2>4, MadeSettles DEF Making
    <3>2. OneModifier(held)'
      BY <1>6, <2>2 DEF Making, OneModifier
    <3> QED
      BY <1>5, <2>2, <2>4, <3>1, <3>2 DEF IInv, Quiet
  <2> QED
    BY <2>2, <2>3, <2>4
<1>7. CASE Breaking(key)
  <2>1. Sending(key, TRUE)
    BY <1>7 DEF Breaking
  <2>2. /\ held' = held /\ last' = last
        /\ \/ Sending(key, TRUE)' /\ UNCHANGED <<down, shift, alt, numlock>>
           \/ /\ extended = key.ext /\ release = TRUE
              /\ line' = <<>> /\ Translate(key.code)
    BY <1>1, <2>1, NextByte
  <2>3. CASE Sending(key, TRUE)' /\ UNCHANGED <<down, shift, alt, numlock>>
    <3>1. Breaking(key)'
      BY <1>7, <2>2, <2>3 DEF Breaking, Settled, OneModifier
    <3> QED
      BY <1>4, <2>2, <2>3, <3>1 DEF IInv
  <2>4. CASE /\ extended = key.ext /\ release = TRUE
             /\ line' = <<>> /\ Translate(key.code)
    <3>1. Settled(held)'
      BY <1>1, <1>7, <2>2, <2>4, BrokenSettles DEF Breaking
    <3>2. OneModifier(held)'
      BY <1>7, <2>2 DEF Breaking, OneModifier
    <3> QED
      BY <1>5, <2>2, <2>4, <3>1, <3>2 DEF IInv, Quiet
  <2> QED
    BY <2>2, <2>3, <2>4
<1> QED
  BY <1>3, <1>6, <1>7

LEMMA ResetInv ==
  ASSUME Habits = {}
  PROVE  IInv /\ Reset => IInv'
<1> SUFFICES ASSUME IInv, Reset PROVE IInv'
  OBVIOUS
<1>1. held = {} /\ line = <<>>
  BY DEF Reset
<1>2. /\ down' = {} /\ extended' = FALSE /\ release' = FALSE
      /\ shift' = FALSE /\ alt' = FALSE /\ numlock' = TRUE
      /\ held' = held /\ last' = last /\ line' = line
  BY DEF Reset, keyboard
<1>3. Typed' /\ NumLockAlone'
  BY <1>2 DEF IInv, Typed, NumLockAlone
<1>4. Quiet'
  BY <1>1, <1>2 DEF Quiet, Settled, OneModifier
<1> QED
  BY <1>3, <1>4 DEF IInv

(* With nothing on the line there is nothing on its way. *)
LEMMA QuietNow ==
  ASSUME IInv, line = <<>>
  PROVE  Quiet
<1> SUFFICES ASSUME NEW key \in Keys, NEW rel \in BOOLEAN, Sending(key, rel)
             PROVE  FALSE
  BY DEF IInv, Making, Breaking
<1>1. /\ <<key.code>> # <<>> /\ <<"F0", key.code>> # <<>> /\ <<"E0", key.code>> # <<>>
      /\ <<"E0", "F0", key.code>> # <<>>
  BY Codes
<1> QED
  BY <1>1 DEF Sending

LEMMA SendingStarts ==
  ASSUME NEW key \in Keys, ~extended, ~release
  PROVE  /\ line = Make(key) => Sending(key, FALSE)
         /\ line = Break(key) => Sending(key, TRUE)
<1>1. key.ext \in BOOLEAN
  BY KeyParts
<1> QED
  BY <1>1 DEF Make, Break, Sending

LEMMA PressInv ==
  ASSUME Habits = {}, NEW key \in Keys
  PROVE  IInv /\ Press(key) => IInv'
<1> SUFFICES ASSUME IInv, Press(key) PROVE IInv'
  OBVIOUS
<1>1. Quiet
  BY QuietNow DEF Press
<1>2. /\ key \notin held /\ held' = held \union {key} /\ last' = key /\ line' = Make(key)
      /\ key \in Modifiers => held \intersect Modifiers = {}
      /\ key.code = "NUMLOCK" => held = {}
      /\ UNCHANGED <<down, extended, release, shift, alt, numlock>>
  BY DEF Press, receiver
<1>3. Typed' /\ NumLockAlone'
  BY <1>2 DEF IInv, Typed, NumLockAlone
<1>4. ~extended' /\ ~release'
  BY <1>1, <1>2 DEF Quiet
<1>5. Sending(key, FALSE)'
  BY <1>2, <1>4, SendingStarts, SMT DEF Sending, Make, Break
<1>6. OneModifier(held)'
  BY <1>1, <1>2 DEF Quiet, OneModifier
<1>7. Settled(IF key \in Modifiers THEN held \ {key} ELSE held)'
  <2>1. Settled(held)
    BY <1>1 DEF Quiet
  <2>2. CASE key \in Modifiers
    <3>1. held' \ {key} = held
      BY <1>2
    <3> QED
      BY <1>2, <2>1, <2>2, <3>1 DEF Settled
  <2>3. CASE key \notin Modifiers
    <3>1. key # RShift /\ key # AltGr
      BY <2>3 DEF Modifiers
    <3> QED
      BY <1>2, <2>1, <2>3, <3>1 DEF Settled
  <2> QED
    BY <2>2, <2>3
<1>8. Making(key)'
  BY <1>2, <1>5, <1>6, <1>7 DEF Making
<1> QED
  BY <1>3, <1>8 DEF IInv

LEMMA RepeatInv ==
  ASSUME Habits = {}
  PROVE  IInv /\ Repeat => IInv'
<1> SUFFICES ASSUME IInv, Repeat PROVE IInv'
  OBVIOUS
<1>1. Quiet
  BY QuietNow DEF Repeat
<1>2. /\ last \in held /\ last \notin Modifiers /\ line' = Make(last)
      /\ UNCHANGED <<down, extended, release, shift, alt, numlock, held, last>>
  BY DEF Repeat, receiver
<1>3. last \in Keys
  BY <1>2 DEF IInv, Typed
<1>4. Typed' /\ NumLockAlone'
  BY <1>2 DEF IInv, Typed, NumLockAlone
<1>5. Sending(last, FALSE)'
  BY <1>1, <1>2, <1>3, KeyParts DEF Quiet, Sending, Make
<1>6. Making(last)'
  BY <1>1, <1>2, <1>5 DEF Making, Quiet, OneModifier, Settled
<1> QED
  BY <1>2, <1>3, <1>4, <1>6 DEF IInv

LEMMA LetGoInv ==
  ASSUME NEW key \in Keys
  PROVE  IInv /\ LetGo(key) => IInv'
<1> SUFFICES ASSUME IInv, LetGo(key) PROVE IInv'
  OBVIOUS
<1>1. Quiet
  BY QuietNow DEF LetGo
<1>2. /\ key \in held /\ held' = held \ {key} /\ line' = Break(key)
      /\ UNCHANGED <<down, extended, release, shift, alt, numlock, last>>
  BY DEF LetGo, receiver
<1>3. Typed' /\ NumLockAlone'
  BY <1>2 DEF IInv, Typed, NumLockAlone
<1>4. Sending(key, TRUE)'
  BY <1>1, <1>2, KeyParts DEF Quiet, Sending, Break
<1>5. held' \union {key} = held
  BY <1>2
<1>6. Breaking(key)'
  BY <1>1, <1>2, <1>4, <1>5 DEF Breaking, Quiet, OneModifier, Settled
<1> QED
  BY <1>3, <1>6 DEF IInv

LEMMA NextInv ==
  ASSUME Habits = {}
  PROVE  IInv /\ [Next]_vars => IInv'
<1> SUFFICES ASSUME IInv, [Next]_vars PROVE IInv'
  OBVIOUS
<1>1. CASE UNCHANGED vars
  <2>1. UNCHANGED <<down, extended, release, shift, alt, numlock, held, last, line>>
    BY <1>1 DEF vars, receiver, keyboard
  <2>2. Typed' /\ NumLockAlone'
    BY <2>1 DEF IInv, Typed, NumLockAlone
  <2>3. CASE Quiet
    <3>1. Quiet'
      BY <2>1, <2>3 DEF Quiet, Settled, OneModifier
    <3> QED
      BY <2>2, <3>1 DEF IInv
  <2>4. ASSUME NEW key \in Keys, Making(key) \/ Breaking(key)
        PROVE  IInv'
    <3>1. Making(key) => Making(key)'
      BY <2>1 DEF Making, Sending, Settled, OneModifier
    <3>2. Breaking(key) => Breaking(key)'
      BY <2>1 DEF Breaking, Sending, Settled, OneModifier
    <3> QED
      BY <2>2, <2>4, <3>1, <3>2 DEF IInv
  <2> QED
    BY <2>3, <2>4 DEF IInv
<1> QED
  BY <1>1, ReceiveInv, ResetInv, RepeatInv, PressInv, LetGoInv DEF Next

-----------------------------------------------------------------------------
(* What follows. *)

(* The inductive invariant. *)
THEOREM KeyboardInvariant ==
  ASSUME Habits = {}
  PROVE  Spec => []IInv
<1>1. Init => IInv
  BY InitInv
<1>2. IInv /\ [Next]_vars => IInv'
  BY NextInv
<1> QED
  BY <1>1, <1>2, PTL DEF Spec

(* Every code and every prefix leaves the receiver's registers what they    *)
(* may be, and a prefix waits for its code only (input_receiver.vhd:195).   *)
THEOREM TypeCorrect ==
  ASSUME Habits = {}
  PROVE  Spec => []TypeOK
<1>1. IInv => TypeOK
  <2> SUFFICES ASSUME IInv PROVE TypeOK
    OBVIOUS
  <2>1. line = <<>> => ~extended /\ ~release
    BY QuietNow DEF Quiet
  <2>2. Len(line) <= 3
    <3>1. CASE Quiet
      BY <3>1 DEF Quiet
    <3>2. ASSUME NEW key \in Keys, NEW rel \in BOOLEAN, Sending(key, rel)
          PROVE  Len(line) <= 3
      <4>1. /\ Len(<<key.code>>) = 1 /\ Len(<<"F0", key.code>>) = 2
            /\ Len(<<"E0", key.code>>) = 2 /\ Len(<<"E0", "F0", key.code>>) = 3
        BY Codes
      <4>2. \/ line = <<key.code>> \/ line = <<"F0", key.code>>
            \/ line = <<"E0", key.code>> \/ line = <<"E0", "F0", key.code>>
        BY <3>2 DEF Sending
      <4>3. 1 <= 3 /\ 2 <= 3 /\ 3 <= 3
        OBVIOUS
      <4> QED
        BY <4>1, <4>2, <4>3, Zenon
    <3> QED
      BY <3>1, <3>2 DEF IInv, Making, Breaking
  <2> QED
    BY <2>1, <2>2 DEF IInv, Typed, TypeOK
<1> QED
  BY <1>1, KeyboardInvariant, PTL

(* Whatever the order in which keys and one modifier are pressed and let    *)
(* go, no key of the matrix stays down for nobody                           *)
(* (input_receiver.vhd:428-432).                                            *)
THEOREM NoKeyStaysDown ==
  ASSUME Habits = {}
  PROVE  Spec => []NoGhostKey
<1>1. IInv => NoGhostKey
  <2> SUFFICES ASSUME IInv, line = <<>>, ~shift, ~alt, NEW k \in down
               PROVE  \E key \in held : k \in CanPress(key)
    BY DEF NoGhostKey
  <2>1. PICK key \in held : k \in Combination(key.ext, key.code, FALSE, FALSE, numlock)
    BY QuietNow DEF Quiet, Settled
  <2>2. key \in Keys /\ numlock \in BOOLEAN
    BY <2>1 DEF IInv, Typed
  <2>3. Combination(key.ext, key.code, FALSE, FALSE, numlock) \subseteq CanPress(key)
    BY <2>2, PlainCanPress
  <2> QED
    BY <2>1, <2>3
<1> QED
  BY <1>1, KeyboardInvariant, PTL

(* The flags that choose the tables are never the wrong way round, although *)
(* every code of a modifier turns its flag over (input_receiver.vhd:426).   *)
THEOREM FlagsFollowModifiers ==
  ASSUME Habits = {}
  PROVE  Spec => []ModifiersFollowKeys
<1>1. IInv => ModifiersFollowKeys
  BY QuietNow DEF Quiet, Settled, ModifiersFollowKeys
<1> QED
  BY <1>1, KeyboardInvariant, PTL
=============================================================================
