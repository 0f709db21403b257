------------------------------- MODULE Z80Rle -------------------------------
(***************************************************************************)
(* The decoder of compressed .z80 files: load_compressed_data_block_z80,   *)
(* a byte-at-a-time automaton whose state survives the 256-byte blocks the *)
(* file is read in, the pages of a file and, in part, the file itself.     *)
(*                                                                         *)
(* The file is whatever an encoder may write: bytes as they are, and runs  *)
(* ED ED xx yy, a byte after a lone ED never starting a run; version 1     *)
(* files end with 00 ED ED 00, the pages of the others have no end tag.    *)
(***************************************************************************)
EXTENDS SequencesExt

CONSTANTS
  MaxByte,   \* the largest byte (255)
  ED,        \* the byte that introduces a run (0xED)
  Versions,  \* the formats the files have: a subset of {1, 2}
  MaxFiles, MaxPages, MaxLen  \* bounds: files loaded, pages each, bytes of a page

ASSUME ByteAssumption == MaxByte \in Nat /\ ED \in 1 .. MaxByte
ASSUME VersionAssumption == Versions \subseteq {1, 2}

Byte == 0 .. MaxByte

VARIABLES
  state, xx, zero_detected,  \* the decoder's, as in formats.c
  out,        \* what was written since the address was last set
  data,       \* what the page holds, as far as it was read
  queue,      \* bytes of the file not yet decoded
  after_ed,   \* the last byte of the data is a lone ED
  phase,      \* in the file's data, after its end tag, or done with it
  version, file, page,
  fresh       \* the decoder held nothing when the page began

decoder == <<state, xx, zero_detected, out>>
source  == <<data, queue, after_ed, phase, version, file, page, fresh>>
vars    == <<decoder, source>>

Init ==
  /\ state = "NONE" /\ xx = 0 /\ zero_detected = FALSE /\ out = <<>>
  /\ data = <<>> /\ queue = <<>> /\ after_ed = FALSE /\ phase = "data"
  /\ version \in Versions /\ file = 1 /\ page = 1 /\ fresh = TRUE

-----------------------------------------------------------------------------
(* One byte of the switch; the bytes it writes go to successive addresses. *)
Write(bytes) == out' = out \o bytes
Repeat(b, n) == [j \in 1 .. n |-> b]

DecodeNone(b) ==
  /\ state = "NONE"
  /\ state' = IF b = ED THEN "ED1" ELSE IF b = 0 THEN "ZERO" ELSE "NONE"
  /\ zero_detected' = (b = 0 \/ zero_detected)
  /\ Write(IF b \in {0, ED} THEN <<>> ELSE <<b>>)
  /\ UNCHANGED xx

DecodeZero(b) ==
  /\ state = "ZERO"
  /\ IF b = ED
     THEN state' = "ED1" /\ UNCHANGED <<zero_detected, out>>
     ELSE state' = "NONE" /\ zero_detected' = FALSE /\ Write(<<0, b>>)
  /\ UNCHANGED xx

Zero == IF zero_detected THEN <<0>> ELSE <<>>

\* Mutant: a zero before a lone ED is forgotten.
DecodeEd1_NoZero(b) ==
  /\ state = "ED1"
  /\ IF b = ED
     THEN state' = "ED2" /\ UNCHANGED <<zero_detected, out>>
     ELSE state' = "NONE" /\ zero_detected' = FALSE /\ Write(<<ED, b>>)
  /\ UNCHANGED xx

\* Mutant: the zero is written and remembered.
DecodeEd1_ZeroKept(b) ==
  /\ state = "ED1"
  /\ IF b = ED
     THEN state' = "ED2" /\ UNCHANGED <<zero_detected, out>>
     ELSE state' = "NONE" /\ UNCHANGED zero_detected /\ Write(Zero \o <<ED, b>>)
  /\ UNCHANGED xx

DecodeEd1(b) ==
  /\ state = "ED1"
  /\ IF b = ED
     THEN state' = "ED2" /\ UNCHANGED <<zero_detected, out>>
     ELSE state' = "NONE" /\ zero_detected' = FALSE /\ Write(Zero \o <<ED, b>>)
  /\ UNCHANGED xx

\* Mutant: the count is kept one less.
DecodeEd2_CountFromZero(b) ==
  /\ state = "ED2" /\ xx' = b - 1
  /\ IF b = 0
     THEN state' = "NONE" /\ UNCHANGED <<zero_detected, out>>
     ELSE state' = "XX" /\ zero_detected' = FALSE /\ Write(Zero)

\* Mutant: a zero before a run is written when the end tag is found as well.
DecodeEd2_TagIsData(b) ==
  /\ state = "ED2" /\ xx' = b
  /\ state' = (IF b = 0 THEN "NONE" ELSE "XX")
  /\ zero_detected' = FALSE /\ Write(Zero)

\* A count of 0 is the end tag's; zero_detected is left as it is.
DecodeEd2(b) ==
  /\ state = "ED2" /\ xx' = b
  /\ IF b = 0
     THEN state' = "NONE" /\ UNCHANGED <<zero_detected, out>>
     ELSE state' = "XX" /\ zero_detected' = FALSE /\ Write(Zero)

DecodeXx(b) ==
  /\ state = "XX" /\ state' = "NONE"
  /\ Write(Repeat(b, xx))
  /\ UNCHANGED <<xx, zero_detected>>

Decode ==
  /\ queue # <<>> /\ queue' = Tail(queue)
  /\ LET b == Head(queue)
     IN  DecodeNone(b) \/ DecodeZero(b) \/ DecodeEd1(b) \/ DecodeEd2(b) \/ DecodeXx(b)
  /\ UNCHANGED <<data, after_ed, phase, version, file, page, fresh>>

-----------------------------------------------------------------------------
(* The file.  The decoder is through with a token before the next one is read: *)
(* where the blocks of the card end makes no difference to it.                 *)
Reading == queue = <<>> /\ phase = "data"

\* The decoder's state says that all it has read is written.
HoldsNothing == state = "NONE" /\ ~zero_detected

Literal(b) ==
  /\ Reading /\ Len(data) < MaxLen /\ (after_ed => b # ED)
  /\ queue' = <<b>> /\ data' = Append(data, b) /\ after_ed' = (b = ED)
  /\ UNCHANGED <<decoder, phase, version, file, page, fresh>>

Run(n, b) ==
  /\ Reading /\ Len(data) + n <= MaxLen /\ ~after_ed
  /\ queue' = <<ED, ED, n, b>> /\ data' = data \o Repeat(b, n)
  /\ UNCHANGED <<decoder, after_ed, phase, version, file, page, fresh>>

EndTag ==
  /\ Reading /\ version = 1
  /\ queue' = <<0, ED, ED, 0>> /\ phase' = "tagged"
  /\ UNCHANGED <<decoder, data, after_ed, version, file, page, fresh>>

\* load_z80 sets the address to the next page's; the decoder is not told.
NextPage ==
  /\ Reading /\ version = 2 /\ data # <<>> /\ page < MaxPages
  /\ page' = page + 1 /\ fresh' = HoldsNothing /\ data' = <<>> /\ after_ed' = FALSE /\ out' = <<>>
  /\ UNCHANGED <<state, xx, zero_detected, queue, phase, version, file>>

\* The end of load_z80 resets state, and state only.
EndFile ==
  /\ queue = <<>> /\ phase = (IF version = 1 THEN "tagged" ELSE "data")
  /\ phase' = "done" /\ state' = "NONE"
  /\ UNCHANGED <<xx, zero_detected, out, data, queue, after_ed, version, file, page, fresh>>

NextFile ==
  /\ phase = "done" /\ file < MaxFiles
  /\ file' = file + 1 /\ page' = 1 /\ version' \in Versions
  /\ fresh' = HoldsNothing
  /\ data' = <<>> /\ out' = <<>> /\ after_ed' = FALSE /\ phase' = "data"
  /\ UNCHANGED <<state, xx, zero_detected, queue>>

Token == (\E b \in Byte : Literal(b)) \/ (\E n \in 1 .. MaxByte, b \in Byte : Run(n, b))

Next == Decode \/ Token \/ EndTag \/ NextPage \/ EndFile \/ NextFile
Spec == Init /\ [][Next]_vars

-----------------------------------------------------------------------------
(* Types of all variables. *)
TypeOK ==
  /\ state \in {"NONE", "ZERO", "ED1", "ED2", "XX"}
  /\ xx \in Byte /\ zero_detected \in BOOLEAN
  /\ out \in Seq(Byte) /\ data \in Seq(Byte) /\ queue \in Seq(Byte)
  /\ after_ed \in BOOLEAN /\ phase \in {"data", "tagged", "done"}
  /\ version \in {1, 2} /\ file \in Nat /\ page \in Nat /\ fresh \in BOOLEAN

\* What the decoder has read and not yet written.
Held == IF state = "ZERO" THEN <<0>> ELSE IF state = "ED1" THEN Zero \o <<ED>> ELSE <<>>

(***************************************************************************)
(* On a page begun with nothing held back the bytes written between two    *)
(* tokens, and those held back until it is clear that they are no end tag, *)
(* are the page's data (load_compressed_data_block_z80): none lost, none   *)
(* doubled, none moved.                                                    *)
(***************************************************************************)
NothingLost == Reading /\ fresh => out \o Held = data

(***************************************************************************)
(* The end tag is taken as such: every byte of the data is written, and    *)
(* nothing after it but, when the last byte held the decoder back, the     *)
(* tag's own zero, which falls past the end of memory (formats.c:580-591). *)
(***************************************************************************)
EndTagFound ==
  phase = "tagged" /\ queue = <<>> /\ fresh =>
    /\ state = "NONE"
    /\ \/ out = data
       \/ data # <<>> /\ Last(data) \in {0, ED} /\ out = Append(data, 0)

(***************************************************************************)
(* A page is begun with something held back only if the page before it     *)
(* was left incomplete: state and zero_detected, which survive the change  *)
(* of address (formats.c:506-508), never claim a byte that is written.     *)
(***************************************************************************)
CarriesOnlyHeld == [][ page' = page + 1 /\ fresh => (fresh' <=> out = data) ]_vars

(***************************************************************************)
(* "If this ends up not being part of the end marker the 0 must be         *)
(* written" (formats.c:529-530): when the address moves to the next page,  *)
(* the page before it is complete.                                         *)
(***************************************************************************)
PageIsWritten == [][ page' # page /\ file' = file => out = data ]_vars
=============================================================================
