------------------------------- MODULE SdCard -------------------------------
(***************************************************************************)
(* The SD card as the firmware sees it (sd_if.c): a root directory read    *)
(* from its beginning with f_findfirst and f_findnext, every time.         *)
(*                                                                         *)
(* A name is a stem, the two-character tags that follow it after a "_"     *)
(* each, as the numbers string_to_num makes of them, and a kind, which is  *)
(* the extension.  fail is the number of the one call of f_findfirst (1)   *)
(* or f_findnext (2, 3, ...) that returns an error; 0 when none does.      *)
(***************************************************************************)
EXTENDS SequencesExt

CONSTANTS
  StemLength,    \* the number of characters of each stem
  FilesPerPage,  \* FILES_PER_PAGE (16)
  NameLimit,     \* FILENAME_LEN - 1 (32)
  MaxSaveNum     \* 99, the highest number of a save state

ASSUME CardSizesAssumption ==
  FilesPerPage \in Nat \ {0} /\ NameLimit \in Nat /\ MaxSaveNum \in Nat
ASSUME StemsAssumption == "save" \in DOMAIN StemLength

Name(stem, tags, kind) == [stem |-> stem, tags |-> tags, kind |-> kind]

\* The names that directories have.
FileName == [stem : DOMAIN StemLength, tags : Seq(Int), kind : {"z80", "sna", "txt"}]

\* A name with its tags and its extension, of four characters.
Length(name) == StemLength[name.stem] + 3 * Len(name.tags) + 4

is_supported_file(name) == name.kind \in {"z80", "sna"} /\ Length(name) < NameLimit

\* The calls that reading directory d to its end takes.
Calls(d) == 1 .. Len(d) + 1

\* The supported files among entries first .. last of d.
Supported(d, first, last) ==
  LET files[n \in Nat] == IF n < first THEN <<>>
                          ELSE IF is_supported_file(d[n]) THEN Append(files[n - 1], d[n])
                          ELSE files[n - 1]
  IN  files[last]

num_of_pages(d, fail) ==
  IF d = <<>> \/ fail \in Calls(d) THEN -1
  ELSE IF Supported(d, 1, Len(d)) = <<>> THEN 1   \* -1 / 16 is 0 in C
  ELSE (Len(Supported(d, 1, Len(d))) - 1) \div FilesPerPage + 1

-----------------------------------------------------------------------------
(* list_files_of_page.  Its first loop skips the files of the pages before. *)

\* Where the first loop stops: at an error, at the end, or behind the last
\* file of the pages before p, whichever comes first.
SkipTo(d, p, fail) ==
  IF p = 0 THEN 1
  ELSE Min({i \in 2 .. Len(d) + 1 :
              \/ i = fail \/ i = Len(d) + 1
              \/ Len(Supported(d, 1, i - 1)) = p * FilesPerPage})

Slots == 0 .. FilesPerPage - 1

\* Mutant: the last name is not copied.
Fill_ShortCopy(slots, names) ==
  [s \in Slots |-> IF s + 1 < Len(names) THEN names[s + 1] ELSE slots[s]]

\* The slots with the names that fit copied over the first ones.
Fill(slots, names) ==
  [s \in Slots |-> IF s < Len(names) THEN names[s + 1] ELSE slots[s]]

\* The second loop, from entry i: an error before the page is full leaves the
\* size as it was, over the names copied until then.
Collect(list, d, i, fail) ==
  LET last   == IF fail > i THEN Min({fail - 1, Len(d)}) ELSE Len(d)
      names  == Supported(d, i, last)
      failed == fail \in i + 1 .. Len(d) + 1 /\ Len(names) < FilesPerPage
  IN  [size  |-> IF failed THEN list.size ELSE Min({Len(names), FilesPerPage}),
       slots |-> Fill(list.slots, names)]

list_files_of_page(list, d, p, fail) ==
  LET i == SkipTo(d, p, fail)
  IN  IF fail = 1 \/ d = <<>> \/ i > Len(d) \/ (p > 0 /\ i = fail)
      THEN [list EXCEPT !.size = 0]
      ELSE Collect(list, d, i, fail)

\* What page p is: its share of the supported files, in directory order.
PageFiles(d, p) ==
  LET files == Supported(d, 1, Len(d))
  IN  SubSeq(files, p * FilesPerPage + 1, Min({(p + 1) * FilesPerPage, Len(files)}))

-----------------------------------------------------------------------------
(***************************************************************************)
(* save_state and get_save_num.  game is curr_game_filename up to          *)
(* curr_game_filename_len: a stem and tags; the stem NoGame stands for a   *)
(* length of 0.  A tag is cut off it for good.                             *)
(***************************************************************************)
NoGame == [stem |-> "", tags |-> <<>>]

Named(game) == IF game = NoGame THEN [stem |-> "save", tags |-> <<>>] ELSE game

WithoutTag(game) ==
  LET base == Named(game)
  IN  IF base.tags = <<>> THEN base ELSE [base EXCEPT !.tags = Front(@)]

\* Mutant: the card is not searched.
SaveNums_None(d, base) == {}

\* The numbers that base is followed by on the card.
SaveNums(d, base) ==
  {f.tags[Len(base.tags) + 1] :
     f \in {f \in ToSet(Supported(d, 1, Len(d))) :
              f.stem = base.stem /\ IsStrictPrefix(base.tags, f.tags)}}

OwnNum(game) == LET base == Named(game)
                IN  IF base.tags = <<>> THEN {-1} ELSE {Last(base.tags)}

get_save_num(game, d, fail) ==
  IF d = <<>> \/ fail \in Calls(d) THEN -1
  ELSE LET next == Max(OwnNum(game) \union SaveNums(d, WithoutTag(game))) + 1
       IN  IF next > MaxSaveNum THEN 0 ELSE next

FirstDigit(m) == m \div (CASE m < 10 -> 1 [] m < 100 -> 10 [] m < 1000 -> 100
                            [] OTHER -> 1000)

\* The number that the two characters of a tag are read as again: -1, the
\* result of a failed search, and what follows from it keep their sign, which
\* counts as -3, and their first digit.
Tag(n) == IF n < 0 THEN -30 + FirstDigit(-n) ELSE n

SaveName(game, d, fail) ==
  LET base == WithoutTag(game)
  IN  Name(base.stem, Append(base.tags, Tag(get_save_num(game, d, fail))), "sna")
=============================================================================
