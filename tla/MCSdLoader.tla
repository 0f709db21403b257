----------------------------- MODULE MCSdLoader -----------------------------
(***************************************************************************)
(* Small cards for SdLoader, in pages of two files, bytes of four values   *)
(* and save states numbered 0 and 1.                                       *)
(***************************************************************************)
EXTENDS SdLoader

\* "long" is too long for the names of its save states.
MCStemLength == [s \in {"a", "b", "c", "d", "e", "save", "long"} |->
                   IF s = "long" THEN 9 ELSE 4]
MCNameLimit == 15

z(stem)      == Name(stem, <<>>, "z80")
saved(stem, n) == Name(stem, <<n>>, "sna")
txt == Name("a", <<>>, "txt")

\* No file; no supported one; a full page, with room for a save state and with
\* an unsupported file between; a save state, and a name that looks like one but has letters for a number;
\* the long name; the second save state of a game whose search had failed; three pages, the last one half full, the first file
\* unsupported.
MCCards == {<<>>, <<txt>>, <<z("a"), z("b")>>, <<z("a"), txt, z("b")>>,
            <<saved("a", 0), z("a")>>, <<z("a"), saved("a", 275)>>, <<z("long")>>,
            <<saved("a", -28)>>,
            <<txt, z("a"), z("b"), z("c"), z("d"), z("e")>>}
=============================================================================
