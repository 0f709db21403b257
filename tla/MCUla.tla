------------------------------- MODULE MCUla -------------------------------
(***************************************************************************)
(* The whole picture with the buses quiet; the end of the picture with     *)
(* every flash count; and lines with the buses in use: those around the    *)
(* first and the last one of the screen, and around the interrupt.         *)
(***************************************************************************)
EXTENDS Ula

Start(v, f, l, a) == [v |-> v, f |-> f, lines |-> l, active |-> a]

MCStarts == {Start(0, 0, 313, FALSE)}
            \union {Start(311, f, 1, FALSE) : f \in 0 .. 31}
            \union {Start(v, 0, 2, TRUE) : v \in {311, 191, 247}}
=============================================================================
