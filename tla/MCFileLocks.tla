---------------------------- MODULE MCFileLocks ----------------------------
(* FileLocks for TLC: a file of four bytes. *)
EXTENDS FileLocks

CONSTANTS a, b, c

\* A range, a part that splits it, and a part that shortens it.
MCPlain == {<<0, 3>>, <<1, 1>>, <<1, 2>>}

\* The whole file, and a part that splits it.
MCEndless == {<<0, 0>>, <<1, 1>>}

MCCuts == {<<1, 1>>}

Both == BOOLEAN
Only == {TRUE}
=============================================================================
