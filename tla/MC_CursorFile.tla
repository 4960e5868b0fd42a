--------------------------- MODULE MC_CursorFile ---------------------------
(* Small instances of CursorFile for TLC. *)
EXTENDS CursorFile
=============================================================================
