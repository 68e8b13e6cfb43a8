--------------------------- MODULE MCDataTransfer ----------------------------
(***************************************************************************)
(* A file of two blocks, the last one short.  bytes_sent starts below, at  *)
(* or above 0; the text of the end mark is nowhere in the file, or where a *)
(* block starts, or inside a block.                                        *)
(***************************************************************************)
EXTENDS DataTransfer

MCUninitialized == {-1, 0, 1}

MCMarkedFiles == {{}, {1}, {2}}
==============================================================================
