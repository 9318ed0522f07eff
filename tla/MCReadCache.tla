---------------------------- MODULE MCReadCache ----------------------------
(* Two callers, each reading again and again: enough for a plain and a forced *)
(* load to overlap, and for either to be joined.                              *)
EXTENDS ReadCache

CONSTANTS r1, r2

MCReaders == {r1, r2}
=============================================================================
