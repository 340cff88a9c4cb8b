----------------------------- MODULE MCTCPSocket -----------------------------
(***************************************************************************)
(* Three packets of one to three bytes, sent in one piece or in several.   *)
(***************************************************************************)
EXTENDS TCPSocket

CONSTANTS x1, x2, x3, x0

MCByte == {x1, x2, x3, x0}
MCChunks == {<<x1>>, <<x2, x1>>, <<x3, x2, x1>>}
MCStart == {<<0, 0>>}
MCStartAnything == {<<0, 0>>, <<0, 1>>}
===============================================================================
