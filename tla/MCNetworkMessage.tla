--------------------------- MODULE MCNetworkMessage ---------------------------
(***************************************************************************)
(* A buffer that starts with two bytes of storage and may grow to eight:   *)
(* chunks of one to three bytes make it full, compact it and reallocate it *)
(* with unread bytes inside.                                               *)
(***************************************************************************)
EXTENDS NetworkMessage

CONSTANTS x1, x2, x0

MCByte == {x1, x2, x0}
MCChunks == {<<x1>>, <<x2>>, <<x1, x2>>, <<x2, x1, x1>>}
===============================================================================
