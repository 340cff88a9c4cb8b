--------------------------- MODULE MCDatabaseWorker ---------------------------
(***************************************************************************)
(* The worker with three requests, of which one is fire-and-forget, and    *)
(* two starts: enough for a request in hand while two are queued, a stop   *)
(* with a backlog, and a restart.                                          *)
(***************************************************************************)
EXTENDS DatabaseWorker

CONSTANTS r1, r2, r3

MCRequests == {r1, r2, r3}
MCFireAndForget == {r2}
===============================================================================
