--------------------------- MODULE MCLoginDatabase ---------------------------
(***************************************************************************)
(* Two accounts, one name nobody registered, one session that looks names  *)
(* up, three logins and a queue of up to four requests: two logins to one  *)
(* account can be queued whole behind each other, with one to another      *)
(* account between them.                                                   *)
(***************************************************************************)
EXTENDS LoginDatabase

CONSTANTS s1, alice, bob, nobody

MCSessions   == {s1}
MCUsers      == {alice, bob, nobody}
MCRegistered == {alice, bob}
MCReliable   == {"done"}
MCFailing    == {"done", "dropped"}
===============================================================================
