----------------------------- MODULE MCAuthClient -----------------------------
(***************************************************************************)
(* Two users and two passwords, against a server that may send any         *)
(* response at any time.                                                   *)
(***************************************************************************)
EXTENDS AuthClient

CONSTANTS alice, bob, secret, guess

MCUsers     == {alice, bob}
MCPasswords == {secret, guess}
MCNameLength     == [name \in MCUsers |-> 5]
MCPasswordLength == [name \in MCPasswords |-> 6]
===============================================================================
