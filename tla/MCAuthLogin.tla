----------------------------- MODULE MCAuthLogin -----------------------------
(***************************************************************************)
(* A registered user who gives her password or a wrong one, twice.  Names  *)
(* that are not registered are in MCAuthServer.                            *)
(***************************************************************************)
EXTENDS AuthLogin, TLC

CONSTANTS alice, secret, guess

MCUsers      == {alice}
MCRegistered == {alice}
MCPasswords  == {secret, guess}
MCPasswordOf == (alice :> secret)
MCLengths(names) == [n \in names |-> 5]
MCNameLength == MCLengths(MCUsers)
MCPasswordLength == MCLengths(MCPasswords)
MCKeys       == 0..2
MCReliable   == {"done"}
===============================================================================
