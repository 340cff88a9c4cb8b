----------------------------- MODULE MCAuthServer -----------------------------
(***************************************************************************)
(* Clients that send packets of every kind to a server with one registered *)
(* user.  With two sessions a login can race another one to the same       *)
(* account and the poll vector is reallocated under the first session.     *)
(***************************************************************************)
EXTENDS AuthServer

CONSTANTS alice, nobody

MCUsers      == {alice, nobody}
MCRegistered == {alice}
MCReliable   == {"done"}
MCFailing    == {"done", "dropped"}

Gather(user, version, size) == [cmd |-> "gather", user |-> user, version |-> version, size |-> size]
Proof(right, size)          == [cmd |-> "proof", right |-> right, size |-> size]

MCLogin == {Gather(alice, TRUE, 14), Proof(TRUE, 15)}
MCAll   == {Gather(alice, TRUE, 14), Gather(nobody, TRUE, 14), Gather(alice, FALSE, 14),
            Gather(alice, TRUE, 25),
            Proof(TRUE, 15), Proof(FALSE, 25), Proof(FALSE, 24), [cmd |-> "unknown"]}
===============================================================================
