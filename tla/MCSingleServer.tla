--------------------------- MODULE MCSingleServer ---------------------------
\* SingleServer for TLC: two users, one of them registered.
EXTENDS SingleServer
CONSTANTS alice, nobody
MCUsers == {alice, nobody}
MCRegistered == {alice}
MCGather(user, version) == [cmd |-> "gather", user |-> user, version |-> version]
MCProof(right, fits) == [cmd |-> "proof", right |-> right, fits |-> fits]
Bye == [cmd |-> "bye"]
Unknown == [cmd |-> "unknown"]
MCScenarios ==
    LET G(user) == MCGather(user, TRUE)
        P(right) == MCProof(right, TRUE)
    IN  {<<<<G(alice), P(TRUE)>>, <<G(alice), P(TRUE)>>>>,
         <<<<G(alice), P(TRUE), P(TRUE)>>, <<>>>>,
         <<<<G(nobody), G(alice), P(FALSE)>>, <<G(alice), Bye>>>>,
         <<<<MCProof(TRUE, FALSE)>>, <<Unknown, G(alice)>>>>}
=============================================================================
