------------------------------- MODULE ByteFifo -------------------------------
(***************************************************************************)
(* What a NetworkMessage promises to the socket that owns it: the bytes    *)
(* that were put in and not yet taken out, in order, neither lost nor      *)
(* repeated nor altered by the moves and reallocations of its storage.     *)
(***************************************************************************)
EXTENDS Naturals, Sequences

CONSTANT Chunks   \* the byte sequences a read or a write can bring

VARIABLE content

Init == content = <<>>

Put(bytes) == content' = content \o bytes

Take(n) == /\ n \in 1..Len(content)
           /\ content' = SubSeq(content, n + 1, Len(content))

Forget == content' = <<>>

Next == \/ \E bytes \in Chunks : Put(bytes)
        \/ \E n \in 1..Len(content) : Take(n)
        \/ Forget

Spec == Init /\ [][Next]_content
===============================================================================
