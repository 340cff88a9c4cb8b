-------------------------- MODULE MCWorldEntities --------------------------
\* WorldEntities for TLC: a 3 x 3 world with the player, a map entity under it
\* and the AI, and one id for what the editor adds.
EXTENDS WorldEntities

MCStart == (0 :> <<0, 0>>) @@ (1 :> <<0, 0>>) @@ (2 :> <<1, 0>>)
MCPlaced == [c \in Grid |-> IF c = <<0, 0>> THEN <<0, 1>> ELSE IF c = <<1, 0>> THEN <<2>> ELSE <<>>]
MCInteractions == [name \in Prefabs |-> IF name = "tree01" THEN <<"TOGGLE_LIGHT", "MOVE", "MOVE_RELATIVE">> ELSE <<"DESTROY">>]
\* Walks of several cells, also back, along one axis or both.
MCWalks == {<<0, 0>>, <<1, 0>>, <<-2, 0>>, <<0, 2>>, <<-1, -1>>, <<2, -1>>}
MCInstanceCell == [name \in Prefabs |-> [c \in Grid |-> IF name = "tree01" THEN c ELSE <<c[1] - 1, c[2]>>]]
MCMovedTo == <<2, 1>>
MCMovedBy == <<-1, 0>>
=============================================================================
