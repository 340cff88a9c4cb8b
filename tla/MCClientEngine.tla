--------------------------- MODULE MCClientEngine ---------------------------
\* ClientEngine for TLC: three tilesets, one of them without its image, an empty
\* list of tilesets or none, an animator and prefabs that may be missing, misnamed
\* or unended.
EXTENDS ClientEngine, TLC

\* A paste of two lines, whose first is the command that runs.
Pasted == "noclip\nqqq"
MCTexts == {"", "qqq", "help", "noclip", Pasted}
MCBlank == {""}
MCSplit == [t \in MCTexts |-> IF t = "" THEN <<>> ELSE IF t = Pasted THEN <<"noclip", "qqq">> ELSE <<t>>]
MCClosing == {"qqq", "noclip", Pasted}
MCQuitting == {"qqq"}
MCKeyboards == {{}, {"RETURN"}, {"UP"}, {"DOWN"}, {"RETURN", "UP"}}
MCPlayerStates == {"run"}
MCEditorPrefabs == {"tree01"}

Size(x, y) == [x |-> x, y |-> y]
AllImages == ("null_img.png" :> Size(0, 0)) @@ ("grass.png" :> Size(2, 1)) @@ ("house.png" :> Size(1, 2))
             @@ ("idle.png" :> Size(1, 1)) @@ ("tree.png" :> Size(0, 0))
Without(names) == [n \in DOMAIN AllImages \ names |-> AllImages[n]]
State(name, img) == [name |-> name, img |-> img]
Animator(ended) == [default |-> "idle", ended |-> ended,
                    states |-> <<State("idle", "idle.png"), State("run", "run.png"), State("idle", "tree.png")>>]
Prefab(name, anim, ended) == [name |-> name, img |-> "tree.png", anim |-> anim, ended |-> ended]
Data(images, tilesets, animators, prefab) ==
    [images |-> images, defined |-> TRUE, tilesets |-> tilesets, animators |-> animators,
     prefabs |-> ("tree01" :> prefab), map |-> [tiles |-> {1, 3, 4, 9}, prefabs |-> <<"tree01", "gone">>]]
Complete == Data(AllImages, <<"grass.png", "gone.png", "house.png">>, ("player_war.nanim" :> Animator(TRUE)),
                 Prefab("tree01", "player_war.nanim", TRUE))
NoAnimators == [n \in {} |-> {}]
MCDisks ==
    {Complete,
     [Complete EXCEPT !.images = Without({"house.png", "tree.png"}), !.animators = NoAnimators,
                      !.tilesets = <<>>,
                      !.prefabs = ("tree01" :> Prefab("tree01", "NULL", FALSE)), !.map.prefabs = <<>>],
     [Complete EXCEPT !.defined = FALSE, !.prefabs = ("tree01" :> Prefab("oak", "NULL", TRUE))],
     [Complete EXCEPT !.animators = ("player_war.nanim" :> Animator(FALSE))]}
=============================================================================
