------------------------------- MODULE Assets -------------------------------
(***************************************************************************)
(* The client's asset caches and what is made of them: images, animators   *)
(* and prefabs are loaded when they are first asked for and never removed, *)
(* a missing image is replaced by null_img.png, and the world, its tiles,  *)
(* its entities and the player hold plain pointers into the caches.  The   *)
(* files are a constant part of a run; a pointer to an image is its name.  *)
(***************************************************************************)
EXTENDS Integers, Sequences, SequencesExt, FiniteSets

CONSTANTS Disks,       \* what may lie in the Data folder
          PlayerStates \* the states HandleAnim plays

\* Files list their parts in order; the tiles of an image are counted.
ASSUME AssetsAssumption ==
    \A d \in Disks :
        /\ d.tilesets \in Seq(STRING) /\ d.map.prefabs \in Seq(STRING)
        /\ \A n \in DOMAIN d.images : d.images[n].x \in Nat /\ d.images[n].y \in Nat
        /\ \A a \in DOMAIN d.animators : d.animators[a].states \in Seq([name : STRING, img : STRING])

\* A file of a prefab or an animator ends as it should, or the loop that
\* reads it never ends ("ended" FALSE).
Null == "nullptr"
NullImg == "null_img.png"

VARIABLES disk,      \* [images, defined, tilesets, map, prefabs, animators]
          cache,     \* the keys of m_images, m_prefabs and m_animators
          tileDef,   \* the world's TilesetDef
          entities,  \* of the map and of the editor: [id, img, tile, anim]
          player     \* the player's Animator: [states, current]
assetsVars == <<disk, cache, tileDef, entities, player>>

NoAssets == [images |-> {}, prefabs |-> {}, animators |-> {}]
NoTileDef == [loaded |-> FALSE, resources |-> <<>>, ends |-> <<>>, tiles |-> <<>>]
NoPlayer == [states |-> <<>>, current |-> Null]

-----------------------------------------------------------------------------
(* AssetsManager *)

\* GetImage: the cached image, the one that can be loaded, or the fallback.
\* Mutant of WithImages: what was loaded is not inserted.
GetImage(name) == IF name \in DOMAIN disk.images THEN name ELSE NullImg
WithImagesDropped(c, names) == c
WithImages(c, names) == [c EXCEPT !.images = @ \cup (DOMAIN disk.images \cap names)]

\* GetAnimator, with the images of its states; null if there is no such file.
HasAnimator(name) == name \in DOMAIN disk.animators
WithAnimator(c, name) ==
    IF name \in c.animators \/ ~HasAnimator(name) THEN c
    ELSE [WithImages(c, {s.img : s \in ToSet(disk.animators[name].states)})
            EXCEPT !.animators = @ \cup {name}]

\* LoadPrefab stores a prefab under the name in its file.  GetPrefab finds it
\* if that is the name it was asked for, and loads it again each time if not.
WithPrefab(c, name) ==
    IF name \in c.prefabs \/ name \notin DOMAIN disk.prefabs THEN c
    ELSE [c EXCEPT !.prefabs = @ \cup {disk.prefabs[name].name}]
HasPrefab(name) == name \in DOMAIN disk.prefabs /\ disk.prefabs[name].name = name

-----------------------------------------------------------------------------
(* Animator *)

\* AddState keeps the first state of a name.
StatesOf(name) ==
    LET states == disk.animators[name].states
    IN  [s \in {states[i].name : i \in DOMAIN states} |->
            GetImage(states[CHOOSE i \in DOMAIN states :
                              states[i].name = s /\ \A j \in 1 .. i - 1 : states[j].name # s].img)]
\* Play: an unknown state is logged, and what was played goes on.
Play(animator, state) ==
    IF state \in DOMAIN animator.states THEN [animator EXCEPT !.current = state] ELSE animator
\* Copy-assignment from the cached one leaves what the animator was playing.
Copied(name) ==
    [NoPlayer EXCEPT !.states = IF HasAnimator(name) THEN StatesOf(name) ELSE <<>>]

-----------------------------------------------------------------------------
(* Prefab::InstantiatePrefab and TilesetDef *)

\* Whether a load of this prefab, and of its animator, comes to an end.
Loads(name) ==
    name \in DOMAIN disk.prefabs =>
        LET p == disk.prefabs[name]
        IN  p.ended /\ (HasPrefab(name) /\ HasAnimator(p.anim) => disk.animators[p.anim].ended)

\* Instantiating reads the prefab, its image and its animator, if it has one.
WithInstance(c, name) ==
    LET p == disk.prefabs[name]
        c1 == WithPrefab(c, name)
    IN  IF HasPrefab(name) THEN WithAnimator(WithImages(c1, {p.img}), p.anim) ELSE c1
\* The entity shows the prefab's image, or that of its animator's default state.
Instance(name, id) ==
    LET p == disk.prefabs[name]
        anim == IF HasAnimator(p.anim) THEN Play(Copied(p.anim), disk.animators[p.anim].default)
                ELSE NoPlayer
    IN  [id |-> id, tile |-> <<0, 0>>, anim |-> anim,
         img |-> IF anim.current = Null THEN GetImage(p.img) ELSE anim.states[anim.current]]

\* TilesetDef::LoadFromFile, for one tileset: its tiles row by row behind the
\* others, entry 0 being the empty tile, and the id of its last tile.
TilesOf(img) ==
    LET size == disk.images[img]
    IN  [n \in 1 .. size.x * size.y |-> <<(n - 1) % size.x, (n - 1) \div size.x>>]
LoadTilesets(names) ==
    LET images == [i \in DOMAIN names |-> GetImage(names[i])]
        tiles[n \in 0 .. Len(names)] ==
            IF n = 0 THEN <<<<0, 0>>>> ELSE tiles[n - 1] \o TilesOf(images[n])
    IN  [loaded |-> TRUE, resources |-> images, tiles |-> tiles[Len(names)],
         ends |-> [i \in DOMAIN names |-> Len(tiles[i]) - 1]]

\* GetResourceIndexFromID: the first resource whose last id is not below, the
\* first of all for an id beyond the last.  Mutant: strictly above.
GetResourceIndexFromIDStrict(def, id) ==
    LET found == {i \in DOMAIN def.ends : id < def.ends[i]}
    IN  IF ~def.loaded THEN -1 ELSE IF found = {} THEN 0 ELSE (CHOOSE i \in found : \A j \in found : i <= j) - 1
GetResourceIndexFromID(def, id) ==
    LET found == {i \in DOMAIN def.ends : id <= def.ends[i]}
    IN  IF ~def.loaded THEN -1 ELSE IF found = {} THEN 0 ELSE (CHOOSE i \in found : \A j \in found : i <= j) - 1
\* GetResource compares with an unsigned size: -1 is out of range.
GetResource(def, i) == IF i + 1 \in DOMAIN def.resources THEN def.resources[i + 1] ELSE Null
GetTile(def, id) == IF id < Len(def.tiles) THEN def.tiles[id + 1] ELSE <<0, 0>>

-----------------------------------------------------------------------------
(* What the engine asks for *)

\* AssetsManager::Init loads the fallback image and fails without it.
AssetsInits == NullImg \in DOMAIN disk.images
CacheAtInit == WithImages(NoAssets, {NullImg})

\* World::InitializeWorld: the player and his animator, then Mapfile::LoadMap,
\* with its tileset definition, a tile for every id but 0 and its prefabs.
\* Only a prefab that does not exist is left out; the results of the other
\* loads are not looked at.
PlayerAnimator == "player_war.nanim"
TileEntity(def, id) ==
    [id |-> id, img |-> GetResource(def, GetResourceIndexFromID(def, id)),
     tile |-> GetTile(def, id), anim |-> NoPlayer]
\* LoadFromFile fails without the file and TilesetDef stays unloaded.
MapTileDef == IF disk.defined THEN LoadTilesets(disk.tilesets) ELSE NoTileDef
MapCache(c) ==
    LET tilesets == IF disk.defined THEN ToSet(disk.tilesets) ELSE {}
        loaded[n \in 0 .. Len(disk.map.prefabs)] ==
            IF n = 0 THEN WithImages(WithAnimator(c, PlayerAnimator), tilesets)
            ELSE WithInstance(loaded[n - 1], disk.map.prefabs[n])
    IN  loaded[Len(disk.map.prefabs)]
WorldLoads ==
    /\ HasAnimator(PlayerAnimator) => disk.animators[PlayerAnimator].ended
    /\ \A i \in DOMAIN disk.map.prefabs : Loads(disk.map.prefabs[i])
InitializeWorld ==
    /\ cache' = MapCache(CacheAtInit) /\ tileDef' = MapTileDef
    /\ player' = Play(Copied(PlayerAnimator), "idle")
    /\ entities' = {TileEntity(tileDef', id) : id \in disk.map.tiles}
                     \cup {Instance(disk.map.prefabs[i], -i) :
                             i \in {j \in DOMAIN disk.map.prefabs : HasPrefab(disk.map.prefabs[j])}}
    /\ UNCHANGED disk

\* A click of the editor, if the prefab can be loaded, and Player::HandleAnim.
\* (Entities that look the same are one here; WorldEntities tells them apart.)
EditorAdds(name) ==
    /\ Loads(name)
    /\ cache' = WithInstance(cache, name)
    /\ entities' = entities \cup (IF HasPrefab(name) THEN {Instance(name, 0)} ELSE {})
HandleAnim(state) == player' = Play(player, state)

-----------------------------------------------------------------------------
(* Properties *)

\* Raw pointers to cached images: those of the tile set, of every entity and
\* of every state of an animator are to images that are loaded, the fallback
\* included ("required for the AssetsManager to work properly",
\* AssetsManager.cpp:13).  A tile has none only if the tileset definition failed
\* or lists no tileset.
ImagesHeld ==
    LET AnimatorImages(a) == {a.states[s] : s \in DOMAIN a.states}
    IN  /\ ToSet(tileDef.resources) \subseteq cache.images
        /\ AnimatorImages(player) \subseteq cache.images
        /\ \A e \in entities :
              /\ e.img \in cache.images \/ (e.img = Null /\ tileDef.resources = <<>>)
              /\ AnimatorImages(e.anim) \subseteq cache.images

\* "Given the ID of a tile, returns the ID of the resource the tile comes
\* from" (TilesetDef.h:113): an id stands for the same tile as in the plain
\* list of all tiles of all tilesets, also when one of them has no tiles.
Catalogue ==
    FlattenSeq([i \in DOMAIN disk.tilesets |->
                  LET img == GetImage(disk.tilesets[i])
                  IN  [n \in DOMAIN TilesOf(img) |-> <<img, TilesOf(img)[n]>>]])
TilesMatchCatalogue ==
    tileDef.loaded =>
        \A e \in entities : e.id \in DOMAIN Catalogue => <<e.img, e.tile>> = Catalogue[e.id]
=============================================================================
