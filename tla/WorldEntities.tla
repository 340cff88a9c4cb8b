--------------------------- MODULE WorldEntities ---------------------------
(***************************************************************************)
(* The client's world: a grid of cells, the entities the world owns, and   *)
(* one frame of Game::Update over them - input, camera, the click on the   *)
(* hovered cell, the update of every visible entity, the transfers between *)
(* cells, the console.  Positions are kept to the cell they lie in         *)
(* (m_pos / CELL_WIDTH, truncated), which is what the code compares.       *)
(***************************************************************************)
EXTENDS Integers, Sequences, SequencesExt, FiniteSets

CONSTANTS WORLD_WIDTH, WORLD_HEIGHT,
          Ids,          \* entity ids
          NoCell,       \* the null Cell*
          PlayerId, AiId,
          Start,        \* the cell of every entity InitializeWorld adds
          Placed,       \* the lists of the cells after InitializeWorld
          Radii,        \* half widths of the visible rectangle, from the zoom
          Walks,        \* how many cells the player may walk in one frame, on either axis
          InstanceCell, \* the cell an instance of a prefab made for a cell lies in (m_posOffset)
          Interactions, \* the interactable types of a prefab, by its name
          MovedTo,      \* the cell of a MOVE interactable
          MovedBy,      \* the cells of a MOVE_RELATIVE interactable
          GridDistance  \* m_gridDistanceInteraction

Grid == (0 .. WORLD_WIDTH - 1) \X (0 .. WORLD_HEIGHT - 1)
Prefabs == {"campfire01", "tree01"}
\* Interactable::InteractType
InteractTypes == {"DESTROY", "TOGGLE_LIGHT", "TOGGLE_COLL", "PLAY_ANIM", "MOVE", "MOVE_RELATIVE"}

ASSUME WorldAssumption ==
    /\ WORLD_WIDTH \in Nat \ {0} /\ WORLD_HEIGHT \in Nat \ {0}
    /\ NoCell \notin Grid /\ NoCell \notin Int \X Int
    /\ Start \in [DOMAIN Start -> Grid] /\ DOMAIN Start \subseteq Ids
    /\ {PlayerId, AiId} \subseteq DOMAIN Start /\ PlayerId # AiId
    /\ Placed \in [Grid -> Seq(DOMAIN Start)]
    /\ \A c \in Grid : \A i \in 1 .. Len(Placed[c]) : Start[Placed[c][i]] = c
    /\ \A c \in Grid : \A i, j \in 1 .. Len(Placed[c]) : Placed[c][i] = Placed[c][j] => i = j
    /\ \A e \in DOMAIN Start : \E i \in 1 .. Len(Placed[Start[e]]) : Placed[Start[e]][i] = e
    /\ MovedTo \in Int \X Int /\ MovedBy \in Int \X Int /\ GridDistance \in Nat /\ Radii \subseteq Nat
    /\ Walks \subseteq Int \X Int /\ InstanceCell \in [Prefabs -> [Grid -> Int \X Int]]
    /\ Interactions \in [Prefabs -> Seq(InteractTypes)]

VARIABLES cells,    \* Cell::m_entities of every cell
          live,     \* the ids in m_allEntities
          prefab,   \* which prefab an entity was made from
          owner,    \* m_owner
          next,     \* m_nextOwner
          at,       \* the cell m_pos lies in
          grid,     \* m_gridPosX, m_gridPosY
          pending,  \* m_entitiesWaitingForTransfer
          moved,    \* how many of them TransferPendingEntities has moved
          player,   \* Game's m_curPlayer is set
          mode, free, view,
          phase,    \* where Game::Update is
          slot,     \* the last <<x, y, i>> World::Update has updated
          \* History: the entities updated this frame; the player has been teleported
          \* since TransferPendingEntities last moved it.
          updated, teleported
vars == <<cells, live, prefab, owner, next, at, grid, pending, moved, player, mode, free, view, phase, slot,
          updated, teleported>>
placement == <<cells, owner, next>>
loop == <<view, slot, updated>>
entities == <<live, prefab, player>>

Init == \* World::InitializeWorld
    /\ cells = Placed /\ live = DOMAIN Start
    /\ prefab = [e \in Ids |-> "tree01"]
    /\ owner = [e \in Ids |-> IF e \in DOMAIN Start THEN Start[e] ELSE NoCell]
    /\ next = [e \in Ids |-> NoCell]
    /\ at = [e \in Ids |-> IF e \in DOMAIN Start THEN Start[e] ELSE <<0, 0>>] /\ grid = at
    /\ pending = <<>> /\ moved = 0 /\ player = TRUE
    /\ mode = "PLAY_MODE" /\ free = FALSE /\ view = {} /\ phase = "input" /\ slot = <<0, 0, 0>>
    /\ updated = {} /\ teleported = FALSE

-----------------------------------------------------------------------------
(* Cells and transfers *)

\* The index RemoveEntityPtr finds.
IndexOf(s, e) == CHOOSE i \in 1 .. Len(s) : s[i] = e
RemoveEntityPtr(e) == [cells EXCEPT ![owner[e]] = RemoveAt(@, IndexOf(@, e))]
AddEntityPtr(list, c, e) == [list EXCEPT ![c] = Append(@, e)]

\* Mutant: the entity is added to the new list without leaving the old one.
TransferStays(e, c) ==
    /\ cells' = AddEntityPtr(cells, c, e)
    /\ owner' = [owner EXCEPT ![e] = c]
    /\ next' = [next EXCEPT ![e] = NoCell]
\* TransferToCellImmediately: leave the owner's list, join the list of c.
Transfer(e, c) ==
    /\ cells' = AddEntityPtr(RemoveEntityPtr(e), c, e)
    /\ owner' = [owner EXCEPT ![e] = c]
    /\ next' = [next EXCEPT ![e] = NoCell]

\* A null pointer or a freed entity is used: the process is gone.
Crash ==
    /\ phase' = "crashed"
    /\ UNCHANGED <<entities, placement, at, grid, pending, moved, mode, free, loop, teleported>>

-----------------------------------------------------------------------------
(* One frame *)

\* Game::HandleInput: TAB switches the mode.  Camera::Update: C toggles the
\* free camera, which a missing player forces.
HandleInput == mode' \in {"PLAY_MODE", "EDIT_MODE"}
CameraUpdate == free' \in IF player THEN BOOLEAN ELSE {TRUE}
BeginFrame ==
    /\ phase = "input" /\ phase' = "select"
    /\ HandleInput /\ CameraUpdate
    /\ UNCHANGED <<entities, placement, at, grid, pending, moved, loop, teleported>>

Clamped(n, size) == IF n < 0 THEN 0 ELSE IF n > size - 1 THEN size - 1 ELSE n
\* Mutant of Near: the visible range includes its upper end.
NearInclusive(mid, r, size) == Clamped(mid - r, size) .. Clamped(mid + r, size)
Near(mid, r, size) == Clamped(mid - r, size) .. Clamped(mid + r, size) - 1
Middles == IF free THEN Grid
           ELSE {<<Clamped(at[PlayerId][1], WORLD_WIDTH), Clamped(at[PlayerId][2], WORLD_HEIGHT)>>}

\* World::Update up to the loop over the cells; the click happens in between.
BeginUpdate ==
    /\ phase = "select" /\ phase' = "update"
    /\ \E mid \in Middles, r \in Radii :
          view' = Near(mid[1], r, WORLD_WIDTH) \X Near(mid[2], r, WORLD_HEIGHT)
    /\ pending' = <<>> /\ moved' = 0
    /\ UNCHANGED <<mode, free, slot, updated, teleported>>

NoClick == BeginUpdate /\ UNCHANGED <<entities, placement, at, grid>>

\* Mutant of RemoveEntity: ~Player leaves m_curPlayer as it is.
RemoveEntityKeepsPlayer(e) ==
    /\ cells' = RemoveEntityPtr(e)
    /\ live' = live \ {e} /\ owner' = [owner EXCEPT ![e] = NoCell]
    /\ at' = [at EXCEPT ![e] = <<0, 0>>] /\ grid' = [grid EXCEPT ![e] = <<0, 0>>]
    /\ UNCHANGED <<prefab, next, player>>
\* World::RemoveEntity: out of its cell's list, then freed; the destructor of
\* a Player clears m_curPlayer.  (A freed id may be handed out again here, so
\* that the set of ids is finite: nothing refers to it any more.)
RemoveEntity(e) ==
    /\ cells' = RemoveEntityPtr(e)
    /\ live' = live \ {e} /\ player' = (player /\ e # PlayerId)
    /\ owner' = [owner EXCEPT ![e] = NoCell]
    /\ at' = [at EXCEPT ![e] = <<0, 0>>] /\ grid' = [grid EXCEPT ![e] = <<0, 0>>]
    /\ UNCHANGED <<prefab, next>>

AddEntity(e, name, c) ==
    /\ cells' = AddEntityPtr(cells, c, e)
    /\ live' = live \cup {e} /\ prefab' = [prefab EXCEPT ![e] = name]
    /\ owner' = [owner EXCEPT ![e] = c]
    /\ at' = [at EXCEPT ![e] = c] /\ grid' = [grid EXCEPT ![e] = c]
    /\ UNCHANGED <<next, player>>

\* A click in edit mode removes the first entity of an occupied cell and adds
\* the button's prefab to an empty one, unless that lies outside the world.
EditRemove(c) == BeginUpdate /\ mode = "EDIT_MODE" /\ cells[c] # <<>> /\ RemoveEntity(Head(cells[c]))
EditAdd(c) == /\ BeginUpdate /\ mode = "EDIT_MODE" /\ cells[c] = <<>>
              /\ \E e \in Ids \ (live \cup {PlayerId, AiId}), name \in Prefabs :
                    InstanceCell[name][c] \in Grid /\ AddEntity(e, name, InstanceCell[name][c])

\* A click in play mode interacts with the first entity of the cell, if the
\* player is there and near enough.
InteractablesOf(e) == IF e \in {PlayerId, AiId} THEN <<>> ELSE Interactions[prefab[e]]
Distance(a, b) == LET Abs(n) == IF n < 0 THEN -n ELSE n
                      x == Abs(a[1] - b[1])
                      y == Abs(a[2] - b[2])
                  IN  IF x > y THEN x ELSE y
CanInteract(c) ==
    /\ mode = "PLAY_MODE" /\ cells[c] # <<>> /\ InteractablesOf(Head(cells[c])) # <<>> /\ player
    /\ Distance(grid[PlayerId], grid[Head(cells[c])]) <= GridDistance \/ GridDistance = 0
Does(c, type) == Contains(InteractablesOf(Head(cells[c])), type)

\* Every interactable runs, in order, and only m_pos is changed (the entity's
\* own update finds that it left its cell): a MOVE sets it, and what the
\* MOVE_RELATIVEs behind the last MOVE add to it is left in the end.
Moved(p, types) ==
    LET moves == {i \in DOMAIN types : types[i] = "MOVE"}
        from == IF moves = {} THEN p ELSE MovedTo
        n == Cardinality({i \in DOMAIN types : types[i] = "MOVE_RELATIVE" /\ \A j \in moves : j < i})
    IN  <<from[1] + n * MovedBy[1], from[2] + n * MovedBy[2]>>
PlayInteract(c) ==
    /\ BeginUpdate /\ CanInteract(c) /\ ~Does(c, "DESTROY")
    /\ LET e == Head(cells[c])
       IN  at' = [at EXCEPT ![e] = Moved(@, InteractablesOf(e))]
    /\ UNCHANGED <<entities, placement, grid>>

\* DESTROY frees the entity while the loop over its interactables still uses it.
PlayDestroy(c) == phase = "select" /\ CanInteract(c) /\ Does(c, "DESTROY") /\ Crash

-----------------------------------------------------------------------------
\* The loop over the visible cells and, in each, over its list.
Before(s, t) == \/ s[1] < t[1]
                \/ s[1] = t[1] /\ s[2] < t[2]
                \/ s[1] = t[1] /\ s[2] = t[2] /\ s[3] < t[3]
Slots == UNION {{<<c[1], c[2], i>> : i \in 1 .. Len(cells[c])} : c \in view}
Remaining == {s \in Slots : Before(slot, s)}
EntityAt(s) == cells[<<s[1], s[2]>>][s[3]]

\* BehaviorIdle: a pixel further on both axes, which may be in the next cell.
AISteps == {0, 1} \X {0, 1}
\* Where m_pos may lie after an update: the player walks as far as its speed
\* and the duration of the frame take it, along one axis, both or neither (no
\* key, the console is open, a collider); everything else stands.
Steps(e) == IF e = PlayerId THEN Walks ELSE IF e = AiId THEN AISteps ELSE {<<0, 0>>}

\* World::GetCellAt.
CellAt(c) == IF c \in Grid THEN c ELSE NoCell

\* Mutant of Queue: only a new row is noticed.
QueueRowsOnly(e, p) ==
    IF p[1] # grid[e][1]
    THEN next' = [next EXCEPT ![e] = CellAt(p)] /\ pending' = Append(pending, e)
    ELSE UNCHANGED <<next, pending>>
\* A change of the grid position queues a transfer (TransferToCellQueue).
Queue(e, p) ==
    IF p # grid[e]
    THEN next' = [next EXCEPT ![e] = CellAt(p)] /\ pending' = Append(pending, e)
    ELSE UNCHANGED <<next, pending>>

\* Mutant of UpdateEntity: the transfer is done at once.
UpdateEntityTransfers ==
    /\ phase = "update"
    /\ \E s \in Remaining : \E d \in Steps(EntityAt(s)) :
          LET e == EntityAt(s)
              p == <<at[e][1] + d[1], at[e][2] + d[2]>>
          IN  /\ \A t \in Remaining : t = s \/ Before(s, t)
              /\ slot' = s /\ updated' = updated \cup {e}
              /\ at' = [at EXCEPT ![e] = p] /\ grid' = [grid EXCEPT ![e] = p]
              /\ IF p # grid[e] /\ p \in Grid THEN Transfer(e, p) ELSE UNCHANGED <<cells, owner, next>>
    /\ UNCHANGED <<entities, pending, moved, mode, free, view, phase, teleported>>
\* Entity::Update, after the walk of a Player or an AI.
UpdateEntity ==
    /\ phase = "update"
    /\ \E s \in Remaining : \E d \in Steps(EntityAt(s)) :
          LET e == EntityAt(s)
              p == <<at[e][1] + d[1], at[e][2] + d[2]>>
          IN  /\ \A t \in Remaining : t = s \/ Before(s, t)
              /\ slot' = s /\ updated' = updated \cup {e}
              /\ at' = [at EXCEPT ![e] = p]
              /\ grid' = [grid EXCEPT ![e] = p]
              /\ Queue(e, p)
    /\ UNCHANGED <<entities, cells, owner, moved, mode, free, view, phase, teleported>>

EndUpdate ==
    /\ phase = "update" /\ Remaining = {} /\ phase' = "transfer"
    /\ slot' = <<0, 0, 0>> /\ view' = {} /\ updated' = {} \* not read again before BeginUpdate
    /\ UNCHANGED <<entities, placement, at, grid, pending, moved, mode, free, teleported>>

\* TransferPendingEntities: an entity outside the world has no next owner.
TransferPending ==
    /\ phase = "transfer" /\ moved < Len(pending)
    /\ LET e == pending[moved + 1]
       IN  IF next[e] = NoCell
           THEN Crash
           ELSE /\ Transfer(e, next[e]) /\ moved' = moved + 1 /\ teleported' = (teleported /\ e # PlayerId)
                /\ UNCHANGED <<entities, at, grid, pending, mode, free, phase, loop>>
EndTransfer ==
    /\ phase = "transfer" /\ moved = Len(pending) /\ phase' = "console"
    /\ UNCHANGED <<entities, placement, at, grid, pending, moved, mode, free, loop, teleported>>

\* Console::Update, after the world's: no command, or 'tel' to a cell.
NoCommand ==
    /\ phase = "console" /\ phase' = "input"
    /\ UNCHANGED <<entities, placement, at, grid, pending, moved, mode, free, loop, teleported>>
Teleport(c) ==
    /\ phase = "console"
    /\ IF player
       THEN /\ at' = [at EXCEPT ![PlayerId] = c] /\ Transfer(PlayerId, c) /\ teleported' = TRUE /\ phase' = "input"
            /\ UNCHANGED <<entities, grid, pending, moved, mode, free, loop>>
       ELSE Crash

Next ==
    \/ BeginFrame \/ NoClick
    \/ \E c \in Grid : EditRemove(c) \/ EditAdd(c) \/ PlayInteract(c) \/ PlayDestroy(c)
    \/ UpdateEntity \/ EndUpdate
    \/ TransferPending \/ EndTransfer
    \/ NoCommand \/ \E c \in Grid : Teleport(c)

Spec == Init /\ [][Next]_vars

-----------------------------------------------------------------------------
(* Properties *)

\* Type invariant.
TypeOK ==
    /\ cells \in [Grid -> Seq(Ids)]
    /\ live \subseteq Ids /\ prefab \in [Ids -> Prefabs] /\ player \in BOOLEAN
    /\ owner \in [Ids -> Grid \cup {NoCell}] /\ next \in [Ids -> Grid \cup {NoCell}]
    /\ at \in [Ids -> Int \X Int] /\ grid \in [Ids -> Int \X Int]
    /\ pending \in Seq(Ids) /\ moved \in Nat
    /\ mode \in {"PLAY_MODE", "EDIT_MODE"} /\ free \in BOOLEAN /\ view \subseteq Grid
    /\ phase \in {"input", "select", "update", "transfer", "console", "crashed"}

\* A pointer in a list is to an entity of l that names the cell as its owner,
\* no list holds one twice, and each is in the list of its owner.
Agree(list, own, l) ==
    /\ \A c \in Grid : \A i \in 1 .. Len(list[c]) : list[c][i] \in l /\ own[list[c][i]] = c
    /\ \A c \in Grid : \A i, j \in 1 .. Len(list[c]) : list[c][i] = list[c][j] => i = j
    /\ \A e \in l : own[e] \in Grid /\ \E i \in 1 .. Len(list[own[e]]) : list[own[e]][i] = e

\* "Entities are logically owned by Cells, where each Cell stores a vector of
\* raw pointers to the allEntities they logically own" (World.h:53-54):
\* lists, owners and the entities of the world agree whatever clicks, updates,
\* transfers and teleports did.
EntityInItsCell == Agree(cells, owner, live)

\* The raw pointers kept from one step of a frame to a later one are live when
\* they are used: the pending transfers, and the current player.
PointersLive ==
    /\ phase \in {"update", "transfer"} => ToSet(pending) \subseteq live
    /\ player <=> PlayerId \in live

\* Entity.cpp:76-79: transfers wait until the world has been updated, or a
\* fast entity "can be updated multiple times" in a frame.
UpdatedOncePerFrame ==
    [][slot' # slot /\ phase' = "update" => EntityAt(slot') \notin updated]_vars

\* Between two frames an entity is in the list of the cell of its grid
\* position, although it is updated in one cell and transferred later, however
\* far it went.  But for the player from a 'tel' on, which moves its pointer and
\* not its grid position, until TransferPendingEntities next moves it.
StandsInItsCell ==
    phase = "input" =>
        \A e \in live : owner[e] = grid[e] \/ (e = PlayerId /\ teleported)

\* "given the Cell, we can quickly get all the entities contained in that
\* cell" (World.h:54-55), of the player between two frames.
PlayerInItsCell ==
    phase = "input" /\ player => owner[PlayerId] = at[PlayerId]

\* The AI only advances, but never leaves the world: the last row and column
\* are never visible, so that it stops there.
AIStaysInWorld == AiId \in live /\ phase # "crashed" => at[AiId] \in Grid
=============================================================================
