---------------------------- MODULE ClientEngine ----------------------------
(***************************************************************************)
(* A client process from main to its end, again and again: Engine::Init,   *)
(* Start and the world, frames that work the console and the assets, and   *)
(* Shutdown.  The engine is sequential: a frame is one step.               *)
(***************************************************************************)
EXTENDS Console, Assets

CONSTANTS Keyboards, \* the keys that may be held together
          EditorPrefabs,
          MaxSent,   \* bound on the commands sent in a run
          MaxPasted, \* bound on pasted
          MaxIndex   \* bound on m_curHistoryIndex, which an empty history lets grow

VARIABLES stage,     \* "off", "running", "stuck"
          running,   \* m_isRunning
          sent,      \* commands sent in this run
          \* History: what the last Shutdown had to write; the lines, but one of
          \* each text, that were sent since the first run.
          lastRun, pasted
engineVars == <<stage, running, sent, lastRun, pasted>>
vars == <<consoleVars, assetsVars, engineVars>>

Init ==
    /\ console = Closed /\ file = <<>> /\ keys = {} /\ field = FALSE
    /\ disk \in Disks /\ cache = NoAssets /\ tileDef = NoTileDef /\ entities = {} /\ player = NoPlayer
    /\ stage = "off" /\ running = FALSE /\ sent = 0 /\ lastRun = <<>> /\ pasted = 0

\* Init takes the state of the keyboard, then the caches, then the history;
\* Start loads the world.  (If a subsystem fails to start, main returns without
\* Shutdown and nothing has changed.)
Start ==
    /\ stage = "off" /\ AssetsInits /\ WorldLoads
    /\ keys' \in Keyboards /\ ConsoleInit /\ field' = FALSE
    /\ InitializeWorld
    /\ stage' = "running" /\ running' = TRUE /\ sent' = 0
    /\ UNCHANGED <<file, lastRun, pasted>>
\* A loader that never ends.
StartHangs ==
    /\ stage = "off" /\ AssetsInits /\ ~WorldLoads
    /\ stage' = "stuck"
    /\ UNCHANGED <<consoleVars, assetsVars, running, sent, lastRun, pasted>>

\* The lines of the text that the frame sends, if any, but the first.
FurtherLines(text) == IF Sent(text) = "" THEN 0 ELSE Len(Split[Sent(text)]) - 1
\* Input, the game, the console; the window may be closed at any time.
Frame(held, text, closes) ==
    /\ stage = "running" /\ running /\ (field \/ text = "") \* else typing changes nothing
    /\ ConsoleFrame(held, text) /\ console'.index <= MaxIndex
    /\ sent < MaxSent \/ Sent(text) = ""
    /\ sent' = IF Sent(text) = "" THEN sent ELSE sent + 1
    /\ pasted' = pasted + FurtherLines(text) /\ pasted' <= MaxPasted
    /\ running' = (~closes /\ Sent(text) \notin Quitting)
    /\ UNCHANGED <<disk, tileDef, stage, lastRun>>
PlayFrame(held, text, closes) ==
    /\ Frame(held, text, closes)
    /\ \E state \in PlayerStates : HandleAnim(state)
    /\ UNCHANGED <<cache, entities>>
EditFrame(held, text, closes) ==
    /\ Frame(held, text, closes)
    /\ \E name \in EditorPrefabs : EditorAdds(name)
    /\ UNCHANGED player
EditHangs ==
    /\ stage = "running" /\ running /\ \E name \in EditorPrefabs : ~Loads(name)
    /\ stage' = "stuck"
    /\ UNCHANGED <<consoleVars, assetsVars, running, sent, lastRun, pasted>>

\* The process is over: its memory is gone, the file and the disk remain.
Exit ==
    /\ stage' = "off" /\ running' = FALSE /\ sent' = 0
    /\ console' = Closed /\ keys' = {} /\ field' = FALSE
    /\ cache' = NoAssets /\ tileDef' = NoTileDef /\ entities' = {} /\ player' = NoPlayer
    /\ UNCHANGED disk
\* The loop ends and Engine::Shutdown writes the history, if the file opens.
Shutdown ==
    /\ stage = "running" /\ ~running
    /\ ConsoleShutdown /\ lastRun' = Written(console.history)
    /\ Exit
    /\ UNCHANGED pasted
ShutdownUnwritten ==
    /\ stage = "running" /\ ~running
    /\ Exit /\ UNCHANGED <<file, lastRun, pasted>>
\* The process dies in a frame, or is killed.
Dies ==
    /\ stage \in {"running", "stuck"}
    /\ Exit /\ UNCHANGED <<file, lastRun, pasted>>

Next ==
    \/ Start \/ StartHangs
    \/ \E held \in Keyboards, text \in Texts, closes \in BOOLEAN :
          PlayFrame(held, text, closes) \/ EditFrame(held, text, closes)
    \/ EditHangs \/ Shutdown \/ ShutdownUnwritten \/ Dies

Spec == Init /\ [][Next]_vars

-----------------------------------------------------------------------------
(* Properties *)

\* Type invariant.
TypeOK ==
    /\ console.active \in BOOLEAN /\ console.index \in Int /\ console.text \in Texts
    /\ console.history \in Seq(Texts) /\ file \in Seq(Texts) /\ pasted \in Nat
    /\ field \in BOOLEAN /\ running \in BOOLEAN /\ stage \in {"off", "running", "stuck"}
    /\ cache.images \subseteq DOMAIN disk.images

\* The history read at a start and what is written at a shutdown feed each
\* other.  Runs without commands double the file, but what "limits the command
\* history" (Console.h:22) stops the doubling at twice the limit.  It counts the
\* texts, though, and the file is read by lines: every further line of a pasted
\* text, in whatever run, can make the history longer by one for good.
HistoryBounded == Len(console.history) <= 2 * (MaxHistory - 1) + pasted

\* "We can save and retrieve the history of last application launch"
\* (Console.h:42): whatever runs, crashes and failed starts came between,
\* what the last shutdown wrote is the end of the history at the next start.
HistorySurvives ==
    [][stage = "off" /\ stage' = "running" => IsSuffix(lastRun, console'.history)]_vars

\* An arrow key in an open console shows a command of the history, and the
\* first UP after opening it the latest one, even if the same frame's RETURN
\* opened the console, or sent a line and left it open.
RecallShowsHistory ==
    [][stage = "running" /\ running /\ console'.active /\ console'.history # <<>> =>
          /\ "UP" \in keys' \ keys \/ "DOWN" \in keys' \ keys => console'.text \in ToSet(console'.history)
          /\ "UP" \in keys' \ keys /\ ~console.active => console'.text = Last(console'.history)]_vars
=============================================================================
