------------------------------- MODULE Console -------------------------------
(***************************************************************************)
(* The client's console: its input field, the history of commands, which   *)
(* is kept in a file from one run of the client to the next, and the keys  *)
(* that work it.  All of a frame's key and text events are handled before  *)
(* the console is updated, so that an update sees the keys of one frame    *)
(* and of the one before.                                                  *)
(***************************************************************************)
EXTENDS Integers, Sequences, SequencesExt, FiniteSets

CONSTANTS MaxHistory, \* CONSOLE_CMD_HISTORY_MAX_LENGTH
          Texts,      \* what the field may hold: typed, pasted or recalled
          Split,      \* the lines of a text that are not empty: a paste may have several
          Blank,      \* the texts of nothing but blanks
          Closing,    \* the texts whose command returns 0
          Quitting    \* those whose first word is qqq, in any case

ASSUME ConsoleAssumption ==
    /\ MaxHistory \in Nat \ {0, 1}
    /\ Split \in [Texts -> Seq(Texts)]
    /\ \A t \in Texts : \A i \in DOMAIN Split[t] : Split[Split[t][i]] = <<Split[t][i]>>
    /\ "" \in Blank /\ Blank \subseteq Texts /\ \A t \in Texts \ Blank : Split[t] # <<>>
    /\ "qqq" \in Quitting /\ Quitting \subseteq Closing /\ Closing \subseteq Texts

VARIABLES console, \* m_active, m_history, m_curHistoryIndex, m_inputField.m_str
          file,    \* the lines of lastconsolecmdshistory.log that are not empty
          keys,    \* m_keys, those that are held; m_prevKeys is what it was
          field    \* m_curInputField is the console's field
consoleVars == <<console, file, keys, field>>

\* Before Init: the globals of a new process.
Closed == [active |-> FALSE, history |-> <<>>, index |-> -1, text |-> ""]

\* Console::Init reads every such line of the file.  Mutant: the first ones only.
ConsoleInitFirst == console' = [Closed EXCEPT !.history = SubSeq(file, 1, IF Len(file) < MaxHistory THEN Len(file) ELSE MaxHistory)]
ConsoleInit == console' = [Closed EXCEPT !.history = file]

\* What Shutdown writes, by lines: the entries but "qqq", in order.
Written(history) ==
    FlattenSeq([i \in DOMAIN history |-> IF history[i] = "qqq" THEN <<>> ELSE Split[history[i]]])

\* Console::Shutdown: a full history replaces the file, a shorter one is
\* appended - with the lines that Init took from the file.  Mutant: always appended.
ConsoleShutdownAppends == file' = file \o Written(console.history)
ConsoleShutdown ==
    IF Len(console.history) >= MaxHistory
    THEN file' = Written(console.history)
    ELSE file' = file \o Written(console.history)

\* SendCmd's part in the history: a full one loses its first element.
Remembered(history, text) ==
    Append(IF Len(history) >= MaxHistory THEN Tail(history) ELSE history, text)

\* Toggle: opens the console, closes it on a blank text, or sends the text and
\* closes it if the command returns 0.  The field is cleared when focused.
Sends(c) == c.active /\ c.text \notin Blank
Toggle(c) ==
    IF ~c.active
    THEN [c EXCEPT !.active = TRUE, !.index = -1, !.text = ""]
    ELSE LET open == Sends(c) /\ c.text \notin Closing
         IN  [c EXCEPT !.active = open,
                       !.history = IF Sends(c) THEN Remembered(@, c.text) ELSE @,
                       !.text = IF open THEN "" ELSE @]

\* SDL_clamp against size() - 1, which is enormous for an empty history.
\* Mutant: against size().
ClampOffByOne(n, size) == IF n < 0 THEN 0 ELSE IF size > 0 /\ n > size THEN size ELSE n
Clamp(n, size) == IF n < 0 THEN 0 ELSE IF size > 0 /\ n > size - 1 THEN size - 1 ELSE n
Browse(c, step) ==
    LET size == Len(c.history)
        index == Clamp(c.index + step, size)
    IN  [c EXCEPT !.index = index,
                  !.text = IF index < size THEN c.history[size - index] ELSE @]

KeyDown(k) == k \in keys' \ keys

\* Console::Update on a console whose field has had this frame's text events.
Update(c) ==
    LET toggled == IF KeyDown("RETURN") THEN Toggle(c) ELSE c
    IN  CASE toggled.active /\ KeyDown("UP") -> Browse(toggled, 1)
          [] toggled.active /\ KeyDown("DOWN") /\ ~KeyDown("UP") -> Browse(toggled, -1)
          [] OTHER -> toggled

\* Input::Handle passes text, backspace and paste to the current field.
Typed(text) == IF field THEN [console EXCEPT !.text = text] ELSE console

\* One frame with the keys held at its start and what has been typed in it.
ConsoleFrame(held, text) ==
    /\ keys' = held
    /\ console' = Update(Typed(text))
    /\ field' = IF KeyDown("RETURN") THEN console'.active ELSE field
    /\ UNCHANGED file
\* The command the frame sends, if any.
Sent(text) == IF KeyDown("RETURN") /\ Sends(Typed(text)) THEN Typed(text).text ELSE ""
=============================================================================
