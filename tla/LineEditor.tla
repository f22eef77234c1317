------------------------------ MODULE LineEditor ------------------------------
(***************************************************************************)
(* The line editor behind readline (src/line_editor.cc): ReadLine's loop   *)
(* over the bytes of the terminal, with history recall, suggestions taken  *)
(* from the history, and what RefreshLine last put on the screen.          *)
(*                                                                         *)
(* A key press puts one or more bytes into the terminal's input; the       *)
(* editor reads them one at a time.  Lines are sequences of characters.    *)
(* The byte order of the history vector is kept (oldest first), positions  *)
(* count from 0 as in the source.                                          *)
(***************************************************************************)
EXTENDS Naturals, Sequences, FiniteSets, SequencesExt, FiniteSetsExt

CONSTANTS
  Printable,     \* the printable characters
  Blank,         \* the characters isspace accepts
  NewLine,       \* a line break inside a history entry
  Keys,          \* what the keys of the terminal send: sequences of bytes
  MaxLength,     \* max_length_
  HistoryLimit,  \* 4096, how many entries history_ keeps
  Histories,     \* the histories a caller may pass
  Contexts,      \* the contexts a caller may pass (the earlier lines of a chunk)
  NoHistory      \* the caller passes no history table

Enter == "CR"
Backspace == "DEL"
Tab == "HT"
Esc == "ESC"
CtrlC == "ETX"
CtrlD == "EOT"

Char == Printable \union {NewLine}

ASSUME LineEditorAssumption ==
  /\ NewLine \notin Printable
  /\ {Enter, Backspace, Tab, Esc, CtrlC, CtrlD} \intersect Char = {}
  /\ \A key \in Keys : key \in Seq(Range(key))
  /\ MaxLength \in Nat /\ HistoryLimit \in Nat \ {0}
  /\ \A h \in Histories : h \in Seq(Seq(Char))
  /\ NoHistory \notin Histories
  /\ \A c \in Contexts : c \in Seq(Char)

VARIABLES
  reading,           \* ReadLine is running
  input,             \* the bytes typed and not read yet
  escape,            \* how far HandleEscapeSequence is: "none", "esc", "csi"
  line, cursor,      \* the line being edited
  history,           \* history_
  history_position,  \* history_position_
  browsing_history,  \* browsing_history_
  saved_line,        \* saved_line_
  suggestion,        \* suggestion_
  context,           \* context_
  screen,            \* what RefreshLine showed last: line, cursor, suggestion
  returned           \* what ReadLine returned last; if true, *out is line

edit == <<line, cursor>>
recall == <<history_position, browsing_history, saved_line>>
vars == <<reading, input, escape, edit, history, recall, suggestion, context,
          screen, returned>>

-----------------------------------------------------------------------------
\* Mutant of RefreshLine: the screen stays as it is.
RefreshNothing(l, c, s) == UNCHANGED screen

\* RefreshLine(l, c) while suggestion_ is s.
RefreshLine(l, c, s) == screen' = [line |-> l, cursor |-> c, suggestion |-> s]

\* Mutant of Rest: one character too few.
RestButOne(entry, n) == SubSeq(entry, n + 2, Len(entry))

\* entry.substr(n)
Rest(entry, n) == SubSeq(entry, n + 1, Len(entry))

\* UpdateSuggestion(l): the rest of the newest history entry that goes on from
\* the context and l; none for an empty first line.
SuggestionFor(l, ctx, hist) ==
  LET full == ctx \o l
      longer == {k \in DOMAIN hist : IsStrictPrefix(full, hist[k])}
  IN  IF full = <<>> \/ longer = {} THEN <<>>
      ELSE Rest(hist[Max(longer)], Len(full))

\* Mutant of IsNew: no look for an equal line.
IsNewAlways(l) == TRUE

IsNew(l) == l \notin Range(history)

IsBlank(l) == \A k \in DOMAIN l : l[k] \in Blank

\* history_ after a line has been entered: a new, not blank line is appended,
\* and one line, the oldest, dropped beyond the limit.
Remember(l) ==
  LET longer == IF ~IsBlank(l) /\ IsNew(l) THEN Append(history, l) ELSE history
  IN  IF ~IsBlank(l) /\ Len(longer) > HistoryLimit THEN Tail(longer) ELSE longer

Init ==
  /\ reading = FALSE
  /\ input = <<>>
  /\ escape = "none"
  /\ line = <<>> /\ cursor = 0
  /\ history = <<>>
  /\ history_position = 0 /\ browsing_history = FALSE /\ saved_line = <<>>
  /\ suggestion = <<>>
  /\ context = <<>>
  /\ screen = [line |-> <<>>, cursor |-> 0, suggestion |-> <<>>]
  /\ returned = FALSE

\* SetHistory, if the caller passes one, and ReadLine up to its loop.
ReadLine(h, ctx) ==
  LET hist == IF h = NoHistory THEN history ELSE h
      first == SuggestionFor(<<>>, ctx, hist)
  IN  /\ ~reading
      /\ reading' = TRUE
      /\ history' = hist
      /\ context' = ctx
      /\ line' = <<>> /\ cursor' = 0
      /\ history_position' = Len(hist)
      /\ browsing_history' = FALSE
      /\ saved_line' = <<>>
      /\ suggestion' = first
      /\ RefreshLine(<<>>, 0, first)
      /\ UNCHANGED <<input, escape, returned>>

\* The user presses a key (bounded: the editor has read the last one).
Press(key) ==
  /\ reading
  /\ input = <<>>
  /\ input' = key
  /\ UNCHANGED <<reading, escape, edit, history, recall, suggestion, context,
                 screen, returned>>

\* ReadChar returns byte while HandleEscapeSequence is at that point.
ReadChar(byte, where) ==
  /\ reading
  /\ escape = where
  /\ input # <<>>
  /\ byte = Head(input)
  /\ input' = Tail(input)

Bytes == UNION {Range(key) : key \in Keys}

-----------------------------------------------------------------------------
\* ReadLine returns false: end of input, Ctrl-C where the terminal sends it as a
\* byte and not as a signal, or Ctrl-D on an empty line.
GiveUp ==
  /\ reading' = FALSE
  /\ returned' = FALSE
  /\ UNCHANGED <<edit, history, recall, suggestion, context, screen>>

EndOfInput ==
  /\ reading /\ input = <<>>
  /\ escape' = "none"
  /\ GiveUp
  /\ UNCHANGED input

Interrupt ==
  /\ \/ ReadChar(CtrlC, "none")
     \/ line = <<>> /\ ReadChar(CtrlD, "none")
  /\ GiveUp
  /\ UNCHANGED escape

\* Enter: the line is shown without suggestion, remembered and returned.
Accept ==
  /\ ReadChar(Enter, "none")
  /\ suggestion' = <<>>
  /\ RefreshLine(line, Len(line), <<>>)
  /\ returned' = TRUE
  /\ history' = Remember(line)
  /\ reading' = FALSE
  /\ UNCHANGED <<escape, edit, recall, context>>

\* The line becomes l with the cursor at c; a new suggestion is looked for.
Edit(l, c) ==
  LET s == SuggestionFor(l, context, history)
  IN  /\ line' = l /\ cursor' = c
      /\ suggestion' = s
      /\ RefreshLine(l, c, s)
      /\ UNCHANGED <<reading, escape, history, context, returned>>

BehindStart == cursor > 0

\* Backspace; at the start of the line the bell rings.
Erase ==
  /\ ReadChar(Backspace, "none")
  /\ IF BehindStart
     THEN Edit(RemoveAt(line, cursor), cursor - 1) /\ UNCHANGED recall
     ELSE UNCHANGED <<reading, escape, edit, history, recall, suggestion,
                      context, screen, returned>>

\* Mutant of HasRoom: max_length_ is not looked at (bounded).
HasRoomAlways == Len(line) <= 2 * MaxLength

HasRoom == Len(line) < MaxLength

\* Mutant of Detach: the position stays at the recalled entry.
DetachKeepingPosition == browsing_history' = FALSE /\ UNCHANGED history_position

Detach ==
  /\ browsing_history' = FALSE
  /\ history_position' =
       IF browsing_history THEN Len(history) ELSE history_position

\* A printable character.  The recalled line it changes is the user's now.
Insert(char) ==
  /\ ReadChar(char, "none")
  /\ IF HasRoom
     THEN /\ Edit(InsertAt(line, cursor + 1, char), cursor + 1)
          /\ Detach
          /\ UNCHANGED saved_line
     ELSE UNCHANGED <<reading, escape, edit, history, recall, suggestion,
                      context, screen, returned>>

\* The suggestion is taken over, whatever max_length_ is.
TakeSuggestion ==
  LET l == line \o suggestion
  IN  /\ line' = l /\ cursor' = Len(l)
      /\ suggestion' = <<>>
      /\ RefreshLine(l, Len(l), <<>>)
      /\ UNCHANGED <<history, recall, context>>

Complete ==
  /\ ReadChar(Tab, "none")
  /\ IF suggestion # <<>> THEN TakeSuggestion
     ELSE UNCHANGED <<edit, history, recall, suggestion, context, screen>>
  /\ UNCHANGED <<reading, escape, returned>>

\* Any other byte is ignored.
Ignore(byte) ==
  /\ byte \notin Printable \union {Enter, Backspace, Tab, Esc, CtrlC}
  /\ byte = CtrlD => line # <<>>
  /\ ReadChar(byte, "none")
  /\ UNCHANGED <<reading, escape, edit, history, recall, suggestion, context,
                 screen, returned>>

-----------------------------------------------------------------------------
(***************************************************************************)
(* HandleEscapeSequence: three bytes, whatever the key sends.              *)
(***************************************************************************)
EscapeByte ==
  /\ \/ ReadChar(Esc, "none") /\ escape' = "esc"
     \/ ReadChar("[", "esc") /\ escape' = "csi"
     \/ \E b \in Bytes \ {"["} : ReadChar(b, "esc") /\ escape' = "none"
     \/ \E b \in Bytes \ {"A", "B", "C", "D"} : ReadChar(b, "csi") /\ escape' = "none"
  /\ UNCHANGED <<reading, edit, history, recall, suggestion, context, screen,
                 returned>>

\* The cursor moves within the line, or at the end takes the suggestion over.
MoveRight ==
  /\ ReadChar("C", "csi")
  /\ escape' = "none"
  /\ IF cursor < Len(line)
     THEN /\ cursor' = cursor + 1
          /\ RefreshLine(line, cursor + 1, suggestion)
          /\ UNCHANGED <<line, history, recall, suggestion, context>>
     ELSE IF suggestion # <<>> THEN TakeSuggestion
     ELSE UNCHANGED <<edit, history, recall, suggestion, context, screen>>
  /\ UNCHANGED <<reading, returned>>

MoveLeft ==
  /\ ReadChar("D", "csi")
  /\ escape' = "none"
  /\ IF BehindStart
     THEN /\ cursor' = cursor - 1
          /\ RefreshLine(line, cursor - 1, suggestion)
     ELSE UNCHANGED <<cursor, screen>>
  /\ UNCHANGED <<reading, line, history, recall, suggestion, context, returned>>

\* Where RecallHistory starts from, and the line it saves: the position and the
\* saved line of the browsing under way, or those of a new one.
StartPosition == IF browsing_history THEN history_position ELSE Len(history)
Draft == IF browsing_history THEN saved_line ELSE line

\* Mutant of Matching: every entry matches that is as long as the context.
MatchingAny(positions) ==
  {p \in positions : Len(context) <= Len(history[p + 1])}

\* The positions whose entry goes on from the context and the saved line.
Matching(positions) ==
  {p \in positions : IsPrefix(context \o Draft, history[p + 1])}

\* RecallHistory shows l, now at position p, or only rings the bell.
ShowRecalled(l, p, browsing) ==
  /\ line' = l /\ cursor' = Len(l)
  /\ history_position' = p
  /\ browsing_history' = browsing
  /\ saved_line' = Draft
  /\ suggestion' = <<>>
  /\ RefreshLine(l, Len(l), <<>>)

RecallBell ==
  /\ history_position' = StartPosition
  /\ browsing_history' = TRUE
  /\ saved_line' = Draft
  /\ suggestion' = <<>>
  /\ UNCHANGED <<edit, screen>>

\* The part of the entry at position p that belongs to the current line.
EntryLine(p) == Rest(history[p + 1], Len(context))

RecallUp ==
  LET older == Matching(0..(StartPosition - 1))
  IN  IF older # {} THEN ShowRecalled(EntryLine(Max(older)), Max(older), TRUE)
      ELSE RecallBell

RecallDown ==
  LET newer == Matching((StartPosition + 1)..(Len(history) - 1))
  IN  IF newer # {} THEN ShowRecalled(EntryLine(Min(newer)), Min(newer), TRUE)
      ELSE IF StartPosition < Len(history) THEN ShowRecalled(Draft, Len(history), FALSE)
      ELSE RecallBell

RecallHistory(byte) ==
  /\ ReadChar(byte, "csi")
  /\ escape' = "none"
  /\ IF history = <<>> THEN UNCHANGED <<edit, recall, suggestion, screen>>
     ELSE IF byte = "A" THEN RecallUp ELSE RecallDown
  /\ UNCHANGED <<reading, history, context, returned>>

-----------------------------------------------------------------------------
Next ==
  \/ \E h \in Histories \union {NoHistory}, ctx \in Contexts : ReadLine(h, ctx)
  \/ \E key \in Keys : Press(key)
  \/ EndOfInput
  \/ Interrupt
  \/ Accept
  \/ Erase
  \/ \E char \in Printable : Insert(char)
  \/ Complete
  \/ \E byte \in Bytes : Ignore(byte)
  \/ EscapeByte
  \/ MoveRight
  \/ MoveLeft
  \/ RecallHistory("A")
  \/ RecallHistory("B")

Spec == Init /\ [][Next]_vars
-----------------------------------------------------------------------------
Twice(l, lines) == \E i, k \in DOMAIN lines : i # k /\ lines[i] = l /\ lines[k] = l

\* A caller may pass lines twice, blank ones and too many (rimeapi.app.lua:231
\* appends every chunk): however often lines are then entered and recalled, the
\* history repeats no line, holds no blank one and is not longer than its limit,
\* but as a caller's did.
CleanAsGiven(lines) ==
  /\ lines \in Seq(Seq(Char))
  /\ \A l \in Range(lines) :
       /\ Twice(l, lines) => \E h \in Histories : Twice(l, h)
       /\ IsBlank(l) => \E h \in Histories : l \in Range(h)
  /\ Len(lines) <= HistoryLimit \/ \E h \in Histories : Len(lines) <= Len(h)

TypeOK ==
  /\ reading \in BOOLEAN
  /\ input \in Seq(Bytes)
  /\ escape \in {"none", "esc", "csi"}
  /\ line \in Seq(Char)
  /\ cursor \in 0..Len(line)
  /\ CleanAsGiven(history)
  /\ history_position \in Nat
  /\ reading => history_position <= Len(history)
  /\ browsing_history \in BOOLEAN
  /\ saved_line \in Seq(Char)
  /\ suggestion \in Seq(Char)
  /\ context \in Seq(Char)
  /\ screen \in [line : Seq(Char), cursor : Nat, suggestion : Seq(Char)]
  /\ returned \in BOOLEAN

\* Whenever a key is awaited the screen shows the line and the cursor as they
\* are, and no suggestion that is not there; the one exception is the grey text
\* that stays when an arrow key finds nothing and only rings the bell.
ScreenCurrent ==
  reading =>
    /\ screen.line = line
    /\ screen.cursor = cursor
    /\ screen.suggestion # suggestion => suggestion = <<>> /\ browsing_history

\* A suggestion, taken over at any moment, completes the line to an entry of the
\* history: cursor moves, recalls and edits never leave one for another line.
SuggestionCompletes ==
  reading /\ suggestion # <<>> => context \o line \o suggestion \in Range(history)

\* Outside a recall the next one starts at the newest entry.
RecallStartsAtNewest ==
  reading /\ ~browsing_history => history_position = Len(history)

\* Suggestions and recalls are not limited by max_length_, but only by what the
\* history holds.
LineBounded ==
  \/ Len(line) <= MaxLength
  \/ reading => \E entry \in Range(history) : Len(line) <= Len(entry)

\* An arrow key shows only lines that go on from what the user had typed.
RecallKeepsDraft ==
  [][(RecallHistory("A") \/ RecallHistory("B")) /\ line' # line
       => IsPrefix(saved_line', line')]_vars

\* line_editor.cc: "editing after history recall should detach from history".
EditDetaches ==
  [][(Erase \/ Complete \/ \E char \in Printable : Insert(char)) /\ line' # line
       => ~browsing_history']_vars
=============================================================================
