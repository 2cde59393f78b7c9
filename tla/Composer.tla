------------------------------ MODULE Composer ------------------------------
(***************************************************************************)
(* The prompt of the terminal: the draft with its cursor, the walk through *)
(* earlier submissions and the palette of slash commands                   *)
(* (tui/composer/model.py), behind the two ways a terminal reads it        *)
(* (tui/terminal.py): key by key with the palette drawn above the draft,   *)
(* or a line at a time.                                                    *)
(*                                                                         *)
(* A text is a sequence of letters.  No key is read while a turn runs, so  *)
(* a turn is one step here, and the queue and the steering of the composer *)
(* are never reached; nor is a newline, which the key reader calls enter.  *)
(* Leaving at the prompt is in TerminalTurn.tla.                           *)
(***************************************************************************)
EXTENDS Integers, Sequences, FiniteSetsExt, SequencesExt

CONSTANTS
  Slash, Space, Letters,  \* the letters that can be typed; Slash and Space have a meaning
  Palette,                \* the names of the commands, in palette order
  MaxLength,              \* bound: length of a typed draft
  MaxTyped,               \* bound: letters typed
  MaxHistory              \* bound: submissions remembered

ComposerAssumption ==
  /\ Slash # Space /\ {Slash, Space} \subseteq Letters
  /\ Palette \in Seq(Seq(Letters \ {Space}))
  /\ \A i \in DOMAIN Palette : Len(Palette[i]) > 1 /\ Palette[i][1] = Slash
  /\ MaxLength \in Nat /\ MaxTyped \in Nat /\ MaxHistory \in Nat

VARIABLES
  live,         \* whether keys are read one by one
  reading,      \* whether the terminal still reads
  value, cursor,                        \* the draft
  history, historyIndex, historyDraft,  \* the walk through earlier submissions
  selection,    \* the highlighted row of the palette, from 0
  busy,         \* a background operation is running: a submission is refused
  typed,        \* letters typed so far
  seen,         \* what the last key did: [key, echoed, ran, completed]
  left          \* the draft the current walk through history started from

draft == <<value, cursor>>
walk == <<history, historyIndex, historyDraft, left>>
vars == <<live, reading, draft, walk, selection, busy, typed, seen>>

-----------------------------------------------------------------------------
(* Helpers.                                                                *)

\* str.strip
Strip(text) ==
  LET solid == {i \in DOMAIN text : text[i] # Space}
  IN IF solid = {} THEN <<>> ELSE SubSeq(text, Min(solid), Max(solid))

\* Mutant: the palette waits for a letter after the slash.
MatchesLater(text) ==
  IF Len(text) < 2 \/ Head(text) # Slash \/ Contains(text, Space)
  THEN <<>> ELSE SelectSeq(Palette, LAMBDA name : IsPrefix(text, name))

\* The names of the palette that are in a set, in palette order.
Rows(names) ==
  LET kept[i \in 0..Len(Palette)] ==
        IF i = 0 THEN <<>>
        ELSE IF Palette[i] \in names THEN Append(kept[i - 1], Palette[i]) ELSE kept[i - 1]
  IN  kept[Len(Palette)]

\* Every palette entry the draft is a prefix of.
Matches(text) ==
  IF text = <<>> \/ Head(text) # Slash \/ Contains(text, Space)
  THEN <<>> ELSE Rows({name \in Range(Palette) : IsPrefix(text, name)})

Clamped(matches) == IF selection >= Len(matches) THEN Len(matches) - 1 ELSE selection

\* Mutant: enter completes only when one command is left.
CompletionOfOne ==
  LET matches == Matches(value) IN
  IF Len(matches) # 1 \/ matches[1] = value THEN <<>> ELSE matches[1]

\* The name Enter or Tab would put into the draft, <<>> when it is there already.
Completion ==
  LET matches == Matches(value) IN
  IF matches = <<>> THEN <<>>
  ELSE LET name == matches[Clamped(matches) + 1] IN IF name = value THEN <<>> ELSE name

\* Mutant: the read loop compares with the first row instead of the selected one.
CompletingFirst == LET matches == Matches(value) IN matches # <<>> /\ matches[1] # value

\* What the read loop works out for itself, before it hands the key on.
Completing ==
  LET matches == Matches(value) IN matches # <<>> /\ matches[selection + 1] # value

Init ==
  /\ live \in BOOLEAN /\ reading = TRUE
  /\ value = <<>> /\ cursor = 0
  /\ history = <<>> /\ historyIndex = 0 /\ historyDraft = <<>> /\ left = <<>>
  /\ selection = 0 /\ busy = FALSE /\ typed = 0
  /\ seen = [key |-> "other", echoed |-> <<>>, ran |-> <<>>, completed |-> FALSE]

-----------------------------------------------------------------------------
(* The draft.                                                              *)

\* Mutant: clearing leaves the cursor where it was.
SetValueOnly(text) == value' = text /\ cursor' = cursor

SetValue(text) == value' = text /\ cursor' = Len(text)

Remembered(text) ==
  IF history # <<>> /\ Last(history) = text THEN history ELSE Append(history, text)

\* Completing: the draft becomes the name, and the palette starts over.
Complete(name) == SetValue(name) /\ selection' = 0

\* An enter that does not complete: the draft is remembered and, unless it is
\* blank or refused, taken away.  A command may start a background operation.
Submit(text, began) ==
  IF text = <<>> THEN UNCHANGED <<draft, walk, busy>>
  ELSE /\ Len(Remembered(text)) <= MaxHistory
       /\ history' = Remembered(text)
       /\ historyIndex' = Len(history') /\ historyDraft' = <<>> /\ left' = <<>>
       /\ busy' = (busy \/ (began /\ Head(text) = Slash))
       /\ IF busy THEN UNCHANGED draft ELSE SetValue(<<>>)

Enter(began) ==
  IF Completion # <<>>
  THEN Complete(Completion) /\ UNCHANGED <<walk, busy>>
  ELSE /\ selection' = IF Matches(value) = <<>> THEN selection ELSE Clamped(Matches(value))
       /\ Submit(Strip(value), began)

-----------------------------------------------------------------------------
(* Keys, one by one.                                                       *)

\* The read loop looks the selected row up before it hands on any key.
RowMissing == Matches(value) # <<>> /\ selection >= Len(Matches(value))

Key(key) ==
  /\ live /\ reading /\ ~RowMissing
  /\ seen' = [key |-> key, completed |-> key = "enter" /\ Completion # <<>>,
              echoed |-> IF key = "enter" /\ ~Completing THEN value ELSE <<>>,
              ran |-> IF key = "enter" /\ Completion = <<>> THEN Strip(value) ELSE <<>>]
  /\ UNCHANGED <<live, reading>>

Type(letter) ==
  /\ Key("other")
  /\ typed < MaxTyped /\ Len(value) < MaxLength /\ typed' = typed + 1
  /\ value' = InsertAt(value, cursor + 1, letter) /\ cursor' = cursor + 1
  /\ selection' = 0
  /\ UNCHANGED <<walk, busy>>

Backspace ==
  /\ Key("other") /\ cursor > 0
  /\ value' = RemoveAt(value, cursor) /\ cursor' = cursor - 1
  /\ UNCHANGED <<walk, selection, busy, typed>>

Move ==
  /\ Key("other") /\ value' = value
  /\ cursor' \in {Max({0, cursor - 1}), Min({Len(value), cursor + 1})}
  /\ UNCHANGED <<walk, selection, busy, typed>>

\* A key with no meaning, such as Ctrl+D on a draft, only resets the palette.
OtherKey ==
  /\ Key("other") /\ value # <<>> /\ selection' = 0
  /\ UNCHANGED <<draft, walk, busy, typed>>

Clear ==
  /\ Key("other") /\ value # <<>> /\ SetValue(<<>>)
  /\ historyIndex' = Len(history) /\ historyDraft' = <<>> /\ left' = <<>>
  /\ UNCHANGED <<history, selection, busy, typed>>

Tab ==
  /\ Key("other") /\ Completion # <<>> /\ Complete(Completion)
  /\ UNCHANGED <<walk, busy, typed>>

SelectUp ==
  /\ Key("other") /\ Matches(value) # <<>> /\ selection > 0 /\ selection' = selection - 1
  /\ UNCHANGED <<draft, walk, busy, typed>>

SelectDown ==
  /\ Key("down") /\ selection < Len(Matches(value)) - 1 /\ selection' = selection + 1
  /\ UNCHANGED <<draft, walk, busy, typed>>

\* Mutant: recalling keeps the draft over again on every step back.
RecallUpKeeps ==
  /\ Key("other") /\ Matches(value) = <<>> /\ historyIndex > 0
  /\ historyDraft' = value
  /\ left' = IF historyIndex = Len(history) THEN value ELSE left
  /\ historyIndex' = historyIndex - 1
  /\ SetValue(history[historyIndex])
  /\ UNCHANGED <<history, selection, busy, typed>>

RecallUp ==
  /\ Key("other") /\ Matches(value) = <<>> /\ historyIndex > 0
  /\ historyDraft' = IF historyIndex = Len(history) THEN value ELSE historyDraft
  /\ left' = IF historyIndex = Len(history) THEN value ELSE left
  /\ historyIndex' = historyIndex - 1
  /\ SetValue(history[historyIndex])
  /\ UNCHANGED <<history, selection, busy, typed>>

RecallDown ==
  /\ Key("down") /\ Matches(value) = <<>> /\ historyIndex < Len(history)
  /\ historyIndex' = historyIndex + 1
  /\ SetValue(IF historyIndex' = Len(history) THEN historyDraft ELSE history[historyIndex' + 1])
  /\ UNCHANGED <<history, historyDraft, left, selection, busy, typed>>

PressEnter == Key("enter") /\ (\E began \in BOOLEAN : Enter(began)) /\ UNCHANGED typed

\* The row under the selection is gone: the lookup raises out of the loop.
IndexError ==
  /\ live /\ reading /\ RowMissing /\ reading' = FALSE
  /\ UNCHANGED <<live, draft, walk, selection, busy, typed, seen>>

-----------------------------------------------------------------------------
(* Lines, and the background.                                              *)

\* A line replaces whatever the composer held, and is entered.
PutLine(text) ==
  /\ ~live /\ reading /\ Strip(text) # <<>> /\ typed + Len(text) <= MaxTyped
  /\ SetValue(text) /\ typed' = typed + Len(text)
  /\ seen' = [key |-> "line", echoed |-> <<>>, ran |-> <<>>, completed |-> seen.completed]
  /\ UNCHANGED <<live, reading, walk, selection, busy>>

EnterLine ==
  /\ ~live /\ reading /\ seen.key = "line"
  /\ \E began \in BOOLEAN : Enter(began)
  /\ seen' = [key |-> "enter", echoed |-> <<>>, completed |-> Completion # <<>>,
              ran |-> IF Completion = <<>> THEN Strip(value) ELSE <<>>]
  /\ UNCHANGED <<live, reading, typed>>

BackgroundEnds ==
  /\ reading /\ busy /\ busy' = FALSE
  /\ UNCHANGED <<live, reading, draft, walk, selection, typed, seen>>

Next ==
  \/ \E letter \in Letters : Type(letter)
  \/ Backspace \/ Move \/ OtherKey \/ Clear \/ Tab
  \/ SelectUp \/ SelectDown \/ RecallUp \/ RecallDown
  \/ PressEnter \/ IndexError
  \/ \E text \in SeqOf(Letters, MaxLength) : PutLine(text)
  \/ EnterLine \/ BackgroundEnds

Spec == Init /\ [][Next]_vars

-----------------------------------------------------------------------------
(* Properties.                                                             *)

Texts == Seq(Letters)

\* The draft, its cursor and the walk through history stay inside each other.
TypeOK ==
  /\ {live, reading, busy} \subseteq BOOLEAN /\ typed \in 0..MaxTyped
  /\ value \in Texts /\ cursor \in 0..Len(value)
  /\ history \in Seq(Texts) /\ Len(history) <= MaxHistory
  /\ historyIndex \in 0..Len(history) /\ {historyDraft, left} \subseteq Texts
  /\ selection \in 0..Len(Palette)
  /\ seen \in [key : STRING, echoed : Texts, ran : Texts, completed : BOOLEAN]

\* The read loop decides for itself whether an Enter completes, and prints the
\* draft into the scrollback when it does not; the composer decides again.  The
\* two agree: what the scrollback shows as entered is what was submitted.
EchoIsWhatRuns == live => Strip(seen.echoed) = seen.ran

\* A draft that is only the beginning of a command's name is never submitted,
\* by keys or as a line: Enter completes it first.
PartialNeverRunsStep ==
  seen' # seen /\ seen'.ran # <<>> /\ (\E i \in DOMAIN Palette : IsPrefix(value, Palette[i]))
     => seen'.ran \in {Palette[i] : i \in DOMAIN Palette}

PartialNeverRuns == [][PartialNeverRunsStep]_vars

\* However far Up has walked into history, and whatever was edited there,
\* coming back down to the end brings back the draft the walk started from.
DraftComesBackStep ==
  seen'.key = "down" /\ historyIndex < Len(history) /\ historyIndex' = Len(history)
     => value' = left

DraftComesBack == [][DraftComesBackStep]_vars

\* tui/composer/model.py:257 and terminal.py:183: the highlighted row is one of
\* the rows of the palette.
SelectionIsAMatch == reading => ~RowMissing

\* docs/terminal.md:17-18: Enter completes a selected partial name before a
\* second Enter runs it.
SecondEnterRuns ==
  [][seen.key = "enter" /\ seen.completed /\ seen'.key = "enter" /\ <<value, seen>>' # <<value, seen>>
       => seen'.ran = value]_vars

=============================================================================
