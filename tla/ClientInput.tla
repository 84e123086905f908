---------------------------- MODULE ClientInput ----------------------------
(***************************************************************************)
(* The client's keyboard: the terminal reader that turns bytes into key    *)
(* events, the input line with its character and byte cursors, the history *)
(* with its draft, and tab completion.  A line is a sequence of bytes; "L" *)
(* and "c" are the lead and the continuation byte of a two-byte character. *)
(***************************************************************************)
EXTENDS Integers, Sequences, SequencesExt, FiniteSets

CONSTANTS Nil,
          ReadSize,        \* bytes taken from the terminal by one read
          HistorySize,     \* lines the history holds
          Nicks, Channels, \* completion candidates, sequences of lines
          CommandNames, ChannelArgCommands,
          Width,           \* columns of the input line
          MaxKeys,         \* keys the user presses
          MaxPending       \* bytes that may wait unread when a key is pressed

VARIABLES tty,        \* bytes not read yet
          pressed,    \* keys pressed so far
          handled,    \* key events handled so far
          line,       \* [buf, char, byte, scroll]
          history,    \* [entries, cursor, draft]
          completer,  \* [active, before, after, candidates, index, kind]
          draftOf,    \* the text on the line when browsing began, or Nil
          lastEvent,  \* the event handled last, until the next key is pressed
          submitted   \* the text submitted by it, or Nil

inputVars == <<tty, pressed, handled, line, history, completer, draftOf, lastEvent, submitted>>

(***************************************************************************)
(* The terminal reader                                                     *)
(***************************************************************************)
KeyBytes ==
    [a |-> <<"a">>, wide |-> <<"L", "c">>, space |-> <<" ">>, slash |-> <<"/">>,
     enter |-> <<"CR">>, backspace |-> <<"DEL">>, tab |-> <<"HT">>,
     ctrl_a |-> <<"^a">>, ctrl_e |-> <<"^e">>, ctrl_u |-> <<"^u">>, ctrl_k |-> <<"^k">>,
     ctrl_w |-> <<"^w">>, ctrl_c |-> <<"^c">>, escape |-> <<"ESC">>,
     backtab |-> <<"ESC", "[", "Z">>, left |-> <<"ESC", "[", "D">>, right |-> <<"ESC", "O", "C">>,
     up |-> <<"ESC", "[", "A">>, down |-> <<"ESC", "[", "1", ";", "5", "B">>,
     delete |-> <<"ESC", "[", "3", "~">>, home |-> <<"ESC", "[", "7", "~">>,
     end |-> <<"ESC", "O", "F">>, page_up |-> <<"ESC", "[", "5", "~">>]

Event(kind) == [kind |-> kind, char |-> <<>>]
CharEvent(bytes) == [kind |-> "char", char |-> bytes]
Unknown == Event("unknown")

ArrowOrEnd(byte) ==
    CASE byte = "A" -> Event("up") [] byte = "B" -> Event("down") [] byte = "C" -> Event("right")
      [] byte = "D" -> Event("left") [] byte = "H" -> Event("home") [] byte = "F" -> Event("end")
      [] OTHER -> Unknown

Numbered ==
    [n \in {"1", "3", "4", "5", "6", "7", "8"} |->
        CASE n \in {"1", "7"} -> Event("home") [] n = "3" -> Event("delete")
          [] n \in {"4", "8"} -> Event("end") [] n = "5" -> Event("page_up")
          [] n = "6" -> Event("page_down")]

Digits == {"0", "1", "2", "3", "4", "5", "6", "7", "8", "9"}

\* ESC [ number ... final: the first byte that is neither a digit nor ";".
ParseCsiNumbered(buf) ==
    LET final == SelectInSubSeq(buf, 3, Len(buf), LAMBDA b : b \notin Digits \cup {";"})
    IN  IF final = 0 THEN Unknown
        ELSE IF buf[final] # "~" THEN ArrowOrEnd(buf[final])
        ELSE IF buf[4] \notin Digits /\ buf[3] \in DOMAIN Numbered THEN Numbered[buf[3]] ELSE Unknown

ParseCsiSequence(buf) ==
    IF Len(buf) < 3 THEN Unknown
    ELSE IF buf[3] = "Z" THEN Event("backtab")
    ELSE IF buf[3] \in Digits \ {"0"} THEN ParseCsiNumbered(buf)
    ELSE ArrowOrEnd(buf[3])

ParseSs3Sequence(buf) == IF Len(buf) < 3 THEN Unknown ELSE ArrowOrEnd(buf[3])

ParseEscapeSequence(buf) ==
    IF Len(buf) = 1 THEN Event("escape")
    ELSE IF buf[2] = "[" THEN ParseCsiSequence(buf)
    ELSE IF buf[2] = "O" THEN ParseSs3Sequence(buf)
    ELSE Unknown

ParseUtf8(buf) ==
    IF buf[1] = "L" /\ Len(buf) >= 2 /\ buf[2] = "c" THEN CharEvent(<<"L", "c">>) ELSE Unknown

ParseKeyEvent(buf) ==
    CASE buf[1] = "^a" -> Event("ctrl_a") [] buf[1] = "^e" -> Event("ctrl_e")
      [] buf[1] = "^u" -> Event("ctrl_u") [] buf[1] = "^k" -> Event("ctrl_k")
      [] buf[1] = "^w" -> Event("ctrl_w") [] buf[1] = "^c" -> Event("ctrl_c")
      [] buf[1] = "DEL" -> Event("backspace") [] buf[1] = "HT" -> Event("tab")
      [] buf[1] = "CR" -> Event("enter") [] buf[1] = "ESC" -> ParseEscapeSequence(buf)
      [] buf[1] \in {"L", "c"} -> ParseUtf8(buf)
      [] OTHER -> CharEvent(<<buf[1]>>)

(***************************************************************************)
(* The input line.  Cursors count from 0.                                  *)
(***************************************************************************)
EmptyLine == [buf |-> <<>>, char |-> 0, byte |-> 0, scroll |-> 0]

IsContinuation(b) == b = "c"
CharCount(buf) == Cardinality({i \in 1..Len(buf) : ~IsContinuation(buf[i])})

PrevCharBoundary(buf, pos) ==
    CHOOSE i \in 0..pos :
        /\ i < pos \/ pos = 0
        /\ i = 0 \/ ~IsContinuation(buf[i + 1])
        /\ \A j \in (i + 1)..(pos - 1) : IsContinuation(buf[j + 1])

NextCharBoundary(buf, pos) ==
    CHOOSE i \in (pos + 1)..Len(buf) :
        /\ i = Len(buf) \/ ~IsContinuation(buf[i + 1])
        /\ \A j \in (pos + 1)..(i - 1) : IsContinuation(buf[j + 1])

Drain(buf, from, to) == SubSeq(buf, 1, from) \o SubSeq(buf, to + 1, Len(buf))

InsertChar(l, ch) ==
    [l EXCEPT !.buf = SubSeq(l.buf, 1, l.byte) \o ch \o SubSeq(l.buf, l.byte + 1, Len(l.buf)),
              !.byte = @ + Len(ch), !.char = @ + 1]

FaultBackspace(l) ==
    IF l.char = 0 THEN l
    ELSE [l EXCEPT !.buf = Drain(l.buf, l.byte - 1, l.byte), !.byte = @ - 1, !.char = @ - 1]

Backspace(l) ==
    LET prev == PrevCharBoundary(l.buf, l.byte)
    IN  IF l.char = 0 THEN l
        ELSE [l EXCEPT !.buf = Drain(l.buf, prev, l.byte), !.byte = prev, !.char = @ - 1]

Delete(l) ==
    IF l.byte >= Len(l.buf) THEN l
    ELSE [l EXCEPT !.buf = Drain(l.buf, l.byte, NextCharBoundary(l.buf, l.byte))]

MoveLeft(l) ==
    IF l.char = 0 THEN l
    ELSE [l EXCEPT !.byte = PrevCharBoundary(l.buf, l.byte), !.char = @ - 1]

MoveRight(l) ==
    IF l.byte >= Len(l.buf) THEN l
    ELSE [l EXCEPT !.byte = NextCharBoundary(l.buf, l.byte), !.char = @ + 1]

MoveHome(l) == [l EXCEPT !.byte = 0, !.char = 0]
MoveEnd(l) == [l EXCEPT !.byte = Len(l.buf), !.char = CharCount(l.buf)]
KillToEnd(l) == [l EXCEPT !.buf = SubSeq(l.buf, 1, l.byte)]

RECURSIVE SkipBack(_, _)
SkipBack(l, blank) ==
    IF l.char = 0 \/ (l.buf[PrevCharBoundary(l.buf, l.byte) + 1] = " ") # blank THEN l
    ELSE SkipBack([l EXCEPT !.byte = PrevCharBoundary(l.buf, l.byte), !.char = @ - 1], blank)

DeleteWordBackward(l) ==
    LET start == SkipBack(SkipBack(l, TRUE), FALSE)
    IN  [start EXCEPT !.buf = Drain(l.buf, start.byte, l.byte)]

SetContent(l, text) ==
    [buf |-> text, char |-> CharCount(text), byte |-> Len(text), scroll |-> 0]

\* Scrolls so that the cursor is among the visible columns.
UpdateScroll(l, width) ==
    [l EXCEPT !.scroll = IF width = 0 THEN 0
                         ELSE IF l.char < @ THEN l.char
                         ELSE IF l.char >= @ + width THEN l.char - width + 1
                         ELSE @]

(***************************************************************************)
(* History.  The cursor is Len(entries) when not browsing.                 *)
(***************************************************************************)
ResetNavigation(h) == [h EXCEPT !.cursor = Len(h.entries), !.draft = <<>>]

IsBlank(text) == \A i \in 1..Len(text) : text[i] = " "

Push(h, text) ==
    LET more == Append(h.entries, text)
    IN  IF IsBlank(text) THEN h
        ELSE IF h.entries # <<>> /\ Last(h.entries) = text THEN ResetNavigation(h)
        ELSE ResetNavigation([h EXCEPT !.entries = IF Len(more) > HistorySize THEN Tail(more) ELSE more])

FaultNavigateUp(h, text) ==
    IF h.entries = <<>> \/ h.cursor = 0 THEN [h |-> h, entry |-> Nil]
    ELSE [h |-> [h EXCEPT !.draft = text, !.cursor = @ - 1], entry |-> h.entries[h.cursor]]

\* The new history and the text to show, or Nil.
NavigateUp(h, text) ==
    LET kept == IF h.cursor = Len(h.entries) THEN [h EXCEPT !.draft = text] ELSE h
    IN  IF h.entries = <<>> THEN [h |-> h, entry |-> Nil]
        ELSE IF h.cursor = 0 THEN [h |-> kept, entry |-> Nil]
        ELSE [h |-> [kept EXCEPT !.cursor = @ - 1], entry |-> h.entries[h.cursor]]

NavigateDown(h) ==
    IF h.cursor >= Len(h.entries) THEN [h |-> h, entry |-> Nil]
    ELSE [h |-> [h EXCEPT !.cursor = @ + 1],
          entry |-> IF h.cursor + 1 = Len(h.entries) THEN h.draft ELSE h.entries[h.cursor + 2]]

(***************************************************************************)
(* Tab completion.  Positions in a line are byte positions here: the word  *)
(* being completed starts and ends on character boundaries.                *)
(***************************************************************************)
NoCompletion == [active |-> FALSE, before |-> <<>>, after |-> <<>>, candidates |-> <<>>, index |-> 1,
                 kind |-> "nick"]

TrimStart(text) ==
    LET at == SelectInSeq(text, LAMBDA b : b # " ")
    IN  IF at = 0 THEN <<>> ELSE SubSeq(text, at, Len(text))

WordOf(text) ==
    LET at == SelectInSeq(text, LAMBDA b : b = " ")
    IN  IF at = 0 THEN text ELSE SubSeq(text, 1, at - 1)

\* Channels complete a "#" word and the first argument of some commands.
DetermineCompletionKind(before, word) ==
    LET trimmed == TrimStart(before)
        rest == Tail(trimmed)
        command == WordOf(TrimStart(rest))
        argument == SubSeq(rest, Len(command) + 1, Len(rest))
    IN  IF word # <<>> /\ word[1] = "/" /\ before = <<>> THEN "command"
        ELSE IF word # <<>> /\ word[1] = "#" THEN "channel"
        ELSE IF /\ trimmed # <<>> /\ trimmed[1] = "/"
                /\ IsBlank(argument)
                /\ command \in ChannelArgCommands
        THEN "channel" ELSE "nick"

CandidatesFor(kind, word) ==
    CASE kind = "command" ->
           LET named == SelectSeq(CommandNames, LAMBDA c : IsPrefix(Tail(word), c))
           IN  IF Tail(word) = <<>> THEN <<>>
               ELSE [i \in 1..Len(named) |-> <<"/">> \o named[i]]
      [] kind = "channel" ->
           SelectSeq(Channels, LAMBDA c : IsPrefix(word, IF word # <<>> /\ word[1] = "#" THEN c ELSE Tail(c)))
      [] kind = "nick" -> SelectSeq(Nicks, LAMBDA n : IsPrefix(word, n))

CompletionSuffix(t) == IF t.kind = "nick" /\ t.before = <<>> THEN <<":", " ">> ELSE <<" ">>

\* The completed line and the cursor after the candidate.
BuildResult(t) ==
    LET head == t.before \o t.candidates[t.index] \o CompletionSuffix(t)
    IN  [text |-> head \o t.after, cursor |-> CharCount(head)]

StartCompletion(l) ==
    LET blank == SelectLastInSeq(SubSeq(l.buf, 1, l.byte), LAMBDA b : b = " ")
        word == SubSeq(l.buf, blank + 1, l.byte)
        before == SubSeq(l.buf, 1, blank)
        kind == DetermineCompletionKind(before, word)
    IN  IF word = <<>> \/ CandidatesFor(kind, word) = <<>> THEN NoCompletion
        ELSE [active |-> TRUE, before |-> before, after |-> SubSeq(l.buf, l.byte + 1, Len(l.buf)),
              candidates |-> CandidatesFor(kind, word), index |-> 1, kind |-> kind]

CycleForward(t) == [t EXCEPT !.index = (@ % Len(t.candidates)) + 1]

Complete(t, l) == IF t.active THEN CycleForward(t) ELSE StartCompletion(l)

CompleteBackward(t) ==
    IF ~t.active THEN t ELSE [t EXCEPT !.index = IF @ = 1 THEN Len(t.candidates) ELSE @ - 1]

\* Shows the completion and walks the cursor right from the line's start.
RECURSIVE StepRight(_, _)
StepRight(l, n) == IF n = 0 THEN l ELSE StepRight(MoveRight(l), n - 1)

ShowCompletion(t, l) ==
    IF ~t.active THEN l
    ELSE StepRight(MoveHome(SetContent(l, BuildResult(t).text)), BuildResult(t).cursor)

(***************************************************************************)
(* The input handler                                                       *)
(***************************************************************************)
FaultResets(kind) == kind \notin {"tab", "backtab", "page_up", "page_down", "ctrl_k"}

\* The keys that end a completion session.
Resets(kind) == kind \notin {"tab", "backtab", "page_up", "page_down"}

EditLine(event, l) ==
    CASE event.kind = "char" -> InsertChar(l, event.char)
      [] event.kind = "backspace" -> Backspace(l)
      [] event.kind = "delete" -> Delete(l)
      [] event.kind = "left" -> MoveLeft(l)
      [] event.kind = "right" -> MoveRight(l)
      [] event.kind \in {"home", "ctrl_a"} -> MoveHome(l)
      [] event.kind \in {"end", "ctrl_e"} -> MoveEnd(l)
      [] event.kind = "ctrl_u" -> EmptyLine
      [] event.kind = "ctrl_k" -> KillToEnd(l)
      [] event.kind = "ctrl_w" -> DeleteWordBackward(l)
      [] OTHER -> l

\* Each branch gives the line, the history, the completer and what is sent.
Handled(l, h, t, text) == [line |-> l, history |-> h, completer |-> t, sent |-> text]

Submit(l, h, t) ==
    IF IsBlank(l.buf) THEN Handled(l, h, t, Nil)
    ELSE Handled(EmptyLine, ResetNavigation(Push(h, l.buf)), t, l.buf)

Show(l, t, move) ==
    Handled(IF move.entry = Nil THEN l ELSE SetContent(l, move.entry), move.h, t, Nil)

HandleKey(event, l, h, completing) ==
    LET t == IF Resets(event.kind) THEN NoCompletion ELSE completing
    IN  CASE event.kind = "enter" -> Submit(l, h, t)
          [] event.kind = "up" -> Show(l, t, NavigateUp(h, l.buf))
          [] event.kind = "down" -> Show(l, t, NavigateDown(h))
          [] event.kind = "tab" -> Handled(ShowCompletion(Complete(t, l), l), h, Complete(t, l), Nil)
          [] event.kind = "backtab" ->
               Handled(ShowCompletion(CompleteBackward(t), l), h, CompleteBackward(t), Nil)
          [] event.kind = "ctrl_c" -> Handled(EmptyLine, IF l.buf = <<>> THEN h ELSE ResetNavigation(h), t, Nil)
          [] OTHER -> Handled(EditLine(event, l), h, t, Nil)

\* Lines and histories that typing leaves behind.
InputInit ==
    /\ \E text \in {<<>>, <<"L", "c", " ", "a">>, <<"/", "a", " ">>} : line = SetContent(EmptyLine, text)
    /\ \E entries \in {<<>>, <<<<"a">>, <<"L", "c">>>>} :
         history = [entries |-> entries, cursor |-> Len(entries), draft |-> <<>>]
    /\ tty = <<>> /\ pressed = 0 /\ handled = 0
    /\ completer = NoCompletion
    /\ draftOf = Nil /\ lastEvent = Nil /\ submitted = Nil

Press(key) ==
    /\ pressed < MaxKeys
    /\ Len(tty) <= MaxPending
    /\ tty' = tty \o KeyBytes[key]
    /\ pressed' = pressed + 1
    /\ lastEvent' = Nil /\ submitted' = Nil
    /\ UNCHANGED <<handled, line, history, completer, draftOf>>

\* One turn of the event loop: a read, one event, the rest of what was read
\* cleared, and the line drawn.
PollEvent ==
    /\ tty # <<>>
    /\ LET n == IF Len(tty) < ReadSize THEN Len(tty) ELSE ReadSize
           event == ParseKeyEvent(SubSeq(tty, 1, n))
           result == HandleKey(event, line, history, completer)
       IN  /\ tty' = SubSeq(tty, n + 1, Len(tty))
           /\ lastEvent' = event
           /\ line' = UpdateScroll(result.line, Width)
           /\ history' = result.history
           /\ completer' = result.completer
           /\ submitted' = result.sent
           /\ draftOf' = IF result.history.cursor = Len(result.history.entries) THEN Nil
                         ELSE IF draftOf = Nil THEN line.buf ELSE draftOf
    /\ handled' = handled + 1
    /\ UNCHANGED pressed

InputNext == PollEvent \/ \E key \in DOMAIN KeyBytes : Press(key)

(***************************************************************************)
(* Properties                                                              *)
(***************************************************************************)
CharsOf(bytes) ==
    FoldLeft(LAMBDA chars, b : IF IsContinuation(b) THEN Front(chars) \o <<Append(Last(chars), b)>>
                               ELSE Append(chars, <<b>>),
             <<>>, bytes)
LeftOf(l) == CharsOf(SubSeq(l.buf, 1, l.byte))
RightOf(l) == CharsOf(SubSeq(l.buf, l.byte + 1, Len(l.buf)))

\* The left part without its last word and the blanks after that.
WithoutLastWord(chars) ==
    LET word == SelectLastInSeq(chars, LAMBDA ch : ch # <<" ">>)
    IN  SubSeq(chars, 1, SelectLastInSeq(SubSeq(chars, 1, word), LAMBDA ch : ch = <<" ">>))

\* What each editing key does to the characters left and right of the cursor.
Edited(event, left, right) ==
    CASE event.kind = "char" -> <<Append(left, event.char), right>>
      [] event.kind = "backspace" -> <<IF left = <<>> THEN left ELSE Front(left), right>>
      [] event.kind = "delete" -> <<left, IF right = <<>> THEN right ELSE Tail(right)>>
      [] event.kind = "left" /\ left # <<>> -> <<Front(left), <<Last(left)>> \o right>>
      [] event.kind = "right" /\ right # <<>> -> <<Append(left, Head(right)), Tail(right)>>
      [] event.kind \in {"home", "ctrl_a"} -> <<<<>>, left \o right>>
      [] event.kind \in {"end", "ctrl_e"} -> <<left \o right, <<>>>>
      [] event.kind \in {"ctrl_u", "ctrl_c"} -> <<<<>>, <<>>>>
      [] event.kind = "ctrl_k" -> <<left, <<>>>>
      [] event.kind = "ctrl_w" -> <<WithoutLastWord(left), right>>
      [] OTHER -> <<left, right>>

\* Every editing key changes the line as an editor of whole characters would,
\* and the two cursors name the same visible place: no key splits a
\* character of several bytes.
EditsExact ==
    (handled' # handled /\ lastEvent'.kind \notin {"enter", "up", "down", "tab", "backtab"}) =>
      /\ <<LeftOf(line'), RightOf(line')>> = Edited(lastEvent', LeftOf(line), RightOf(line))
      /\ line'.char = Len(LeftOf(line'))
      /\ line'.scroll <= line'.char /\ line'.char < line'.scroll + Width

\* While the user browses the history the draft is the text that stood on the
\* line when browsing began, so coming back down to the bottom restores it.
DraftKept == draftOf # Nil => history.draft = draftOf

\* While a completion session is open the line is exactly the text the
\* session started from with one candidate in place: every other key that
\* changes the line has closed the session.
CompletionExact ==
    completer.active => /\ line.buf = BuildResult(completer).text
                        /\ line.char = BuildResult(completer).cursor

\* Once everything typed has been read, every key pressed was handled.
EveryKeyRead == tty = <<>> => handled = pressed

InputTypeOK ==
    /\ line.byte \in 0..Len(line.buf)
    /\ Len(history.entries) <= HistorySize /\ history.cursor \in 0..Len(history.entries)
    /\ completer.active => completer.index \in 1..Len(completer.candidates)
=============================================================================
