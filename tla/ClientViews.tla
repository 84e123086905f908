---------------------------- MODULE ClientViews ----------------------------
(* What the terminal client shows.  Three machines share this module and no  *)
(* state: the windows (one message buffer per channel and private            *)
(* conversation, the active one, the scrollback search over it, and the      *)
(* routing of server messages to them), the double-buffered screen that      *)
(* writes only the cells that changed, and the panels of one frame, which    *)
(* are pure functions evaluated over every input of a small set.             *)
EXTENDS Naturals, Sequences, FiniteSets, SequencesExt

CONSTANTS
    Channel,        \* names of channels
    Query,          \* nicks that may open a private conversation
    Scrollback,     \* lines a window keeps
    PageLines,      \* lines one page key scrolls
    MaxLines,       \* bound on the lines received
    MaxQuery,       \* bound on the length of a search query
    Columns,        \* width of the screen
    MinWidth, MinHeight,  \* smallest terminal with a layout
    TimestampWidth, NickWidth

VARIABLES
    bufs,           \* the windows in the order of their tabs
    active,         \* index of the window shown
    search,         \* the scrollback search
    received        \* lines received so far; a line is its number
viewVars == <<bufs, active, search, received>>

VARIABLES
    front, back,    \* what the renderer believes is shown, and wants shown
    terminal,       \* the terminal: its cells, cursor column and pen
    forced          \* force_redraw has been called since the last resize
screenVars == <<front, back, terminal, forced>>

VARIABLE panel      \* the panel rendered and its inputs
-----------------------------------------------------------------------------
(* One window: message_buffer.rs *)

Status == "status"

NewBuffer(id) == [id |-> id, lines |-> <<>>, scroll |-> 0, unread |-> 0, activity |-> FALSE]

MarkRead(b) == [b EXCEPT !.unread = 0, !.activity = FALSE]

Sub(a, b) == IF a > b THEN a - b ELSE 0
Least(a, b) == IF a < b THEN a ELSE b

PushLine(b, line) ==
    LET full == Len(b.lines) >= Scrollback
    IN [b EXCEPT !.lines  = Append(IF full THEN Tail(@) ELSE @, line),
                 !.scroll = IF full THEN Sub(@, 1) ELSE @,
                 !.unread = @ + 1,
                 !.activity = TRUE]

MessagesInView(b, visible) ==
    LET end == Sub(Len(b.lines), b.scroll)
    IN SubSeq(b.lines, Sub(end, visible) + 1, end)

ScrollUp(b, n)   == [b EXCEPT !.scroll = Least(@ + n, Sub(Len(b.lines), 1))]
ScrollDown(b, n) == [b EXCEPT !.scroll = Sub(@, n)]
-----------------------------------------------------------------------------
(* All windows: buffer_manager.rs.  The operators take and return the pair   *)
(* of the list of windows and the active index.                              *)

NewManager == [list |-> <<NewBuffer(Status)>>, at |-> 1]
Manager    == [list |-> bufs, at |-> active]
Ids        == [i \in 1..Len(bufs) |-> bufs[i].id]
ActiveId   == bufs[active].id

FindIndex(w, id) == SelectInSeq(w.list, LAMBDA b : b.id = id)

ShowIndex(w, i) == [list |-> [w.list EXCEPT ![i] = MarkRead(@)], at |-> i]

EnsureOpen(w, id) ==
    IF FindIndex(w, id) # 0 THEN w ELSE [w EXCEPT !.list = Append(@, NewBuffer(id))]

Open(w, id) ==
    LET opened == EnsureOpen(w, id)
    IN ShowIndex([opened EXCEPT !.list[w.at] = MarkRead(@)], FindIndex(opened, id))

FaultClose(w, id) ==
    LET i == FindIndex(w, id)
        list == RemoveAt(w.list, i)
    IN [list |-> list, at |-> IF w.at = i THEN Least(i, Len(list))
                              ELSE IF w.at > i THEN w.at - 1 ELSE w.at]
Close(w, id) ==
    LET i == FindIndex(w, id)
        list == RemoveAt(w.list, i)
    IN IF w.at = i
       THEN ShowIndex([list |-> list, at |-> i], Least(i, Len(list)))
       ELSE [list |-> list, at |-> IF w.at > i THEN w.at - 1 ELSE w.at]

SwitchTo(w, id) == IF FindIndex(w, id) = 0 THEN w ELSE ShowIndex(w, FindIndex(w, id))
SwitchNext(w)   == ShowIndex(w, (w.at % Len(w.list)) + 1)
SwitchPrev(w)   == ShowIndex(w, IF w.at = 1 THEN Len(w.list) ELSE w.at - 1)
SwitchByIndex(w, i) == IF i > Len(w.list) THEN w ELSE ShowIndex(w, i)

FaultReorder(w, from, to) ==
    [list |-> InsertAt(RemoveAt(w.list, from), to, w.list[from]),
     at   |-> IF w.at = from THEN to
              ELSE IF from < to /\ w.at > from /\ w.at < to THEN w.at - 1
              ELSE IF to < from /\ w.at >= to /\ w.at < from THEN w.at + 1
              ELSE w.at]
Reorder(w, from, to) ==
    [list |-> InsertAt(RemoveAt(w.list, from), to, w.list[from]),
     at   |-> IF w.at = from THEN to
              ELSE IF from < to /\ w.at > from /\ w.at <= to THEN w.at - 1
              ELSE IF to < from /\ w.at >= to /\ w.at < from THEN w.at + 1
              ELSE w.at]

PushTo(w, id, line) ==
    LET found  == FindIndex(w, id)
        opened == IF id \in Query THEN EnsureOpen(w, id) ELSE w
        i      == FindIndex(opened, id)
    IN IF i = 0 THEN w
       ELSE [opened EXCEPT !.list[i] =
                IF found = w.at THEN MarkRead(PushLine(@, line)) ELSE PushLine(@, line)]
-----------------------------------------------------------------------------
(* Server messages and the windows they go to: message_handler/mod.rs.  A    *)
(* route is a sequence of steps the application carries out in order.        *)

OpenChannel(c)     == [step |-> "open", id |-> c]
SwitchToChannel(c) == [step |-> "switch", id |-> c]
PushStep(id)       == [step |-> "push", id |-> id]

RoutePrivmsg(m) ==
    IF m.target \in Channel THEN <<OpenChannel(m.target), PushStep(m.target)>>
    ELSE <<PushStep(m.target)>>

RouteNotice(m) ==
    IF m.target \in Channel THEN <<OpenChannel(m.target), PushStep(m.target)>>
    ELSE <<PushStep(Status)>>

RouteJoin(m) ==
    <<OpenChannel(m.target)>>
      \o (IF m.ours THEN <<SwitchToChannel(m.target)>> ELSE <<>>)
      \o <<PushStep(m.target)>>

RoutePart(m)  == <<PushStep(m.target)>>
RouteQuit(m)  == <<PushStep(Status)>>
RouteKick(m)  == <<PushStep(m.target)>>
RouteNick(m)  == <<PushStep(Status)>>
RouteTopic(m) == <<PushStep(m.target)>>
RouteError(m) == <<PushStep(Status)>>

\* 331, 332, 353 and 404 go to the channel's window, 366 nowhere, the others to Status
RouteNumeric(m) ==
    CASE m.command = "names" -> <<PushStep(m.target)>>
      [] m.command = "endofnames" -> <<>>
      [] OTHER -> <<PushStep(Status)>>

\* the target of a private message is the sender's conversation
Messages ==
    [command : {"privmsg", "notice"}, target : Channel \cup Query, ours : {FALSE}]
      \cup [command : {"join"}, target : Channel, ours : BOOLEAN]
      \cup [command : {"part", "kick", "topic", "names"}, target : Channel, ours : {FALSE}]
      \cup [command : {"quit", "nick", "error", "endofnames", "numeric"}, target : {Status}, ours : {FALSE}]

RouteMessage(m) ==
    CASE m.command = "privmsg" -> RoutePrivmsg(m)
      [] m.command = "notice" -> RouteNotice(m)
      [] m.command = "join" -> RouteJoin(m)
      [] m.command = "part" -> RoutePart(m)
      [] m.command = "quit" -> RouteQuit(m)
      [] m.command = "kick" -> RouteKick(m)
      [] m.command = "nick" -> RouteNick(m)
      [] m.command = "topic" -> RouteTopic(m)
      [] m.command = "error" -> RouteError(m)
      [] OTHER -> RouteNumeric(m)

TakeStep(w, s) ==
    CASE s.step = "open" -> EnsureOpen(w, s.id)
      [] s.step = "switch" -> SwitchTo(w, s.id)
      [] s.step = "push" -> PushTo(w, s.id, received + 1)

Windows(w) == bufs' = w.list /\ active' = w.at

Receive(m) ==
    /\ received < MaxLines
    /\ Windows(FoldLeft(TakeStep, Manager, RouteMessage(m)))
    /\ received' = received + 1
    /\ UNCHANGED search
-----------------------------------------------------------------------------
(* The search over the active window: scrollback_search.rs.  A query is its  *)
(* length; the longer it is, the fewer lines contain it.                     *)

IdleSearch == [on |-> FALSE, query |-> 0, matches |-> <<>>, current |-> 0]

LineHas(line, query) == query <= line % 3

Activate == [IdleSearch EXCEPT !.on = TRUE]

UpdateQuery(query) ==
    LET lines == bufs[active].lines
        hits  == IF query = 0 THEN {} ELSE {i \in 1..Len(lines) : LineHas(lines[i], query)}
    IN [on |-> TRUE, query |-> query, matches |-> SetToSortSeq(hits, <),
        current |-> IF hits = {} THEN 0 ELSE 1]

NextMatch(s) ==
    IF s.matches = <<>> THEN s ELSE [s EXCEPT !.current = (@ % Len(s.matches)) + 1]
PrevMatch(s) ==
    IF s.matches = <<>> THEN s ELSE [s EXCEPT !.current = IF @ = 1 THEN Len(s.matches) ELSE @ - 1]

SearchKey ==
    /\ search.on
    /\ search' \in {IdleSearch, NextMatch(search), PrevMatch(search), UpdateQuery(Sub(search.query, 1))}
                     \cup {UpdateQuery(q) : q \in {search.query + 1} \cap 0..MaxQuery}
    /\ UNCHANGED <<bufs, active, received>>

StartSearch ==
    /\ ~search.on
    /\ search' = Activate
    /\ UNCHANGED <<bufs, active, received>>

PageKey ==
    /\ ~search.on
    /\ bufs' \in {[bufs EXCEPT ![active] = ScrollUp(@, PageLines)],
                  [bufs EXCEPT ![active] = ScrollDown(@, PageLines)]}
    /\ UNCHANGED <<active, search, received>>

\* view_coordinator.rs leaves the search when it changes the window
SwitchWindow ==
    /\ \/ Windows(SwitchNext(Manager))
       \/ Windows(SwitchPrev(Manager))
       \/ \E i \in 1..Len(bufs) : Windows(SwitchByIndex(Manager, i))
    /\ search' = IdleSearch
    /\ UNCHANGED received

\* the manager's own operations leave the search alone
ArrangeWindows ==
    /\ \/ \E id \in Channel \cup Query : Windows(Open(Manager, id))
       \/ \E i \in 2..Len(bufs) : Windows(Close(Manager, bufs[i].id))
       \/ \E from, to \in 2..Len(bufs) : from # to /\ Windows(Reorder(Manager, from, to))
    /\ UNCHANGED <<search, received>>

ViewInit ==
    /\ bufs = NewManager.list /\ active = NewManager.at
    /\ search = IdleSearch
    /\ received = 0

ViewNext ==
    \/ \E m \in Messages : Receive(m)
    \/ SearchKey
    \/ StartSearch
    \/ PageKey
    \/ SwitchWindow
    \/ ArrangeWindows

(* However server messages, keys and window operations interleave: the       *)
(* status window stays first, no window is open twice, the window being      *)
(* shown never counts unread lines, a tab is marked active exactly when it   *)
(* has unread lines, a window is never scrolled past its oldest line, and    *)
(* the search's current match is one of its matches.                         *)
WindowsExact ==
    /\ bufs[1].id = Status
    /\ active \in 1..Len(bufs)
    /\ \A i, j \in 1..Len(bufs) : bufs[i].id = bufs[j].id => i = j
    /\ bufs[active].unread = 0
    /\ \A i \in 1..Len(bufs) :
          LET b == bufs[i]
          IN /\ b.activity = (b.unread > 0)
             /\ Len(b.lines) <= Scrollback
             /\ b.scroll <= Sub(Len(b.lines), 1)
             /\ b.lines # <<>> => MessagesInView(b, 1) # <<>>
    /\ search.current = 0 <=> search.matches = <<>>
    /\ search.current <= Len(search.matches)

(* Moving, opening or closing another window never changes which window is   *)
(* shown: the active index follows the window across every reordering.       *)
ActiveFollows ==
    (Ids' # Ids /\ Range(Ids') \subseteq Range(Ids) /\ ActiveId \in Range(Ids'))
      => ActiveId' = ActiveId

(* A chat line is never dropped: after a PRIVMSG the newest line of its      *)
(* channel's or sender's window is that line, opened or not before.          *)
ChatLands ==
    \A m \in Messages :
       (m.command = "privmsg" /\ received' = received + 1 /\ Receive(m))
         => \E i \in 1..Len(bufs') : bufs'[i].id = m.target /\ Last(bufs'[i].lines) = received'

(* push_message: "If the user is scrolled up, the scroll offset is adjusted  *)
(* to keep the same messages in view after eviction": when a line arrives in *)
(* the full window being shown, the newest visible line stays the same one,  *)
(* unless it is the line evicted.                                            *)
ViewStays ==
    [][LET b == bufs[active]
       IN (/\ received' = received + 1 /\ active' = active
           /\ Len(b.lines) = Scrollback /\ b.lines # bufs'[active].lines
           /\ b.scroll > 0 /\ b.scroll < Scrollback - 1)
            => Last(MessagesInView(bufs'[active], 1)) = Last(MessagesInView(b, 1))]_viewVars
-----------------------------------------------------------------------------
(* The screen: renderer.rs over one row of buffer.rs.  A cell is a character *)
(* with its style; the terminal has a pen, writes at its cursor, and erases  *)
(* to the end of the line in the pen's style.                                *)

Blank == [ch |-> " ", style |-> "plain"]
Cells == {Blank, [ch |-> " ", style |-> "reverse"], [ch |-> "x", style |-> "plain"]}

EmptyRow == [c \in 1..Columns |-> Blank]

\* the terminal's answers to the escape sequences
PutChar(t, ch) == [t EXCEPT !.cells[t.col] = [ch |-> ch, style |-> t.pen], !.col = @ + 1]
EraseLine(t)   == [t EXCEPT !.cells = [c \in 1..Columns |->
                                         IF c < t.col THEN @[c] ELSE [ch |-> " ", style |-> t.pen]]]

EmitStyle(t, style) == [t EXCEPT !.pen = style]

RestOfRowIsDefault(row, col) == col <= Columns /\ \A c \in col..Columns : row[c] = Blank

\* the cells from col that form one run of changes
RunEnd(col) ==
    CHOOSE e \in col..Columns :
        /\ \A c \in col..e : front[c] # back[c]
        /\ e = Columns \/ front[e + 1] = back[e + 1]

WriteRun(t, from, to) ==
    FoldLeft(LAMBDA u, c : PutChar(EmitStyle(u, back[c].style), back[c].ch),
             [t EXCEPT !.col = from], [k \in 1..(to - from + 1) |-> from + k - 1])

ClearRest(t, col) ==
    IF RestOfRowIsDefault(back, col) THEN EraseLine(EmitStyle(t, "plain")) ELSE t

RECURSIVE FlushFrom(_, _)
FlushFrom(t, col) ==
    IF col > Columns THEN EmitStyle(t, "plain")
    ELSE IF back[col] = front[col] THEN FlushFrom(t, col + 1)
    ELSE FlushFrom(ClearRest(WriteRun(t, col, RunEnd(col)), RunEnd(col) + 1), RunEnd(col) + 1)

Draw ==
    \E c \in 1..Columns, cell \in Cells :
        back' = [back EXCEPT ![c] = cell] /\ UNCHANGED <<front, terminal, forced>>

Flush ==
    /\ terminal' = FlushFrom(terminal, 1)
    /\ front' = back
    /\ UNCHANGED <<back, forced>>

ForceRedraw ==
    /\ front' = EmptyRow
    /\ forced' = TRUE
    /\ UNCHANGED <<back, terminal>>

Resize ==
    /\ front' = EmptyRow /\ back' = EmptyRow
    /\ terminal' = [terminal EXCEPT !.cells = EmptyRow, !.col = 1]
    /\ forced' = FALSE

ScreenInit ==
    /\ front = EmptyRow /\ back = EmptyRow
    /\ terminal = [cells |-> EmptyRow, col |-> 1, pen |-> "plain"]
    /\ forced = FALSE

ScreenNext == Draw \/ Flush \/ ForceRedraw \/ Resize

(* Whatever cells change between two frames, the terminal shows the          *)
(* renderer's front buffer and the pen is left plain, although only runs of  *)
(* changed cells are written and blank ends of rows are erased.  After       *)
(* force_redraw this is promised only for the cells that are not blank: the  *)
(* front buffer is reset to blanks, so blank cells still compare equal.      *)
ScreenShown ==
    /\ terminal.pen = "plain"
    /\ \A c \in 1..Columns : terminal.cells[c] = front[c] \/ (forced /\ front[c] = Blank)
-----------------------------------------------------------------------------
(* The panels of one frame.  A text is its length in cells.                  *)

Separator == 3   \* " | "
Overflow  == 2   \* "< " and " >"

SumOf(s, from, to) == FoldLeft(+, 0, SubSeq(s, from, to))

\* "[E2E]" or "[...]" before the label and " [n]" after it
DisplayText(tab) == (IF tab.session = "none" THEN 0 ELSE 5) + tab.label + (IF tab.unread > 0 THEN 4 ELSE 0)

TotalTabsWidth(w) == SumOf(w, 1, Len(w)) + Separator * (Len(w) - 1)

WidthOfRange(w, from, to) ==
    SumOf(w, from, to) + Separator * (to - from)
      + (IF from > 1 THEN Overflow ELSE 0) + (IF to < Len(w) THEN Overflow ELSE 0)

RECURSIVE Widen(_, _, _, _)
Widen(w, available, from, to) ==
    LET left  == from > 1 /\ WidthOfRange(w, from - 1, to) <= available
        from2 == IF left THEN from - 1 ELSE from
        right == to < Len(w) /\ WidthOfRange(w, from2, to + 1) <= available
        to2   == IF right THEN to + 1 ELSE to
    IN IF left \/ right THEN Widen(w, available, from2, to2) ELSE <<from, to>>

FaultVisibleRange(w, available, at) ==
    IF TotalTabsWidth(w) <= available THEN <<1, Len(w)>> ELSE Widen(w, available, 1, 1)
VisibleRange(w, available, at) ==
    IF TotalTabsWidth(w) <= available THEN <<1, Len(w)>> ELSE Widen(w, available, at, at)

\* regions as sets of cells of a width x height screen
Region(x, y, w, h) == (x..(x + w - 1)) \X (y..(y + h - 1))

LayoutOf(width, height, list) ==
    LET users == Least(list, Sub(width, 2))
        sep   == IF users > 0 THEN width - users - 1 ELSE width
    IN [tabs   |-> Region(0, 0, width, 1),
        chat   |-> Region(0, 1, sep, height - 3),
        users  |-> IF users > 0 THEN Region(sep + 1, 1, users, height - 3) ELSE {},
        status |-> Region(0, height - 2, width, 1),
        input  |-> Region(0, height - 1, width, 1)]

\* the columns the left and the right text of the status bar take
StatusBar(left, right, width) ==
    [left |-> 1..Least(left, width),
     right |-> IF right > 0 /\ left + 1 + right <= width THEN (width - right + 1)..width ELSE {}]

\* " (+topic)" cut with an ellipsis to what is left of the row
BuildLeftText(nick, label, topic, width) ==
    LET used      == nick + 2 + label + 1
        available == Sub(width, used + 4)
    IN used + (IF topic = 0 \/ available = 0 THEN 0
               ELSE 4 + (IF topic > available THEN Sub(available, 3) + 3 ELSE topic))

\* the tail of the query that fits between the fixed parts of the search bar
SearchBarQuery(query, fixed, width) == Least(query, Sub(width, fixed))

\* the prompt, the visible part of the text and the cursor's column
InputLine(prompt, length, cursor, scroll, width) ==
    LET start == Least(prompt, width)
    IN [text   |-> Least(Sub(length, scroll), width - start),
        cursor |-> Least(start + Sub(cursor, scroll), width - 1)]

\* a padded "<nick>" and a space, after the timestamp
PrefixLen(nick) == IF nick > NickWidth THEN nick + 3 ELSE NickWidth + 3

\* the rows one line of the window takes: where its text starts, and which characters
FormatLine(length, nick, width) ==
    LET indent  == TimestampWidth + PrefixLen(nick)
        content == Sub(width, TimestampWidth + NickWidth + 2)
        wrap    == Sub(width, indent)
        first   == IF content = 0 THEN length ELSE Least(length, content)
        more    == IF content = 0 \/ wrap = 0 THEN 0 ELSE (length - first + wrap - 1) \div wrap
    IN <<[at |-> indent, from |-> 1, to |-> first]>>
         \o [k \in 1..more |-> [at |-> indent, from |-> first + (k - 1) * wrap + 1,
                                to |-> Least(length, first + k * wrap)]]

\* the characters of a row that lie inside the region
RenderVisualLine(row, width) == {c \in row.from..row.to : row.at + (c - row.from) < width}

\* the rows drawn, bottom aligned; a scrolled window gives its last row to the indicator
ChatArea(lengths, nick, width, height, scrolled) ==
    LET available == IF scrolled THEN height - 1 ELSE height
        view  == SubSeq(lengths, Sub(Len(lengths), available) + 1, Len(lengths))
        rows  == FlattenSeq([i \in 1..Len(view) |-> FormatLine(view[i], nick, width)])
        skip  == Sub(Len(rows), available)
        start == Sub(available, Len(rows))
    IN [r \in (start + 1)..available |-> rows[r - start + skip]]

\* mIRC colour codes: C n[,n] colour, B and V toggles, R reset
NoColor == 16
PlainStyle == [on |-> {}, fg |-> NoColor, bg |-> NoColor]
Digit == [d \in {"1", "7"} |-> IF d = "1" THEN 1 ELSE 7]
IsDigit(input, i) == i <= Len(input) /\ input[i] \in DOMAIN Digit

\* the number at i and the position after it; NoColor when there is none
ParseColorNumber(input, i) ==
    IF ~IsDigit(input, i) THEN <<NoColor, i>>
    ELSE LET first == Digit[input[i]]
             two   == IF IsDigit(input, i + 1) THEN first * 10 + Digit[input[i + 1]] ELSE NoColor
         IN IF two <= 15 THEN <<two, i + 2>> ELSE <<first, i + 1>>

\* the style after the colour code at i, and the position after the code
ColorCode(input, i, style) ==
    LET fg == ParseColorNumber(input, i + 1)
        bg == ParseColorNumber(input, fg[2] + 1)
    IN IF fg[1] = NoColor THEN <<[style EXCEPT !.fg = NoColor, !.bg = NoColor], i + 1>>
       ELSE IF fg[2] <= Len(input) /\ input[fg[2]] = "," /\ bg[1] # NoColor
            THEN <<[style EXCEPT !.fg = fg[1], !.bg = bg[1]], bg[2]>>
            ELSE <<[style EXCEPT !.fg = fg[1]], fg[2]>>

Toggled(set, t) == IF t \in set THEN set \ {t} ELSE set \cup {t}

\* every character shown: its position in the input and its style
RECURSIVE ParseMirc(_, _, _)
FaultParseMirc(input, i, style) ==
    IF i > Len(input) THEN <<>>
    ELSE CASE input[i] \in {"B", "V"} -> ParseMirc(input, i + 1, [style EXCEPT !.on = Toggled(@, input[i])])
           [] input[i] = "R" -> ParseMirc(input, i + 1, [style EXCEPT !.fg = NoColor, !.bg = NoColor])
           [] input[i] = "C" -> ParseMirc(input, ColorCode(input, i, style)[2], ColorCode(input, i, style)[1])
           [] OTHER -> <<[at |-> i, style |-> style]>> \o ParseMirc(input, i + 1, style)
ParseMirc(input, i, style) ==
    IF i > Len(input) THEN <<>>
    ELSE CASE input[i] \in {"B", "V"} -> ParseMirc(input, i + 1, [style EXCEPT !.on = Toggled(@, input[i])])
           [] input[i] = "R" -> ParseMirc(input, i + 1, PlainStyle)
           [] input[i] = "C" -> ParseMirc(input, ColorCode(input, i, style)[2], ColorCode(input, i, style)[1])
           [] OTHER -> <<[at |-> i, style |-> style]>> \o ParseMirc(input, i + 1, style)

NoPanel == [kind |-> "none"]

\* the inputs tried: bounds are one past the interesting sizes
Panels ==
    [kind : {"tabs"}, tabs : UNION {[1..n -> [label : {2, 5}, unread : {0, 1}, session : {"none", "e2e"}]] : n \in 1..3},
                      at : 1..3, width : {5, 12, 20, 28}]
      \cup [kind : {"layout"}, width : MinWidth..(MinWidth + 2), height : MinHeight..(MinHeight + 2), list : 0..(MinWidth + 2)]
      \cup [kind : {"bars"}, nick : 1..3, topic : 0..6, right : 0..6, query : 0..6, width : 6..16]
      \cup [kind : {"input"}, prompt : 3..5, length : 0..5, cursor : 0..5, scroll : 0..5, width : {4, 6, 8}]
      \cup [kind : {"chat"}, lengths : UNION {[1..n -> 0..5] : n \in 0..3}, nick : 1..3,
            width : 5..10, height : 2..4, scrolled : BOOLEAN]
      \cup [kind : {"mirc"}, text : UNION {[1..n -> {"B", "V", "R", "C", "1", "7", ",", "x"}] : n \in 1..4}]

PanelInit == panel = NoPanel

PickPanel == panel = NoPanel /\ panel' \in Panels

TabsFit(p) ==
    LET w == [i \in 1..Len(p.tabs) |-> DisplayText(p.tabs[i])]
        v == VisibleRange(w, p.width, p.at)
    IN p.at <= Len(w) =>
         /\ v[1] <= p.at /\ p.at <= v[2]
         /\ v[1] = v[2] \/ WidthOfRange(w, v[1], v[2]) <= p.width
         /\ v[1] > 1 => WidthOfRange(w, v[1] - 1, v[2]) > p.width
         /\ v[2] < Len(w) => WidthOfRange(w, v[1], v[2] + 1) > p.width

LayoutTiles(p) ==
    LET l == LayoutOf(p.width, p.height, p.list)
        sep == IF l.users = {} THEN {} ELSE {p.width - Least(p.list, Sub(p.width, 2)) - 1} \X (1..(p.height - 3))
        parts == <<l.tabs, l.chat, l.users, l.status, l.input, sep>>
    IN /\ l.chat # {}
       /\ UNION Range(parts) = (0..(p.width - 1)) \X (0..(p.height - 1))
       /\ \A i, j \in DOMAIN parts : i # j => parts[i] \cap parts[j] = {}

BarsFit(p) ==
    LET left == BuildLeftText(p.nick, 1, p.topic, p.width)
        bar  == StatusBar(left, p.right, p.width)
    IN /\ bar.left \cap bar.right = {}
       /\ bar.left \cup bar.right \subseteq 1..p.width
       /\ SearchBarQuery(p.query, 4, p.width) + 4 <= p.width

CursorShown(p) ==
    LET at == InputLine(p.prompt, p.length, p.cursor, p.scroll, p.width)
    IN (p.cursor <= p.length /\ p.scroll <= p.cursor /\ p.prompt + p.cursor - p.scroll < p.width)
         => /\ at.cursor = p.prompt + p.cursor - p.scroll
            /\ p.cursor < p.length => at.cursor < p.prompt + at.text

ChatFits(p) ==
    LET rows == ChatArea(p.lengths, p.nick, p.width, p.height, p.scrolled)
        available == IF p.scrolled THEN p.height - 1 ELSE p.height
        newest == FormatLine(Last(p.lengths), p.nick, p.width)
    IN /\ DOMAIN rows \subseteq 1..available
       /\ p.lengths # <<>> => available \in DOMAIN rows /\ rows[available] = Last(newest)

ColorsKeepText(p) ==
    LET out   == ParseMirc(p.text, 1, PlainStyle)
        shown == {out[k].at : k \in 1..Len(out)}
        since(t, i) == {j \in 1..(i - 1) : p.text[j] = t /\ \A k \in j..(i - 1) : p.text[k] # "R"}
    IN /\ \A k \in 1..(Len(out) - 1) : out[k].at < out[k + 1].at
       /\ \A i \in 1..Len(p.text) : p.text[i] = "x" => i \in shown
       /\ \A i \in (1..Len(p.text)) \ shown : p.text[i] \in {"1", "7", ","} =>
             \E j \in 1..(i - 1) : p.text[j] = "C" /\ \A k \in (j + 1)..i : p.text[k] \in {"1", "7", ","}
       /\ \A k \in 1..Len(out) :
             out[k].style.on = {t \in {"B", "V"} : Cardinality(since(t, out[k].at)) % 2 = 1}

(* Every frame is laid out right: the visible tabs include the active one,   *)
(* fit, and could not be extended; the panels tile the terminal; the texts   *)
(* of a bar never overlap; the cursor is where the next character goes; the  *)
(* newest message ends on the lowest free row; and colour codes never eat    *)
(* text, nor do toggles survive a reset.                                     *)
PanelsFit ==
    CASE panel.kind = "tabs" -> TabsFit(panel)
      [] panel.kind = "layout" -> LayoutTiles(panel)
      [] panel.kind = "bars" -> BarsFit(panel)
      [] panel.kind = "input" -> CursorShown(panel)
      [] panel.kind = "chat" -> ChatFits(panel)
      [] panel.kind = "mirc" -> ColorsKeepText(panel)
      [] OTHER -> TRUE

(* format_line: "First line: timestamp + prefix + content (up to             *)
(* content_width chars)", the rest wraps: every character of a message is    *)
(* on some row, inside the region.                                           *)
WrapShowsAll ==
    panel.kind = "chat" =>
      \A i \in 1..Len(panel.lengths) :
          LET rows == FormatLine(panel.lengths[i], panel.nick, panel.width)
          IN Len(rows) > 1 =>
               UNION {RenderVisualLine(rows[k], panel.width) : k \in 1..Len(rows)} = 1..panel.lengths[i]
=============================================================================
