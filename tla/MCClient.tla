------------------------------ MODULE MCClient ------------------------------
(* The client and what it is extended with, side by side, for TLC: the       *)
(* connection, typed commands, the input line, windows and the screen,       *)
(* plugins and scripts. The initial state picks one part, and every step is  *)
(* one of its steps. Modules with several machines give several parts.       *)
EXTENDS Integers, Sequences, TLC

CONSTANTS
    Nil, f1, f2, n1, n2, bad

VARIABLES
    part,  \* the part of the system that a behaviour is about
    app, inbox, outbox, peer, taken, losses, commands,
    typed, message, arrived,
    tty, pressed, handled, line, history, completer, draftOf, lastEvent, submitted,
    bufs, active, search, received,
    front, back, terminal, forced,
    panel,
    disk, auto, world, delivered,
    engine, scriptNow, reported, fires,
    program, raw,
    text

\* Which file is which, and which plugin, makes no difference.
Symmetry == Permutations({f1, f2}) \cup Permutations({n1, n2})

\* the client: its connection, its nickname, its channels
Client == INSTANCE ClientApp WITH
    PrimaryNick <- "n", AltNicks <- <<"alt">>, Chan <- {"c"}, MaxUnderscores <- 1,
    MaxLosses <- 2, MaxAttempts <- 2, MaxCommands <- 2

\* what is typed, and the messages it becomes
Proto == INSTANCE Protocol WITH
    MAX_PARAMS <- 4, MAX_MESSAGE_LEN <- 40, MaxWords <- 4

\* the input line, its history and its completion
Input == INSTANCE ClientInput WITH
    ReadSize <- 8, HistorySize <- 2, Nicks <- <<<<"a", "L", "c">>, <<"a", "a">>>>,
    Channels <- <<<<"#", "a">>, <<"#", "a", "a">>>>,
    CommandNames <- <<<<"a">>, <<"a", "b">>>>, ChannelArgCommands <- {<<"a">>},
    Width <- 3, MaxKeys <- 4, MaxPending <- 0

\* windows, the screen and what is drawn on it
Views == INSTANCE ClientViews WITH
    Channel <- {"c"}, Query <- {"q"}, Scrollback <- 2, PageLines <- 1,
    MaxLines <- 4, MaxQuery <- 1, Columns <- 3, MinWidth <- 4, MinHeight <- 4,
    TimestampWidth <- 2, NickWidth <- 2

\* the plugin host
Host == INSTANCE Plugins WITH
    File <- {f1, f2}, Name <- {n1, n2}, BadName <- bad, Command <- {"c"},
    Event <- {"e"}, MaxVersion <- 1

\* the script engine
Engine == INSTANCE ScriptRun WITH
    File <- {f1, f2}, IntBits <- 4, MaxLoop <- 3, MaxAliasDepth <- 2, MaxTime <- 3

\* the parser of scripts
Parser == INSTANCE Script WITH
    MaxRaw <- 5

\* the lexer of scripts
Lexing == INSTANCE Lexer WITH
    MaxDigits <- 2, MaxText <- 4

-----------------------------------------------------------------------------
appVars == <<app, inbox, outbox, peer, taken, losses, commands>>
protocolVars == <<typed, message, arrived>>
inputVars == <<tty, pressed, handled, line, history, completer, draftOf, lastEvent,
               submitted>>
viewsVars == <<bufs, active, search, received>>
screenVars == <<front, back, terminal, forced>>
panelsVars == <<panel>>
pluginsVars == <<disk, auto, world, delivered>>
engineVars == <<engine, scriptNow, reported, fires>>
parserVars == <<program, raw>>
lexerVars == <<text>>

\* The variables of the other parts are without a value.
Init ==
    /\ part \in {"app", "protocol", "input", "views", "screen", "panels",
                  "plugins", "engine", "parser", "lexer"}
    /\ IF part = "app" THEN Client!AppInit
       ELSE app = Nil /\ inbox = Nil /\ outbox = Nil /\ peer = Nil /\ taken = Nil /\
            losses = Nil /\ commands = Nil
    /\ IF part = "protocol" THEN Proto!ProtocolInit
       ELSE typed = Nil /\ message = Nil /\ arrived = Nil
    /\ IF part = "input" THEN Input!InputInit
       ELSE tty = Nil /\ pressed = Nil /\ handled = Nil /\ line = Nil /\
            history = Nil /\ completer = Nil /\ draftOf = Nil /\ lastEvent = Nil /\
            submitted = Nil
    /\ IF part = "views" THEN Views!ViewInit
       ELSE bufs = Nil /\ active = Nil /\ search = Nil /\ received = Nil
    /\ IF part = "screen" THEN Views!ScreenInit
       ELSE front = Nil /\ back = Nil /\ terminal = Nil /\ forced = Nil
    /\ IF part = "panels" THEN Views!PanelInit
       ELSE panel = Nil
    /\ IF part = "plugins" THEN Host!PluginInit
       ELSE disk = Nil /\ auto = Nil /\ world = Nil /\ delivered = Nil
    /\ IF part = "engine" THEN Engine!ScriptInit
       ELSE engine = Nil /\ scriptNow = Nil /\ reported = Nil /\ fires = Nil
    /\ IF part = "parser" THEN Parser!ParserInit
       ELSE program = Nil /\ raw = Nil
    /\ IF part = "lexer" THEN Lexing!LexerInit
       ELSE text = Nil

Others ==
    /\ UNCHANGED part
    /\ IF part = "app" THEN TRUE ELSE UNCHANGED appVars
    /\ IF part = "protocol" THEN TRUE ELSE UNCHANGED protocolVars
    /\ IF part = "input" THEN TRUE ELSE UNCHANGED inputVars
    /\ IF part = "views" THEN TRUE ELSE UNCHANGED viewsVars
    /\ IF part = "screen" THEN TRUE ELSE UNCHANGED screenVars
    /\ IF part = "panels" THEN TRUE ELSE UNCHANGED panelsVars
    /\ IF part = "plugins" THEN TRUE ELSE UNCHANGED pluginsVars
    /\ IF part = "engine" THEN TRUE ELSE UNCHANGED engineVars
    /\ IF part = "parser" THEN TRUE ELSE UNCHANGED parserVars
    /\ IF part = "lexer" THEN TRUE ELSE UNCHANGED lexerVars

Next ==
    \/ part = "app" /\ Client!AppNext /\ Others
    \/ part = "protocol" /\ Proto!ProtocolNext /\ Others
    \/ part = "input" /\ Input!InputNext /\ Others
    \/ part = "views" /\ Views!ViewNext /\ Others
    \/ part = "screen" /\ Views!ScreenNext /\ Others
    \/ part = "panels" /\ Views!PickPanel /\ Others
    \/ part = "plugins" /\ Host!PluginNext /\ Others
    \/ part = "engine" /\ Engine!ScriptNext /\ Others
    \/ part = "parser" /\ Parser!ParserNext /\ Others
    \/ part = "lexer" /\ Lexing!LexerNext /\ Others

vars == <<part, appVars, protocolVars, inputVars, viewsVars, screenVars, panelsVars,
          pluginsVars, engineVars, parserVars, lexerVars>>

Spec == Init /\ [][Next]_vars
-----------------------------------------------------------------------------


\* The draft under the history and the text under a completion are kept
\* whatever keys come between (InputHistory, TabCompleter, InputHandler).
InputExact ==
    part = "input" => Input!InputTypeOK /\ Input!DraftKept /\ Input!CompletionExact



=============================================================================
