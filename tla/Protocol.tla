------------------------------ MODULE Protocol ------------------------------
(***************************************************************************)
(* The way of a typed line from the client's input to the server's         *)
(* dispatcher: the input parser, the typed client commands, the wire       *)
(* format of a message and the server's parser.  A text is a sequence of   *)
(* tokens: a word without spaces, " ", and the characters the parsers look *)
(* at (":" "/" "!" "@", digits, the CTCP mark "^A").                       *)
(***************************************************************************)
EXTENDS Naturals, Sequences, SequencesExt, TLC

CONSTANTS Nil, MAX_PARAMS, MAX_MESSAGE_LEN, MaxWords

VARIABLES typed,    \* the words of the last entered line, or Nil
          message,  \* the message the client made of it, or Nil
          arrived   \* the message the server parsed, or Nil

protocolVars == <<typed, message, arrived>>

Space == <<" ">>

\* The text before the first space and the text after it.
Cut(text) ==
    LET at == SelectInSeq(text, LAMBDA t : t = " ")
    IN  IF at = 0 THEN [word |-> text, rest |-> <<>>]
        ELSE [word |-> SubSeq(text, 1, at - 1), rest |-> SubSeq(text, at + 1, Len(text))]

SkipSpaces(text) ==
    LET at == SelectInSeq(text, LAMBDA t : t # " ")
    IN  IF at = 0 THEN <<>> ELSE SubSeq(text, at, Len(text))

Blank(text) == \A i \in 1..Len(text) : text[i] = " "

StartsWith(text, token) == text # <<>> /\ Head(text) = token

(***************************************************************************)
(* Commands and their keywords                                             *)
(***************************************************************************)
Keyword ==
    [Privmsg |-> "PRIVMSG", Ping |-> "PING", Pong |-> "PONG", Notice |-> "NOTICE",
     Nick |-> "NICK", Join |-> "JOIN", Part |-> "PART", Quit |-> "QUIT", Mode |-> "MODE",
     User |-> "USER", Topic |-> "TOPIC", Kick |-> "KICK", Ban |-> "BAN", Whois |-> "WHOIS",
     List |-> "LIST", Names |-> "NAMES", Invite |-> "INVITE", Away |-> "AWAY", Oper |-> "OPER",
     Kill |-> "KILL", Die |-> "DIE", Restart |-> "RESTART", Wallops |-> "WALLOPS",
     Motd |-> "MOTD", Error |-> "ERROR", Pirc |-> "PIRC"]

NamedCommand ==
    [BAN |-> "Ban", DIE |-> "Die", PING |-> "Ping", PONG |-> "Pong", NICK |-> "Nick",
     JOIN |-> "Join", PART |-> "Part", QUIT |-> "Quit", MODE |-> "Mode", USER |-> "User",
     KICK |-> "Kick", KILL |-> "Kill", LIST |-> "List", OPER |-> "Oper", AWAY |-> "Away",
     MOTD |-> "Motd", TOPIC |-> "Topic", WHOIS |-> "Whois", NAMES |-> "Names",
     ERROR |-> "Error", NOTICE |-> "Notice", INVITE |-> "Invite", PRIVMSG |-> "Privmsg",
     WALLOPS |-> "Wallops", RESTART |-> "Restart"]

Digit == <<"0", "1", "2", "3", "4", "5", "6", "7", "8", "9">>
DigitValue(d) == SelectInSeq(Digit, LAMBDA e : e = d) - 1

Cmd(name) == [name |-> name, arg |-> Nil]
Numeric(code) == [name |-> "Numeric", arg |-> code]
Pirc(sub) == [name |-> "Pirc", arg |-> sub]

\* A named command's keyword, or the zero-padded digits of a numeric.
AsStr(c) ==
    IF c.name = "Numeric"
    THEN <<Digit[((c.arg \div 100) % 10) + 1], Digit[((c.arg \div 10) % 10) + 1],
           Digit[(c.arg % 10) + 1]>>
    ELSE <<Keyword[c.name]>>

FromKeyword(field) ==
    IF Len(field) = 3 /\ \A i \in 1..3 : field[i] \in Range(Digit)
    THEN Numeric(100 * DigitValue(field[1]) + 10 * DigitValue(field[2]) + DigitValue(field[3]))
    ELSE IF Len(field) = 1 /\ field[1] \in DOMAIN NamedCommand THEN Cmd(NamedCommand[field[1]])
    ELSE Nil

SubKeyword ==
    [Version |-> <<"VERSION">>, Cap |-> <<"CAP">>, KeyExchange |-> <<"KEYEXCHANGE">>,
     KeyExchangeAck |-> <<"KEYEXCHANGE-ACK">>, KeyExchangeComplete |-> <<"KEYEXCHANGE-COMPLETE">>,
     Fingerprint |-> <<"FINGERPRINT">>, Encrypted |-> <<"ENCRYPTED">>,
     ClusterJoin |-> <<"CLUSTER", " ", "JOIN">>, ClusterWelcome |-> <<"CLUSTER", " ", "WELCOME">>,
     ClusterSync |-> <<"CLUSTER", " ", "SYNC">>, ClusterHeartbeat |-> <<"CLUSTER", " ", "HEARTBEAT">>,
     ClusterMigrate |-> <<"CLUSTER", " ", "MIGRATE">>, ClusterRaft |-> <<"CLUSTER", " ", "RAFT">>,
     ClusterStatus |-> <<"CLUSTER", " ", "STATUS">>, ClusterMembers |-> <<"CLUSTER", " ", "MEMBERS">>,
     InviteKeyGenerate |-> <<"INVITE-KEY", " ", "GENERATE">>,
     InviteKeyList |-> <<"INVITE-KEY", " ", "LIST">>,
     InviteKeyRevoke |-> <<"INVITE-KEY", " ", "REVOKE">>, NetworkInfo |-> <<"NETWORK", " ", "INFO">>,
     P2pOffer |-> <<"P2P", " ", "OFFER">>, P2pAnswer |-> <<"P2P", " ", "ANSWER">>,
     P2pIce |-> <<"P2P", " ", "ICE">>, P2pEstablished |-> <<"P2P", " ", "ESTABLISHED">>,
     P2pFailed |-> <<"P2P", " ", "FAILED">>, GroupCreate |-> <<"GROUP", " ", "CREATE">>,
     GroupInvite |-> <<"GROUP", " ", "INVITE">>, GroupJoin |-> <<"GROUP", " ", "JOIN">>,
     GroupLeave |-> <<"GROUP", " ", "LEAVE">>, GroupMessage |-> <<"GROUP", " ", "MSG">>,
     GroupMembers |-> <<"GROUP", " ", "MEMBERS">>, GroupKeyExchange |-> <<"GROUP", " ", "KEYEX">>,
     GroupP2pOffer |-> <<"GROUP", " ", "P2P-OFFER">>, GroupP2pAnswer |-> <<"GROUP", " ", "P2P-ANSWER">>,
     GroupP2pIce |-> <<"GROUP", " ", "P2P-ICE">>]

FlatSubcommand ==
    [VERSION |-> "Version", CAP |-> "Cap", KEYEXCHANGE |-> "KeyExchange",
     FINGERPRINT |-> "Fingerprint", ENCRYPTED |-> "Encrypted"]
    @@ ("KEYEXCHANGE-ACK" :> "KeyExchangeAck") @@ ("KEYEXCHANGE-COMPLETE" :> "KeyExchangeComplete")

FromNamespace ==
    [CLUSTER |-> [JOIN |-> "ClusterJoin", WELCOME |-> "ClusterWelcome", SYNC |-> "ClusterSync",
                  HEARTBEAT |-> "ClusterHeartbeat", MIGRATE |-> "ClusterMigrate",
                  RAFT |-> "ClusterRaft", STATUS |-> "ClusterStatus", MEMBERS |-> "ClusterMembers"],
     NETWORK |-> [INFO |-> "NetworkInfo"],
     P2P |-> [OFFER |-> "P2pOffer", ANSWER |-> "P2pAnswer", ICE |-> "P2pIce",
              ESTABLISHED |-> "P2pEstablished", FAILED |-> "P2pFailed"],
     GROUP |-> [CREATE |-> "GroupCreate", INVITE |-> "GroupInvite", JOIN |-> "GroupJoin",
                LEAVE |-> "GroupLeave", MSG |-> "GroupMessage", MEMBERS |-> "GroupMembers",
                KEYEX |-> "GroupKeyExchange"]
               @@ ("P2P-OFFER" :> "GroupP2pOffer") @@ ("P2P-ANSWER" :> "GroupP2pAnswer")
               @@ ("P2P-ICE" :> "GroupP2pIce")]
    @@ ("INVITE-KEY" :> [GENERATE |-> "InviteKeyGenerate", LIST |-> "InviteKeyList",
                         REVOKE |-> "InviteKeyRevoke"])

\* The variants of the PIRC extension.
Subcommands == DOMAIN SubKeyword

IsNamespaced(sub) == " " \in Range(SubKeyword[sub])

(***************************************************************************)
(* The wire format                                                         *)
(***************************************************************************)
NewMessage(prefix, command, params) == [prefix |-> prefix, command |-> command, params |-> params]

ServerPrefix(name) == [kind |-> "server", parts |-> <<name>>]
UserPrefix(nick, user, host) == [kind |-> "user", parts |-> <<nick, user, host>>]

FormatPrefix(p) ==
    IF p.kind = "server" THEN p.parts[1]
    ELSE p.parts[1] \o <<"!">> \o p.parts[2] \o <<"@">> \o p.parts[3]

FormatParam(params, i) ==
    LET trailing == \/ params[i] = <<>>
                    \/ " " \in Range(params[i])
                    \/ StartsWith(params[i], ":")
    IN  Space \o (IF i = Len(params) /\ trailing THEN <<":">> ELSE <<>>) \o params[i]

Format(m) ==
    (IF m.prefix = Nil THEN <<>> ELSE <<":">> \o FormatPrefix(m.prefix) \o Space)
    \o AsStr(m.command)
    \o (IF m.command.name = "Pirc" THEN Space \o SubKeyword[m.command.arg] ELSE <<>>)
    \o FlattenSeq([i \in 1..Len(m.params) |-> FormatParam(m.params, i)])

\* nick!user@host with no part empty is a user, a text without "!" a server.
ParsePrefix(s) ==
    LET bang == SelectInSeq(s, LAMBDA t : t = "!")
        after == SubSeq(s, bang + 1, Len(s))
        at == SelectInSeq(after, LAMBDA t : t = "@")
        user == SubSeq(after, 1, at - 1)
        host == SubSeq(after, at + 1, Len(after))
    IN  IF s = <<>> THEN Nil
        ELSE IF bang = 0 THEN ServerPrefix(s)
        ELSE IF at = 0 \/ user = <<>> \/ host = <<>> \/ bang = 1 THEN Nil
        ELSE UserPrefix(SubSeq(s, 1, bang - 1), user, host)


\* A ":" takes the rest of the line, and so does the last parameter allowed.
RECURSIVE ParamLoop(_, _)
ParamLoop(params, rest) ==
    LET field == Cut(rest)
        more == IF field.word = <<>> THEN params ELSE Append(params, field.word)
    IN  IF rest = <<>> THEN params
        ELSE IF Head(rest) = ":" THEN Append(params, Tail(rest))
        ELSE IF Len(more) = MAX_PARAMS - 1 /\ field.rest # <<>> THEN Append(more, field.rest)
        ELSE ParamLoop(more, field.rest)

ParseParams(input) == ParamLoop(<<>>, input)

IsPircNamespace(s) == s \in {<<"CLUSTER">>, <<"P2P">>, <<"INVITE-KEY">>, <<"NETWORK">>, <<"GROUP">>}

ParsePircCommand(prefix, remainder) ==
    LET sub == Cut(SkipSpaces(remainder))
        inner == Cut(SkipSpaces(sub.rest))
        known(w, table) == Len(w) = 1 /\ w[1] \in DOMAIN table
    IN  IF IsPircNamespace(sub.word)
        THEN IF known(inner.word, FromNamespace[sub.word[1]])
             THEN NewMessage(prefix, Pirc(FromNamespace[sub.word[1]][inner.word[1]]),
                             ParseParams(inner.rest))
             ELSE Nil
        ELSE IF known(sub.word, FlatSubcommand)
             THEN NewMessage(prefix, Pirc(FlatSubcommand[sub.word[1]]), ParseParams(sub.rest))
             ELSE Nil

\* Nil stands for the parser's errors.
Parse(line) ==
    LET prefixed == StartsWith(line, ":")
        source == Cut(Tail(line))
        prefix == IF prefixed THEN ParsePrefix(source.word) ELSE Nil
        field == Cut(SkipSpaces(IF prefixed THEN source.rest ELSE line))
        command == FromKeyword(field.word)
    IN  IF Len(line) > MAX_MESSAGE_LEN \/ Blank(line) THEN Nil
        ELSE IF prefixed /\ (prefix = Nil \/ field.word = <<>>) THEN Nil
        ELSE IF field.word = <<"PIRC">> THEN ParsePircCommand(prefix, field.rest)
        ELSE IF command = Nil THEN Nil
        ELSE NewMessage(prefix, command, ParseParams(field.rest))

\* The parameters a command must have.
MinParams(c) ==
    CASE c.name \in {"Nick", "Whois", "Join", "Part", "Topic", "Mode", "Ping", "Pong", "Wallops"} -> 1
      [] c.name \in {"Privmsg", "Notice", "Kick", "Ban", "Invite", "Oper", "Kill"} -> 2
      [] OTHER -> 0

Valid(m) == Len(m.params) <= MAX_PARAMS /\ Len(m.params) >= MinParams(m.command)

(***************************************************************************)
(* The client's input line.  An argument list has at most two texts: the   *)
(* first word and the rest.                                                *)
(***************************************************************************)
LowerOf == [MSG |-> "msg", KICK |-> "kick"]
Lower(w) == IF w \in DOMAIN LowerOf THEN LowerOf[w] ELSE w

UpperOf == [join |-> "JOIN", sync |-> "SYNC", n |-> "N"]
Upper(w) == IF w \in DOMAIN UpperOf THEN UpperOf[w] ELSE w

\* The first word and what follows it, absent when blank.
SplitWord(text) ==
    LET rest == SkipSpaces(Cut(text).rest)
    IN  <<Cut(text).word>> \o (IF rest = <<>> THEN <<>> ELSE <<rest>>)

ChatMessage(text) == [kind |-> "chat", text |-> text]
CommandInput(name, args) == [kind |-> "command", name |-> name, args |-> args]

ParseInput(input) ==
    LET rest == SkipSpaces(Tail(input))
        name == Cut(rest).word
        remainder == SkipSpaces(Cut(rest).rest)
    IN  IF Blank(input) THEN ChatMessage(<<>>)
        ELSE IF StartsWith(input, "/") /\ StartsWith(Tail(input), "/") THEN ChatMessage(Tail(input))
        ELSE IF ~StartsWith(input, "/") THEN ChatMessage(input)
        ELSE IF rest = <<>> THEN CommandInput("", <<>>)
        ELSE CommandInput(Lower(name[1]), IF remainder = <<>> THEN <<>> ELSE SplitWord(remainder))

(***************************************************************************)
(* Typed client commands: the variant's name and the texts it holds, an    *)
(* absent option being left out.  Nil is an error shown to the user.       *)
(***************************************************************************)
Client(cmd, args) == [cmd |-> cmd, args |-> args]

IsChannel(text) == StartsWith(text, "#c")

FirstArg(args) == IF args = <<>> THEN <<>> ELSE <<args[1]>>

JoinAllArgs(args) ==
    IF args = <<>> THEN <<>>
    ELSE <<args[1] \o (IF Len(args) = 2 THEN Space \o args[2] ELSE <<>>)>>

ParseJoin(args) ==
    IF Len(args) >= 1 /\ IsChannel(args[1]) THEN Client("Join", FirstArg(args)) ELSE Nil

ParsePart(args) ==
    IF Len(args) >= 1 /\ IsChannel(args[1]) THEN Client("Part", args) ELSE Nil

ParseTopic(args) ==
    IF Len(args) >= 1 /\ IsChannel(args[1]) THEN Client("Topic", args) ELSE Nil

ParseInvite(args) ==
    IF Len(args) = 2 /\ IsChannel(Cut(args[2]).word)
    THEN Client("Invite", <<args[1], Cut(args[2]).word>>) ELSE Nil

ParseMsg(args) == IF Len(args) = 2 THEN Client("Msg", args) ELSE Nil

ParseQuery(args) == IF Len(args) >= 1 THEN Client("Query", args) ELSE Nil

ParseMe(args) == IF Len(args) >= 1 THEN Client("Me", JoinAllArgs(args)) ELSE Nil

ParseNotice(args) == IF Len(args) = 2 THEN Client("Notice", args) ELSE Nil

ParseCtcp(args) ==
    IF Len(args) = 2
    THEN LET tail == SplitWord(args[2])
         IN  Client("Ctcp", <<args[1], [i \in DOMAIN tail[1] |-> Upper(tail[1][i])]>> \o Tail(tail))
    ELSE Nil

ParseNick(args) == IF Len(args) >= 1 THEN Client("Nick", FirstArg(args)) ELSE Nil

ParseWhois(args) == IF Len(args) >= 1 THEN Client("Whois", FirstArg(args)) ELSE Nil

FaultParseKick(args) ==
    IF Len(args) = 2 /\ IsChannel(args[1]) THEN Client("Kick", args) ELSE Nil

ParseKick(args) ==
    IF Len(args) = 2 /\ IsChannel(args[1])
    THEN Client("Kick", <<args[1]>> \o SplitWord(args[2])) ELSE Nil

ParseBan(args) ==
    IF Len(args) = 2 /\ IsChannel(args[1])
    THEN Client("Ban", <<args[1], Cut(args[2]).word>>) ELSE Nil

ParseMode(args) == IF Len(args) >= 1 THEN Client("Mode", args) ELSE Nil

ParseOper(args) ==
    IF Len(args) = 2 THEN Client("Oper", <<args[1], Cut(args[2]).word>>) ELSE Nil

ParseKill(args) == IF Len(args) = 2 THEN Client("Kill", args) ELSE Nil

\* A subcommand word and, unless it stands alone, the word after it.
Subcommand(variant, alone, withWord, args) ==
    IF args = <<>> THEN Nil
    ELSE IF args[1] \in alone THEN Client(variant, FirstArg(args))
    ELSE IF args[1] \in withWord /\ Len(args) = 2
    THEN Client(variant, <<args[1], Cut(args[2]).word>>)
    ELSE Nil

ParsePlugin(args) ==
    Subcommand("Plugin", {<<"list">>},
               {<<"load">>, <<"unload">>, <<"reload">>, <<"enable">>, <<"disable">>, <<"info">>}, args)

ParseEncryption(args) ==
    Subcommand("Encryption", {<<"status">>}, {<<"reset">>, <<"info">>}, args)

ParseCluster(args) == IF Len(args) >= 1 THEN Client("Cluster", args) ELSE Nil

\* The name of a new group is the whole rest, and a group id is a number.
ParseGroup(args) ==
    IF Len(args) = 2 /\ args[1] = <<"create">> THEN Client("Group", args)
    ELSE IF Len(args) = 2 /\ args[1] = <<"join">> /\ Cut(args[2]).word \notin Seq(Range(Digit)) THEN Nil
    ELSE Subcommand("Group", {<<"leave">>, <<"members">>, <<"list">>, <<"info">>},
                    {<<"invite">>, <<"join">>}, args)

FromParsed(name, args) ==
    CASE name = "join" -> ParseJoin(args)
      [] name = "part" -> ParsePart(args)
      [] name = "topic" -> ParseTopic(args)
      [] name = "list" -> Client("List", FirstArg(args))
      [] name = "invite" -> ParseInvite(args)
      [] name = "names" -> Client("Names", FirstArg(args))
      [] name \in {"msg", "privmsg"} -> ParseMsg(args)
      [] name = "query" -> ParseQuery(args)
      [] name = "me" -> ParseMe(args)
      [] name = "notice" -> ParseNotice(args)
      [] name = "ctcp" -> ParseCtcp(args)
      [] name = "nick" -> ParseNick(args)
      [] name = "whois" -> ParseWhois(args)
      [] name = "away" -> Client("Away", JoinAllArgs(args))
      [] name = "quit" -> Client("Quit", JoinAllArgs(args))
      [] name = "kick" -> ParseKick(args)
      [] name = "ban" -> ParseBan(args)
      [] name = "mode" -> ParseMode(args)
      [] name = "oper" -> ParseOper(args)
      [] name = "kill" -> ParseKill(args)
      [] name = "die" -> Client("Die", JoinAllArgs(args))
      [] name = "restart" -> Client("Restart", JoinAllArgs(args))
      [] name = "cluster" -> ParseCluster(args)
      [] name = "invite-key" -> Client("InviteKey", args)
      [] name = "network" -> Client("Network", args)
      [] name = "reconnect" -> Client("Reconnect", <<>>)
      [] name = "disconnect" -> Client("Disconnect", <<>>)
      [] name = "group" -> ParseGroup(args)
      [] name = "plugin" -> ParsePlugin(args)
      [] name = "encryption" -> ParseEncryption(args)
      [] name = "fingerprint" -> Client("Fingerprint", FirstArg(args))
      [] name = "help" -> Client("Help", FirstArg(args))
      [] OTHER -> Client("Unknown", args)

Ctcp(words) == <<"^A">> \o words \o <<"^A">>

\* Commands whose texts are the parameters of the command of that name.
DirectVariant == {"Join", "Part", "Topic", "List", "Invite", "Names", "Notice", "Nick", "Whois",
                  "Away", "Quit", "Kick", "Ban", "Mode", "Oper", "Kill", "Die", "Restart"}

\* An unknown word after /cluster sends CLUSTER JOIN, without that word.
ClusterCommand(word) ==
    IF Len(word) = 1 /\ Upper(word[1]) \in {"JOIN", "WELCOME", "SYNC", "HEARTBEAT", "MIGRATE", "RAFT"}
    THEN Pirc(FromNamespace["CLUSTER"][Upper(word[1])])
    ELSE Pirc("ClusterJoin")

MessagingMessage(c, context) ==
    CASE c.cmd \in {"Msg", "Query"} ->
           IF Len(c.args) = 2 THEN NewMessage(Nil, Cmd("Privmsg"), c.args) ELSE Nil
      [] c.cmd = "Me" ->
           IF context = Nil THEN Nil
           ELSE NewMessage(Nil, Cmd("Privmsg"), <<context, Ctcp(<<"ACTION", " ">> \o c.args[1])>>)
      [] c.cmd = "Ctcp" ->
           NewMessage(Nil, Cmd("Privmsg"),
                      <<c.args[1], Ctcp(c.args[2] \o (IF Len(c.args) = 3 THEN Space \o c.args[3]
                                                      ELSE <<>>))>>)

PircMessage(c) ==
    CASE c.cmd = "Cluster" -> NewMessage(Nil, ClusterCommand(c.args[1]), Tail(c.args))
      [] c.cmd = "InviteKey" -> NewMessage(Nil, Pirc("KeyExchange"), c.args)
      [] c.cmd = "Network" -> NewMessage(Nil, Pirc("Cap"), c.args)

\* Nil for the commands the client carries out itself.
ToMessage(c, context) ==
    IF c.cmd \in DirectVariant THEN NewMessage(Nil, Cmd(c.cmd), c.args)
    ELSE IF c.cmd \in {"Msg", "Query", "Me", "Ctcp"} THEN MessagingMessage(c, context)
    ELSE IF c.cmd \in {"Cluster", "InviteKey", "Network"} THEN PircMessage(c)
    ELSE Nil

(***************************************************************************)
(* The checked inputs: lines "/name word ... word", with one or two spaces *)
(* around the first word, and messages built by the server's handlers.     *)
(***************************************************************************)
Word == {<<"#c">>, <<"n">>, <<":", "n">>}
Words == UNION {[1..k -> Word] : k \in 0..MaxWords}

Joined(words) == FlattenSeq([i \in 1..Len(words) |-> (IF i = 1 THEN <<>> ELSE Space) \o words[i]])

Names == {"join", "part", "topic", "list", "invite", "names", "MSG", "privmsg", "query", "me", "notice",
          "ctcp", "nick", "whois", "away", "quit", "KICK", "ban", "mode", "oper", "kill", "die",
          "restart", "cluster", "invite-key", "network", "reconnect", "group", "plugin",
          "encryption", "help", "other"}

Line(name, words, gap) ==
    <<"/">> \o <<name>>
    \o (IF words = <<>> THEN <<>> ELSE gap \o words[1])
    \o (IF Len(words) < 2 THEN <<>> ELSE gap \o Joined(Tail(words)))

Sources == {Nil, ServerPrefix(<<"s">>), UserPrefix(<<"n">>, <<"u">>, <<"h">>)}
Commands == {Cmd(name) : name \in DOMAIN Keyword \ {"Pirc"}} \cup {Numeric(1), Numeric(433)}
            \cup {Pirc(sub) : sub \in Subcommands}
LastParams == {<<>>, <<"n">>, <<":", "n">>, <<"n", " ", "n">>, <<" ">>}
Params == {<<>>} \cup {[i \in 1..k |-> IF i = k THEN p ELSE <<"#c">>] : k \in 1..MAX_PARAMS, p \in LastParams}

ProtocolInit == typed = Nil /\ message = Nil /\ arrived = Nil

\* The user enters a line in the view of a channel.
Enter(name, words, gap) ==
    LET input == ParseInput(Line(name, words, gap))
        command == FromParsed(input.name, input.args)
        sent == IF command = Nil THEN Nil ELSE ToMessage(command, <<"#c">>)
    IN  /\ typed' = [name |-> input.name, words |-> words]
        /\ message' = sent
        /\ arrived' = IF sent = Nil THEN Nil ELSE Parse(Format(sent))

\* One side sends a message to the other.
Send(prefix, command, params) ==
    /\ typed' = Nil
    /\ message' = NewMessage(prefix, command, params)
    /\ arrived' = Parse(Format(message'))

ProtocolNext ==
    /\ typed = Nil /\ message = Nil
    /\ \/ \E name \in Names, words \in Words, gap \in {Space, Space \o Space} : Enter(name, words, gap)
       \/ \E prefix \in Sources, command \in Commands, params \in Params : Send(prefix, command, params)

(***************************************************************************)
(* Properties                                                              *)
(***************************************************************************)
\* Every message that does not fill the parameter list arrives as it was
\* sent: the keyword tables of the formatter and of the parser agree, and
\* Display marks the last parameter exactly where parse_params needs it.
RoundTrip ==
    typed = Nil /\ message # Nil /\ (Len(message.params) < MAX_PARAMS \/ message.params[MAX_PARAMS] = <<"n">>)
    => arrived = message

\* What a command takes: its keyword, which word must be a channel, how many
\* single words, how many words at least, and whether a text follows.
Takes(keyword, channel, single, least, text) ==
    [keyword |-> keyword, channel |-> channel, single |-> single, least |-> least, text |-> text]

Syntax ==
    [join |-> Takes("Join", 1, 1, 1, FALSE), part |-> Takes("Part", 1, 1, 1, TRUE),
     topic |-> Takes("Topic", 1, 1, 1, TRUE), list |-> Takes("List", 0, 1, 0, FALSE),
     invite |-> Takes("Invite", 2, 2, 2, FALSE), names |-> Takes("Names", 0, 1, 0, FALSE),
     msg |-> Takes("Privmsg", 0, 1, 2, TRUE), notice |-> Takes("Notice", 0, 1, 2, TRUE),
     nick |-> Takes("Nick", 0, 1, 1, FALSE), whois |-> Takes("Whois", 0, 1, 1, FALSE),
     away |-> Takes("Away", 0, 0, 0, TRUE), quit |-> Takes("Quit", 0, 0, 0, TRUE),
     kick |-> Takes("Kick", 1, 2, 2, TRUE), ban |-> Takes("Ban", 1, 2, 2, FALSE),
     oper |-> Takes("Oper", 0, 2, 2, FALSE), kill |-> Takes("Kill", 0, 1, 2, TRUE)]

ArrivesAs(syntax, words) ==
    LET text == SubSeq(words, syntax.single + 1, Len(words))
        given == SubSeq(words, 1, IF Len(words) < syntax.single THEN Len(words) ELSE syntax.single)
    IN  IF \/ Len(words) < syntax.least
           \/ syntax.channel > 0 /\ ~IsChannel(words[syntax.channel])
        THEN Nil
        ELSE NewMessage(Nil, Cmd(syntax.keyword),
                        given \o (IF syntax.text /\ text # <<>> THEN <<Joined(text)>> ELSE <<>>))

\* A typed command reaches the server's dispatcher as the command its usage
\* line promises: the words in their places, the remaining text in one
\* parameter, enough parameters to be valid, and nothing when a required
\* word is missing.  (Words that stand before the last parameter must not
\* start with ":".)
TypedArrives ==
    (typed # Nil /\ typed.name \in DOMAIN Syntax) =>
        LET wanted == ArrivesAs(Syntax[typed.name], typed.words)
        IN  (wanted # Nil => \A i \in 1..(Len(wanted.params) - 1) : ~StartsWith(wanted.params[i], ":"))
            => /\ arrived = wanted
               /\ arrived # Nil => Valid(arrived)

\* /mode with a mode and its argument reaches the server with the argument
\* in a parameter of its own, where handle_channel_mode looks for it.
ModeArgumentArrives ==
    (typed # Nil /\ typed.name = "mode" /\ Len(typed.words) = 3
     /\ \A i \in 1..3 : ~StartsWith(typed.words[i], ":"))
    => arrived.params = typed.words

ProtocolTypeOK ==
    /\ message # Nil => message.command \in Commands
    /\ arrived # Nil => /\ arrived.command \in Commands
                        /\ Len(arrived.params) <= MAX_PARAMS
=============================================================================
