------------------------------- MODULE Accounts -------------------------------
(***************************************************************************)
(* The commands of a registered user that concern users and the server     *)
(* rather than channels: OPER, MODE on oneself, AWAY, WHOIS, PRIVMSG and   *)
(* NOTICE, WALLOPS, DIE and RESTART (handler.rs, handler_oper.rs,          *)
(* handler_channel/privmsg.rs).                                            *)
(*                                                                         *)
(* A session's modes and away message are changed by the handler of its    *)
(* own connection only, and a handler that reads the sessions of others    *)
(* locks them one at a time; each handler is one step.                     *)
(*                                                                         *)
(* The wildcard matchers are here too: host_matches_mask, for the host     *)
(* mask of an operator (handler_oper.rs), the server's glob_match, for ban *)
(* masks (handler_channel/util.rs), and the glob_match_inner of the        *)
(* scripts' event handlers.  Strings are sequences of characters; case,    *)
(* which the callers fold or ignore, is left out.  MaskInit and Pick       *)
(* enumerate patterns and texts.                                           *)
(***************************************************************************)
EXTENDS Integers, Sequences, SequencesExt, FiniteSetsExt

CONSTANTS User, Nil,
          Host,       \* Host[u]: the host that u connects from
          Operators,  \* config.operators: name, password, host_mask (or Nil)
          MaxModeString, \* bound: length of a mode string
          Letters,    \* characters of masks other than "*" and "?"
          TextChars,  \* characters of texts
          MaxLength   \* bound: length of masks and of texts

VARIABLES modes,   \* modes[u]: a subset of {"o", "v"}
          away,    \* users with an away message
          halted,  \* a handler returned HandleResult::Shutdown
          proved,  \* history: users whose OPER was accepted
          replies, \* what the last command sent, as <<user, message>>
          pattern, text  \* a mask and what it is matched against

accountVars == <<modes, away, halted, proved, replies>>

-----------------------------------------------------------------------------
(* Masks                                                                   *)

\* What a pattern means: "*" is any sequence, "?" any character.
RECURSIVE Matches(_, _)
Matches(p, t) ==
  IF p = <<>> THEN t = <<>>
  ELSE \/ Head(p) = "*" /\ (Matches(Tail(p), t) \/ (t # <<>> /\ Matches(p, Tail(t))))
       \/ Head(p) # "*" /\ t # <<>> /\ Head(p) \in {"?", Head(t)} /\ Matches(Tail(p), Tail(t))

\* The loop of glob_match, from the places px in the pattern and tx in the text;
\* sp is the last star that was passed (0 for none), st where it was met.
RECURSIVE FaultGlobLoop(_, _, _, _, _, _)
FaultGlobLoop(p, t, px, tx, sp, st) ==
  IF tx > Len(t) THEN \A k \in px..Len(p) : p[k] = "*"
  ELSE IF px <= Len(p) /\ p[px] \in {"?", t[tx]} THEN FaultGlobLoop(p, t, px + 1, tx + 1, sp, st)
  ELSE IF px <= Len(p) /\ p[px] = "*" THEN FaultGlobLoop(p, t, px + 1, tx, px, tx)
  ELSE IF sp # 0 THEN FaultGlobLoop(p, t, sp + 1, tx + 1, sp, st)
  ELSE FALSE

RECURSIVE GlobLoop(_, _, _, _, _, _)
GlobLoop(p, t, px, tx, sp, st) ==
  IF tx > Len(t) THEN \A k \in px..Len(p) : p[k] = "*"
  ELSE IF px <= Len(p) /\ p[px] \in {"?", t[tx]} THEN GlobLoop(p, t, px + 1, tx + 1, sp, st)
  ELSE IF px <= Len(p) /\ p[px] = "*" THEN GlobLoop(p, t, px + 1, tx, px, tx)
  ELSE IF sp # 0 THEN GlobLoop(p, t, sp + 1, st + 1, sp, st + 1)
  ELSE FALSE

GlobMatch(p, t) == GlobLoop(p, t, 1, 1, 0, 1)

\* The scripting crate has the same loop; its texts are what people write.
EventGlobMatch(p, t) == GlobLoop(p, t, 1, 1, 0, 1)

\* mask.split('*')
RECURSIVE Parts(_)
Parts(mask) ==
  LET stars == {k \in DOMAIN mask : mask[k] = "*"}
  IN IF stars = {} THEN <<mask>>
     ELSE <<SubSeq(mask, 1, Min(stars) - 1)>> \o Parts(SubSeq(mask, Min(stars) + 1, Len(mask)))

\* The end of the first occurrence of part in host after pos, or -1.
Find(host, pos, part) ==
  LET found == {k \in pos..(Len(host) - Len(part)) : SubSeq(host, k + 1, k + Len(part)) = part}
  IN IF found = {} THEN -1 ELSE Min(found) + Len(part)

\* The middle parts appear in order.  An empty part is skipped.
RECURSIVE InOrder(_, _, _)
InOrder(host, pos, middle) ==
  IF middle = <<>> THEN TRUE
  ELSE IF Head(middle) = <<>> THEN InOrder(host, pos, Tail(middle))
  ELSE LET end == Find(host, pos, Head(middle))
       IN end # -1 /\ InOrder(host, end, Tail(middle))

\* The last part is looked for at the end of the host, wherever the others were
\* found: they may overlap.
HostMatchesMask(host, mask) ==
  LET parts == Parts(mask)
      first == parts[1]
      last == parts[Len(parts)]
  IN IF Len(parts) = 1 THEN host = mask
     ELSE /\ IsPrefix(first, host)
          /\ IsSuffix(last, host)
          /\ InOrder(host, Len(first), SubSeq(parts, 2, Len(parts) - 1))

-----------------------------------------------------------------------------
(* Commands                                                                *)

IsOper(u) == "o" \in modes[u]

\* The first operator of that name decides; the mask is checked last.
HandleOper(u, name, password) ==
  LET named == SelectSeq(Operators, LAMBDA o : o.name = name)
      refused == CASE named = <<>> -> "PASSWDMISMATCH"
                   [] named # <<>> /\ named[1].password # password -> "PASSWDMISMATCH"
                   [] named # <<>> /\ named[1].password = password
                      /\ named[1].host_mask # Nil
                      /\ ~HostMatchesMask(Host[u], named[1].host_mask) -> "NOOPERHOST"
                   [] OTHER -> Nil
  IN /\ IF refused # Nil
          THEN replies' = <<<<u, refused>>>> /\ UNCHANGED <<modes, proved>>
          ELSE /\ modes' = [modes EXCEPT ![u] = @ \cup {"o"}]
               /\ proved' = proved \cup {u}
               /\ replies' = <<<<u, "YOUREOPER">>, <<u, "MODE">>>>
     /\ UNCHANGED <<away, halted>>


ApplyModeChar(s, ch) ==
  CASE ch = "+" -> [s EXCEPT !.adding = TRUE]
    [] ch = "-" -> [s EXCEPT !.adding = FALSE]
    [] ch = "o" -> IF s.adding THEN s ELSE [s EXCEPT !.modes = @ \ {"o"}]
    [] ch = "v" -> [s EXCEPT !.modes = IF s.adding THEN @ \cup {"v"} ELSE @ \ {"v"}]
    [] OTHER -> [s EXCEPT !.unknown = TRUE]

\* MODE of a nickname: another's is refused, one's own is shown, or changed and
\* then shown (format_user_modes).
HandleUserMode(u, v, modestring) ==
  LET end == FoldLeft(ApplyModeChar, [adding |-> TRUE, modes |-> modes[u], unknown |-> FALSE],
                      modestring)
  IN /\ IF u # v
          THEN replies' = <<<<u, "USERSDONTMATCH">>>> /\ UNCHANGED modes
          ELSE /\ modes' = [modes EXCEPT ![u] = end.modes]
               /\ replies' = (IF end.unknown THEN <<<<u, "UMODEUNKNOWNFLAG">>>> ELSE <<>>)
                             \o <<<<u, end.modes>>>>
     /\ UNCHANGED <<away, halted, proved>>

HandleAway(u) ==
  /\ away' \in {away \cup {u}, away \ {u}}
  /\ replies' = <<<<u, IF u \in away' THEN "NOWAWAY" ELSE "UNAWAY">>>>
  /\ UNCHANGED <<modes, halted, proved>>

HandleWhois(u, v) ==
  /\ replies' = <<<<u, "WHOISUSER">>, <<u, "WHOISSERVER">>>>
                \o (IF IsOper(v) THEN <<<<u, "WHOISOPERATOR">>>> ELSE <<>>)
                \o (IF v \in away THEN <<<<u, "AWAY">>>> ELSE <<>>)
                \o <<<<u, "WHOISIDLE">>, <<u, "ENDOFWHOIS">>>>
  /\ UNCHANGED <<modes, away, halted, proved>>

\* A PRIVMSG to a user who is away is answered with the away message; a NOTICE
\* is never answered.
HandleUserMessage(u, v, command) ==
  /\ replies' = <<<<v, command>>>>
                \o (IF command = "PRIVMSG" /\ v \in away THEN <<<<u, "AWAY">>>> ELSE <<>>)
  /\ UNCHANGED <<modes, away, halted, proved>>

BroadcastToChannel(command, members) == SetToSeq({<<w, command>> : w \in members})

\* A message to a channel with the given modes, of which status[w] is the
\* status of the member w, or Nil.
HandleChannelMessage(u, command, chanModes, status) ==
  LET refused == \/ status[u] = Nil /\ "n" \in chanModes
                 \/ status[u] \notin {"operator", "voiced"} /\ "m" \in chanModes
      others == {w \in User \ {u} : status[w] # Nil}
  IN /\ replies' = IF refused THEN <<<<u, "CANNOTSENDTOCHAN">>>>
                   ELSE BroadcastToChannel(command, others)
     /\ UNCHANGED <<modes, away, halted, proved>>

HandleMessageCommand(u, command) ==
  \/ \E v \in User : HandleUserMessage(u, v, command)
  \/ \E chanModes \in SUBSET {"n", "m"}, status \in [User -> {"operator", "normal", Nil}] :
       HandleChannelMessage(u, command, chanModes, status)

HandleWallops(u) ==
  /\ replies' = IF IsOper(u) THEN SetToSeq({<<w, "WALLOPS">> : w \in {w \in User : IsOper(w)}})
                ELSE <<<<u, "NOPRIVILEGES">>>>
  /\ UNCHANGED <<modes, away, halted, proved>>

Notify == replies' = SetToSeq({<<w, "NOTICE">> : w \in User})

HandleDie(u) ==
  /\ IF IsOper(u) THEN Notify /\ halted' = TRUE
                  ELSE replies' = <<<<u, "NOPRIVILEGES">>>> /\ UNCHANGED halted
  /\ UNCHANGED <<modes, away, proved>>

\* The process manager is expected to start the server again.
HandleRestart(u) ==
  /\ IF IsOper(u) THEN Notify /\ halted' = TRUE
                  ELSE replies' = <<<<u, "NOPRIVILEGES">>>> /\ UNCHANGED halted
  /\ UNCHANGED <<modes, away, proved>>

-----------------------------------------------------------------------------
ModeStrings == UNION {[1..n -> {"+", "-", "o", "v", "x"}] : n \in 0..MaxModeString}

Names == {Operators[k].name : k \in DOMAIN Operators} \cup {Nil}
Passwords == {Operators[k].password : k \in DOMAIN Operators} \cup {Nil}

Init ==
  /\ modes = [u \in User |-> {}]
  /\ away = {}
  /\ halted = FALSE
  /\ proved = {}
  /\ replies = <<>>

Next ==
  /\ ~halted
  /\ \E u \in User :
       \/ HandleAway(u) \/ HandleWallops(u) \/ HandleDie(u) \/ HandleRestart(u)
       \/ \E name \in Names, password \in Passwords : HandleOper(u, name, password)
       \/ \E v \in User, modestring \in ModeStrings : HandleUserMode(u, v, modestring)
       \/ \E v \in User : HandleWhois(u, v)
       \/ \E command \in {"PRIVMSG", "NOTICE"} : HandleMessageCommand(u, command)

TypeOK ==
  /\ modes \in [User -> SUBSET {"o", "v"}]
  /\ away \subseteq User /\ proved \subseteq User
  /\ halted \in BOOLEAN

\* Nobody is an operator, and nobody stops the server, who did not present the
\* name and the password of an operator from a host that the mask allows: no
\* mode string, however it is put together, grants it (handle_user_mode).
OperatorsProved == /\ {u \in User : IsOper(u)} \subseteq proved
                   /\ halted => proved # {}
                   /\ \A u \in proved : \E k \in DOMAIN Operators :
                        \/ Operators[k].host_mask = Nil
                        \/ Matches(Operators[k].host_mask, Host[u])

-----------------------------------------------------------------------------
(* Masks and texts                                                         *)

Strings(chars) == UNION {[1..n -> chars] : n \in 0..MaxLength}

MaskInit == pattern = <<>> /\ text = <<>>

Pick == /\ pattern = <<>> /\ text = <<>>
        /\ pattern' \in Strings(Letters \cup {"*", "?"})
        /\ text' \in Strings(TextChars)

\* glob_match backtracks to the last star only, and yet accepts exactly the
\* texts that the pattern means.
GlobMatchExact == GlobMatch(pattern, text) <=> Matches(pattern, text)

\* grammar.rs: "A bare `*` matches everything."
BareStarMatches == pattern = <<"*">> => EventGlobMatch(pattern, text)

\* host_matches_mask, which never backtracks and knows no "?", refuses no host
\* that its mask means.
HostMaskComplete ==
  "?" \notin Range(pattern) /\ Matches(pattern, text) => HostMatchesMask(text, pattern)
=============================================================================
