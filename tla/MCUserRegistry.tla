--------------------------- MODULE MCUserRegistry ---------------------------
(* UserRegistry for TLC, in three scenes; the first step of a behaviour is   *)
(* one of the scene that the initial state picks.                            *)
EXTENDS UserRegistry

CONSTANTS c1, c2, c3, n1, n2, n3

VARIABLE scene

sceneVars == <<vars, scene>>

\* "killing", the scene of the constants: three connections, two of them
\* operators, two nicknames, and nobody changes nickname.
TwoNicks == [c \in Conn |-> {n1, n2}]
NoRenames == [c \in Conn |-> {}]

\* Two connections; each may register with and change to every nickname.
Contended == [c \in Conn |-> Nick]
Race == INSTANCE UserRegistry WITH
    Conn <- {c1, c2}, Wants <- Contended, Renames <- Contended, Opers <- {c1}, MaxConnections <- 2

\* Two connections; no nickname is ever wanted by both, and nobody is killed.
Uncontended == [c \in Conn |-> IF c = c1 THEN {n1, n2} ELSE {n3}]
Orderly == INSTANCE UserRegistry WITH
    Conn <- {c1, c2}, Wants <- Uncontended, Renames <- Uncontended, Opers <- {}, MaxConnections <- 2

SceneInit == Init /\ scene \in {"race", "orderly", "killing"}

SceneNext ==
    \/ scene = "race" /\ Race!Next /\ UNCHANGED scene
    \/ scene = "orderly" /\ Orderly!Next /\ UNCHANGED scene
    \/ scene = "killing" /\ Next /\ UNCHANGED scene

\* The fairness of Spec, in the scene a liveness property is about.
SceneSpec ==
    /\ SceneInit /\ [][SceneNext]_sceneVars
    /\ \A c \in {c1, c2} : WF_sceneVars(scene = "orderly" /\ Orderly!Step(c) /\ UNCHANGED scene)

\* Commands are carried out for the session of the connection they came from:
\* between its operations a registered user's connection leads to its own
\* session as long as no nickname is contended (a nick change, completed or
\* refused, loses nobody); and while operators kill and nicknames are taken
\* anew, get_by_connection never answers with somebody else's session.
SessionsOwn ==
    /\ scene = "orderly" => MappedWhenIdle
    /\ scene = "killing" => ActsAsSelf

\* AcceptsWithinLimit where three connections meet a limit of two: the accept
\* loop takes a connection only while the users found by nickname, without those
\* whose registration is not counted yet, are fewer than max_connections.
WithinLimit ==
    [][scene = "killing" /\ Accepts =>
          Cardinality(Entries) + Cardinality(Renaming) < MaxConnections + Cardinality(Registering)]_sceneVars

\* A nickname in use is never taken over by a registration, whatever is killed
\* meanwhile: its entry in by_nick changes hands only by being vacated first.
KeptByHolder ==
    [][scene = "killing" => \A n \in Nick : byNick[n] # NoConn => byNick'[n] \in {byNick[n], NoConn}]_sceneVars

\* A connection that ends is eventually forgotten by by_connection and by_nick
\* (remove_by_connection), when no other connection wants its nicknames.
OrderlyReleased ==
    \A c \in {c1, c2} :
        scene = "orderly" /\ phase[c] = "closed" ~> byConn[c] = NoNick /\ \A n \in Nick : byNick[n] # c
=============================================================================
