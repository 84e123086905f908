---------------------------- MODULE MCChatServer ----------------------------
(* Instances of ChatServer for TLC.                                        *)
EXTENDS ChatServer, TLC

CONSTANTS c1, c2, c3, n1, n2, x, y, lower, upper

\* Each behaviour has one set of commands, so the cases add up instead of
\* multiplying: comings and goings; modes and the other checked changes;
\* users who leave in every way; groups, with nicknames in two casings, so that two
\* users can be three members of a group.
AllScripts ==
    {[commands |-> {"join", "part", "kick"}, each |-> 3, casings |-> {lower}, max |-> 1],
     [commands |-> {"join", "mode", "ban", "topic", "invite"}, each |-> 2, casings |-> {lower}, max |-> 1],
     [commands |-> {"join", "nick", "quit", "drop"}, each |-> 2, casings |-> {lower}, max |-> 2],
     [commands |-> {"join", "oper", "kill"}, each |-> 2, casings |-> {lower}, max |-> 1],
     [commands |-> {"group", "nick"}, each |-> 3, casings |-> {lower, upper}, max |-> 1],
     [commands |-> {"group", "nick", "quit", "drop"}, each |-> 2, casings |-> {lower, upper}, max |-> 1],
     [commands |-> {"group", "oper", "kill"}, each |-> 2, casings |-> {lower}, max |-> 1]}

OneChange(m, add, arg) == <<[mode |-> m, add |-> add, arg |-> arg]>>

\* Closed under the exchange of the two nicknames.
SomeChanges ==
    {OneChange("i", TRUE, Nil), OneChange("t", TRUE, Nil), OneChange("k", TRUE, Nil),
     OneChange("l", TRUE, 1)}
    \cup {OneChange("o", FALSE, p[1]) \o OneChange("o", TRUE, p[2]) :
             p \in {<<n1, n2>>, <<n2, n1>>}}

\* Connections, nicknames and names are interchangeable.
Symmetry == Permutations(Conn) \cup Permutations(Nick) \cup Permutations(Name)
=============================================================================
