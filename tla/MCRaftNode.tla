----------------------------- MODULE MCRaftNode -----------------------------
(* Small clusters of RaftNode for TLC.                                     *)
EXTENDS RaftNode, TLC

CONSTANTS s1, s2, s3, x, y

\* Every server is configured with all the others as its peers.
AllPeers == [i \in Server |-> Server \ {i}]

\* Commands that tell the leaders that proposed them apart.
OwnCommands == [i \in Server |-> IF i = s1 THEN {x} ELSE {y}]

\* Servers are interchangeable as far as the bound on campaigns is.
Symmetry == {f \in Permutations(Server) :
                \A c \in Campaigns : <<f[c[1]], c[2]>> \in Campaigns}

\* Two servers compete for two terms.
Rivals == {s1, s2} \X {1, 2}

\* Leadership passes from one server to another, and back.
Handover == {<<s1, 1>>, <<s2, 2>>}
HandBack == {<<s1, 1>>, <<s2, 2>>, <<s1, 3>>}

\* One server leads, once.
OneLeader == {<<s1, 1>>}

\* No step reads the history, whom a server takes for the leader, or the votes of
\* one that is no longer a candidate; and none the disk once the restarts are used
\* up.
Seen(i) ==
    [node[i] EXCEPT !.leader = Nil, !.votes = IF node[i].state = "Candidate" THEN @ ELSE {}]

LogView ==
    <<[i \in Server |-> Seen(i)], net, odd, restarts, faults,
      IF restarts < MaxRestarts THEN disk ELSE <<>>>>

\* A server bootstrapped alone, which others are then told to join.
Joining == [i \in Server |-> IF i = s1 THEN {} ELSE {s1}]

Changed == [kind : {"AddServer"}, server : {s2}] \cup [kind : {"RemoveServer"}, server : {s1, s2}]

\* A bound: a restart or a failed write, but not one after the other.
OneDisturbance == restarts + faults =< 1

-----------------------------------------------------------------------------
(* One stable leader, and connections that hold.                           *)

\* s1, which leads, does not restart.  A follower may: it comes back without its
\* log, and refuses what the leader sends until next_index has come down to it.
StableNext == Next /\ (restarts' # restarts => node'[s1] = node[s1])

\* Every task of a server is scheduled, connections deliver what was sent, and
\* the timers of the event loop keep firing.
FairSpec ==
    /\ Init /\ [][StableNext]_vars
    /\ \A i \in Server :
          /\ WF_vars(StartElection(i))
          /\ WF_vars(HeartbeatTick(i))
          /\ \A j \in Server \ {i} : WF_vars(\E k \in Deliverable(i, j) : Receive(i, j, k))

\* Whatever the leader has taken into its log, every server ends up applying, one
\* that restarted included: a refused AppendEntries is sent again, one entry
\* earlier, by the next heartbeat.
ProposalsApplied ==
    \A k \in 1..MaxIndex :
        (\E i \in Server : node[i].state = "Leader" /\ LastIndex(node[i].log) >= k)
            ~> (\A j \in Server : Len(node[j].machine) >= k)
=============================================================================
