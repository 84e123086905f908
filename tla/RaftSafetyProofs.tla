-------------------------- MODULE RaftSafetyProofs --------------------------
(***************************************************************************)
(* The safety theorems of RaftNode: who is elected, that logs match, and   *)
(* that servers apply the same commands.                                   *)
(***************************************************************************)
EXTENDS RaftMoveProofs, RaftElectionProofs, RaftCommitProofs, FiniteSetTheorems, WellFoundedInduction

USE Zenon

\* Every server is configured with all the others.
Meshed == \A i \in Server : Peers[i] \cup {i} = Server

-----------------------------------------------------------------------------
(* Counting                                                                *)

LEMMA ServersCount == Counting
<1>1. ASSUME NEW W \in SUBSET Server PROVE IsFiniteSet(W) /\ Cardinality(W) \in Nat
  BY RaftAssumptions, FS_Subset, FS_CardinalityType
<1>2. ASSUME NEW V \in SUBSET Server, NEW W \in SUBSET Server, V \subseteq W
      PROVE  Cardinality(V) =< Cardinality(W)
  BY <1>1, <1>2, FS_Subset
<1>3. ASSUME NEW V \in SUBSET Server, NEW i \in Server \ V
      PROVE  Cardinality(V \cup {i}) = Cardinality(V) + 1
  BY <1>1, FS_AddElement
<1>4. ASSUME NEW Q \in SUBSET Server, NEW R \in SUBSET Server,
             Cardinality(Q) >= Cardinality(Server) \div 2 + 1,
             Cardinality(R) >= Cardinality(Server) \div 2 + 1
      PROVE  \E v \in Q : v \in R
  <2> DEFINE c == Cardinality(Server)
  <2>1. c \in Nat /\ Cardinality(Q) \in Nat /\ Cardinality(R) \in Nat
    BY <1>1
  <2>2. Cardinality(Q) + Cardinality(R) > c
    <3>1. Cardinality(Q) >= c \div 2 + 1 /\ Cardinality(R) >= c \div 2 + 1
      BY <1>4
    <3> HIDE DEF c
    <3> QED
      BY SMT, <2>1, <3>1
  <2>3. Q \cap R # {}
    BY <2>2, RaftAssumptions, FS_MajoritiesIntersect
  <2> QED
    BY <2>3
<1> QED
  BY <1>1, <1>2, <1>3, <1>4 DEF Counting

LEMMA TermsOrdered == FirstTerms
<1> SUFFICES ASSUME NEW S \in SUBSET Nat, S # {} PROVE \E u \in S : \A w \in S : u =< w
  BY DEF FirstTerms
<1>1. PICK u \in S : \A w \in S : ~(<<w, u>> \in OpToRel(<, Nat))
  BY NatLessThanWellFounded, WFMin
<1>2. ASSUME NEW w \in S PROVE u =< w
  <2>1. w < u => <<w, u>> \in OpToRel(<, Nat)
    BY Zenon DEF OpToRel
  <2>2. ~(w < u)
    BY <1>1, <2>1, Zenon
  <2>3. u \in Nat /\ w \in Nat
    OBVIOUS
  <2> QED
    BY SMT, <2>2, <2>3
<1> QED
  BY <1>2

-----------------------------------------------------------------------------
(* Elections                                                               *)

\* In any cluster, a server is elected only with the votes, given in that term,
\* of a majority of the cluster it was configured with, unless its
\* handle_request_vote_response has counted a vote of another term.
THEOREM MajorityElects == Spec => []MajorityElected
<1>1. TypeOK /\ ElectionInv => MajorityElected
  BY BackedElected, ServersCount DEF MajorityElected
<1> QED
  BY <1>1, TypeCorrect, ElectionInvariant, PTL

\* If every server is configured with all the others, a term has at most one
\* leader, whatever is lost, late or overtaken, and across crashes or failed
\* writes (not both), as long as no vote of another term is counted.
THEOREM LeadersUnique ==
  ASSUME Meshed
  PROVE  Spec => []OneLeaderPerTerm
<1>1. TypeOK /\ VoteInv /\ ElectionInv => OneLeaderPerTerm
  BY OneLeader, ServersCount DEF Meshed
<1> QED
  BY <1>1, TypeCorrect, VoteInvariant, ElectionInvariant, PTL

-----------------------------------------------------------------------------
(* Logs                                                                    *)

LEMMA InitFresh == Init => Fresh
<1> SUFFICES ASSUME Init PROVE Fresh
  OBVIOUS
<1>1. ASSUME NEW i \in Server
      PROVE  /\ node[i].log = EmptyLog /\ node[i].state = "Follower"
             /\ node[i].members = Peers[i] \cup {i} /\ node[i].pending = Nil
             /\ node[i].commit = 0 /\ node[i].applied = 0 /\ node[i].machine = <<>>
  BY DEF Init, Boot, SnapshotOn, NewDisk
<1>2. \A p, q \in Server : Carries(net, p, q) = {}
  BY SMT DEF Init, Carries
<1> QED
  BY <1>1, <1>2 DEF Init, Fresh

\* A server that does nothing makes a move, too.
LEMMA StutterMoves ==
  ASSUME UNCHANGED vars
  PROVE  \E i \in Server : Move(i)
<1>1. PICK i \in Server : TRUE
  BY RaftAssumptions
<1>2. node' = node /\ net' = net /\ granted' = granted /\ elected' = elected /\ odd' = odd
  BY DEF vars
<1>3. Stays(i) /\ Applies(i)
  BY <1>2 DEF Stays, Applies
<1>4. MailMoves(i) /\ Acknowledges(i)
  BY <1>2 DEF MailMoves, Acknowledges, Carries
<1> QED
  BY <1>2, <1>3, <1>4 DEF Move

\* Nothing of a snapshot and, without Changes, no change of membership is under way.
Quiescent == NoSnapshots /\ Unpended

LEMMA QuiescentStep ==
  ASSUME TypeOK, Uncompacted, Uncompacted', Quiescent, [Next]_vars
  PROVE  Quiescent' /\ \E i \in Server : Move(i)
<1>1. CASE Next
  <2>1. Ready
    BY ServersCount DEF Ready, Quiescent
  <2>2. PICK i \in Server : Moved(i)
    BY <1>1, <2>1, NextMoves
  <2> QED
    BY <2>1, <2>2, MovedStaysReady DEF Quiescent, Moved
<1>2. CASE UNCHANGED vars
  <2>1. Quiescent'
    BY SMT, <1>2 DEF Quiescent, NoSnapshots, Unpended, Mail, Carries, vars
  <2> QED
    BY <1>2, <2>1, StutterMoves
<1> QED
  BY <1>1, <1>2

LEMMA QuiescentInvariant == Spec /\ []Uncompacted => []Quiescent
<1>1. Init => Quiescent
  BY SMT, InitFresh DEF Fresh, Quiescent, NoSnapshots, Mail, Unpended
<1>2. TypeOK /\ Uncompacted /\ Uncompacted' /\ Quiescent /\ [Next]_vars => Quiescent'
  BY QuiescentStep
<1> QED
  BY <1>1, <1>2, TypeCorrect, PTL DEF Spec

\* LogInv, as long as a term has one leader.
SaneLogs == Sane => LogInv

LEMMA Onwards ==
  ASSUME TypeOK, TypeOK', VoteInv, [Next]_vars
  PROVE  /\ restarts \in Nat /\ faults \in Nat /\ restarts' \in Nat /\ faults' \in Nat
         /\ restarts =< restarts' /\ faults =< faults'
         /\ faults' = 0 \/ restarts' = 0 => \A j \in Server : node'[j].term >= node[j].term
<1>1. restarts \in Nat /\ faults \in Nat /\ restarts' \in Nat /\ faults' \in Nat
  BY DEF TypeOK
<1>2. CASE Next
  <2>1. restarts =< restarts' /\ faults =< faults'
    BY <1>2, NextVotes DEF VoteStep
  <2> QED
    BY <1>1, <1>2, <2>1, TermsOnward
<1>3. CASE UNCHANGED vars
  <2>1. \A j \in Server : node[j].term \in Nat
    BY NodeFacts DEF TypeOK
  <2> QED
    BY SMT, <1>1, <1>3, <2>1 DEF vars
<1> QED
  BY <1>2, <1>3

LEMMA SaneStep ==
  ASSUME TypeOK, TypeOK', VoteInv, OneLeaderPerTerm', Uncompacted, Uncompacted', Quiescent,
         SaneLogs, [Next]_vars, Sane'
  PROVE  Sane /\ odd \subseteq odd' /\ \E i \in Server : LogStep(i)
<1>1. PICK i \in Server : Move(i)
  BY QuiescentStep
<1>2. odd \subseteq odd'
  BY <1>1 DEF Move
<1>3. Sane /\ node'[i].term >= node[i].term
  <2>1. /\ restarts \in Nat /\ faults \in Nat /\ restarts' \in Nat /\ faults' \in Nat
        /\ restarts =< restarts' /\ faults =< faults'
        /\ faults' = 0 \/ restarts' = 0 => \A j \in Server : node'[j].term >= node[j].term
    BY Onwards, Zenon
  <2>2. (faults' = 0 \/ restarts' = 0) /\ "stale vote" \notin odd'
    BY DEF Sane
  <2>3. faults = 0 \/ restarts = 0
    <3>1. ASSUME NEW a \in Nat, NEW b \in Nat, a =< b, b = 0 PROVE a = 0
      BY SMT, <3>1
    <3> QED
      BY <2>1, <2>2, <3>1, Zenon
  <2> QED
    BY <1>2, <2>1, <2>2, <2>3, Zenon DEF Sane
<1>4. LogStep(i)
  BY <1>1, <1>3 DEF LogStep, SaneLogs
<1> QED
  BY <1>2, <1>3, <1>4

LEMMA SaneLogsInvariant ==
  ASSUME Meshed
  PROVE  Spec /\ []Uncompacted => []SaneLogs
<1>1. Init => SaneLogs
  BY InitFresh, LogInvInit DEF SaneLogs
<1>2. /\ TypeOK /\ TypeOK' /\ VoteInv /\ OneLeaderPerTerm' /\ Uncompacted /\ Uncompacted' /\ Quiescent
      /\ SaneLogs /\ [Next]_vars
      => SaneLogs'
  BY SaneStep, LogInvStep DEF SaneLogs
<1> QED
  BY <1>1, <1>2, TypeCorrect, VoteInvariant, LeadersUnique, QuiescentInvariant, PTL DEF Spec

\* As long as no log has been compacted, two logs with an entry of the same term at
\* an index are the same up to there: handle_append_entries accepts entries only
\* on top of a match, and truncates only what conflicts.  For clusters of any
\* size and logs of any length, whatever is lost, late, overtaken or, but not both,
\* restarted or not written.
THEOREM LogsAlwaysMatch ==
  ASSUME Meshed
  PROVE  Spec /\ []Uncompacted => []LogMatching
<1>1. TypeOK /\ Uncompacted /\ SaneLogs => LogMatching
  BY LogsMatch DEF SaneLogs
<1> QED
  BY <1>1, TypeCorrect, SaneLogsInvariant, PTL

-----------------------------------------------------------------------------
(* State machines                                                          *)

\* Backers, as long as no vote of another term is counted.
Backing == "stale vote" \notin odd => Backers

LEMMA BackingInvariant ==
  ASSUME Meshed
  PROVE  Spec => []Backing
<1>1. TypeOK /\ ElectionInv => Backing
  <2> SUFFICES ASSUME TypeOK, ElectionInv, "stale vote" \notin odd, NEW e \in elected
               PROVE  /\ Cardinality(e.votes) >= Cardinality(Server) \div 2 + 1
                      /\ \A v \in e.votes :
                            [voter |-> v, term |-> e.term, candidate |-> e.leader] \in granted
    BY DEF Backing, Backers
  <2>1. e.leader \in Server /\ Backed(granted, e)
    BY Zenon DEF ElectionInv, TypeOK, Won
  <2>2. Peers[e.leader] \cup {e.leader} = Server
    BY <2>1 DEF Meshed
  <2> QED
    BY <2>1, <2>2, Zenon DEF Backed, HasQuorum, Voters, Vote
<1> QED
  BY <1>1, TypeCorrect, ElectionInvariant, PTL

\* CommitInv, as long as all goes as in Raft.
CalmCommits == Calm => CommitInv

LEMMA CalmStep ==
  ASSUME Changes = {}, TypeOK, TypeOK', VoteInv, OneLeaderPerTerm', Backing, Backing',
         Uncompacted, Uncompacted', Quiescent, SaneLogs, SaneLogs', CalmCommits, [Next]_vars, Calm'
  PROVE  \E i \in Server : CommitStep(i)
<1>1. Sane' /\ "stale vote" \notin odd'
  BY DEF Calm, Sane
<1>2. PICK i \in Server : LogStep(i) /\ Sane /\ odd \subseteq odd'
  BY <1>1, SaneStep
<1>3. Calm
  BY SMT, <1>2, Onwards DEF Calm
<1>4. Grounds
  BY <1>2, <1>3, ServersCount, TermsOrdered
     DEF Grounds, CalmCommits, CommitInv, SaneLogs, Backing, Sane
<1>5. CommitStep(i)
  BY <1>1, <1>2, <1>3, <1>4 DEF CommitStep, SaneLogs, Backing, CalmCommits
<1> QED
  BY <1>5

LEMMA CalmCommitsInvariant ==
  ASSUME Meshed, Changes = {}
  PROVE  Spec /\ []Uncompacted => []CalmCommits
<1>1. Init => CalmCommits
  BY InitFresh, CommitInvInit DEF CalmCommits, Meshed
<1>2. /\ TypeOK /\ TypeOK' /\ VoteInv /\ OneLeaderPerTerm' /\ Backing /\ Backing'
      /\ Uncompacted /\ Uncompacted' /\ Quiescent /\ SaneLogs /\ SaneLogs'
      /\ CalmCommits /\ [Next]_vars
      => CalmCommits'
  BY CalmStep, CommitInvStep DEF CalmCommits
<1> QED
  BY <1>1, <1>2, TypeCorrect, VoteInvariant, LeadersUnique, BackingInvariant, QuiescentInvariant,
     SaneLogsInvariant, PTL DEF Spec

\* As long as no log has been compacted, the membership does not change, no server
\* restarted, no write failed and none of the departures from Raft happened, the
\* servers apply the same commands in the same order: what a majority has stored
\* stays in the logs of all later leaders.
THEOREM MachinesAlwaysAgree ==
  ASSUME Meshed, Changes = {}
  PROVE  Spec /\ []Uncompacted => []SafeWithoutDepartures
<1>1. TypeOK /\ Uncompacted /\ SaneLogs /\ Backing /\ CalmCommits => SafeWithoutDepartures
  <2> SUFFICES ASSUME TypeOK, Uncompacted, SaneLogs, Backing, CalmCommits, Calm
               PROVE  MachinesAgree
    BY DEF SafeWithoutDepartures, Calm
  <2>1. Grounds /\ CommitInv
    BY ServersCount, TermsOrdered DEF Grounds, CommitInv, CalmCommits, SaneLogs, Sane, Backing, Calm
  <2> QED
    BY <2>1, CommitsAgree
<1> QED
  BY <1>1, TypeCorrect, SaneLogsInvariant, BackingInvariant, CalmCommitsInvariant, PTL
=============================================================================
