------------------------- MODULE RaftElectionProofs -------------------------
(***************************************************************************)
(* A server votes once per term and its term never goes back, whatever     *)
(* crashes happen between two writes.  A server that is elected has the    *)
(* votes of a majority of its configuration, unless it counted a vote of   *)
(* another term; so, if all servers are configured with all the others, a  *)
(* term has one leader.  The counting this needs is a hypothesis here and  *)
(* proved in RaftSafetyProofs.                                             *)
(***************************************************************************)
EXTENDS RaftTypeProofs

USE Zenon

-----------------------------------------------------------------------------
(* Votes                                                                   *)

\* Without a failed write the disk knows the term and the vote; without a
\* restart the memory does.  Either way, a server that has voted in its term
\* still knows whom for.
VoteInv ==
    /\ faults = 0 => \A i \in Server : disk[i].term = node[i].term /\ disk[i].vote = node[i].vote
    /\ faults = 0 \/ restarts = 0 =>
          \A g \in granted :
              /\ g.term =< node[g.voter].term
              /\ g.term = node[g.voter].term => node[g.voter].vote = g.candidate
    /\ VoteOnce

\* Server i moves from term t and vote v to term u and vote x.
Onward(t, v, u, x) == u > t \/ (u = t /\ (x = v \/ v = Nil))

\* What every step of a server does to its term and its vote.
VoteStep(i) ==
    /\ Only(i)
    /\ restarts =< restarts' /\ faults =< faults'
    /\ faults' = 0 => disk'[i].term = node'[i].term /\ disk'[i].vote = node'[i].vote
    /\ faults' = 0 \/ restarts' = 0 =>
          Onward(node[i].term, node[i].vote, node'[i].term, node'[i].vote)
    /\ \/ granted' = granted
       \/ granted' = granted \cup {[voter |-> i, term |-> node'[i].term, candidate |-> node'[i].vote]}

LEMMA VoteStepInv ==
  ASSUME TypeOK, TypeOK', VoteInv, NEW i \in Server, VoteStep(i)
  PROVE  VoteInv'
<1>1. /\ \A j \in Server : node[j].term \in Nat /\ node'[j].term \in Nat
      /\ restarts \in Nat /\ faults \in Nat /\ restarts' \in Nat /\ faults' \in Nat
      /\ \A g \in granted' : g.voter \in Server /\ g.term \in Nat /\ g.candidate \in Server
      /\ \A g \in granted : g.voter \in Server /\ g.term \in Nat /\ g.candidate \in Server
  BY NodeFacts, Zenon DEF TypeOK
<1>2. (faults' = 0 => faults = 0) /\ (restarts' = 0 => restarts = 0)
  BY SMT, <1>1 DEF VoteStep
<1>3. faults' = 0 => \A j \in Server : disk'[j].term = node'[j].term /\ disk'[j].vote = node'[j].vote
  BY <1>2 DEF VoteInv, VoteStep, Only
<1>4. ASSUME faults' = 0 \/ restarts' = 0, NEW g \in granted
      PROVE  /\ g.term =< node'[g.voter].term
             /\ g.term = node'[g.voter].term => node'[g.voter].vote = g.candidate
  <2>1. /\ g.term =< node[g.voter].term
        /\ g.term = node[g.voter].term => node[g.voter].vote = g.candidate
    BY <1>2, <1>4 DEF VoteInv
  <2>2. CASE g.voter = i
    <3>1. Onward(node[i].term, node[i].vote, node'[i].term, node'[i].vote)
      BY <1>4 DEF VoteStep
    <3>2. g.candidate # Nil
      BY <1>1, RaftAssumptions
    <3> QED
      BY SMT, <1>1, <2>1, <2>2, <3>1, <3>2 DEF Onward
  <2>3. CASE g.voter # i
    BY <1>1, <2>1, <2>3 DEF VoteStep, Only
  <2> QED
    BY <2>2, <2>3
<1>5. ASSUME faults' = 0 \/ restarts' = 0, NEW g \in granted'
      PROVE  /\ g.term =< node'[g.voter].term
             /\ g.term = node'[g.voter].term => node'[g.voter].vote = g.candidate
  <2>1. CASE g \in granted
    BY <1>4, <1>5, <2>1
  <2>2. CASE g \notin granted
    <3>1. g = [voter |-> i, term |-> node'[i].term, candidate |-> node'[i].vote]
      BY <2>2 DEF VoteStep
    <3> QED
      BY SMT, <1>1, <3>1
  <2> QED
    BY <2>1, <2>2
<1>6. ASSUME faults' = 0 \/ restarts' = 0 PROVE NoDoubleVote'
  <2> SUFFICES ASSUME NEW a \in granted', NEW b \in granted', a.voter = b.voter, a.term = b.term
               PROVE  a = b
    BY DEF NoDoubleVote
  <2>1. CASE a \in granted /\ b \in granted
    BY <1>2, <1>6, <2>1 DEF VoteInv, VoteOnce, NoDoubleVote
  <2> DEFINE new == [voter |-> i, term |-> node'[i].term, candidate |-> node'[i].vote]
  <2>2. ASSUME NEW g \in granted, g.voter = i, g.term = node'[i].term
        PROVE  g = new
    <3>1. node'[i].vote = g.candidate
      BY <1>4, <1>6, <2>2
    <3>2. g \in [voter : Server, term : Nat, candidate : Server]
      BY DEF TypeOK
    <3> QED
      BY <2>2, <3>1, <3>2
  <2>3. (a \in granted \/ a = new) /\ (b \in granted \/ b = new)
    BY DEF VoteStep
  <2>4. new.voter = i /\ new.term = node'[i].term
    OBVIOUS
  <2> HIDE DEF new
  <2> QED
    BY <2>1, <2>2, <2>3, <2>4
<1> QED
  BY <1>3, <1>5, <1>6 DEF VoteInv, VoteOnce

\* An iteration that ends with n in memory and d on disk.
LEMMA IterationVotes ==
  ASSUME StateType, NEW i \in Server, NEW n \in NodeState, NEW d \in DiskState, NEW w \in Net,
         NEW out \in Outbox, EndIteration(i, n, d, w, out),
         restarts' = restarts, restarts \in Nat, faults =< faults',
         faults' = 0 => d.term = n.term /\ d.vote = n.vote,
         faults' = 0 \/ restarts' = 0 => Onward(node[i].term, node[i].vote, n.term, n.vote),
         \/ granted' = granted
         \/ granted' = granted \cup {[voter |-> i, term |-> n.term, candidate |-> n.vote]}
  PROVE  VoteStep(i)
<1>1. Only(i) /\ node'[i].term = n.term /\ node'[i].vote = n.vote
      /\ disk'[i].term = d.term /\ disk'[i].vote = d.vote
  BY EndIterationType DEF Keeps
<1> QED
  BY SMT, <1>1 DEF VoteStep

LEMMA QuietVotes ==
  ASSUME StateType, NEW i \in Server, NEW n0, NEW d0, NEW w \in Net, Quiet(i, n0, d0, w),
         restarts' = restarts, restarts \in Nat, faults' = faults, faults \in Nat,
         granted' = granted,
         faults = 0 => d0.term = n0.term /\ d0.vote = n0.vote,
         Onward(node[i].term, node[i].vote, n0.term, n0.vote)
  PROVE  VoteStep(i)
<1>1. PICK n \in NodeState, d \in DiskState, out \in Outbox :
        /\ Keeps(n0, n) /\ d.term = d0.term /\ d.vote = d0.vote
        /\ EndIteration(i, n, d, w, out)
  BY DEF Quiet
<1>2. n.term = n0.term /\ n.vote = n0.vote
  BY <1>1 DEF Keeps
<1> QED
  BY SMT, <1>1, <1>2, IterationVotes

\* The term update of a message: in memory and on disk alike.
LEMMA ArrivalVotes ==
  ASSUME StateType, VoteInv, NEW i \in Server, NEW t \in Nat
  PROVE  /\ faults = 0 => /\ TermUpdateSaved(disk[i], node[i], t).term = TermUpdate(node[i], t).term
                          /\ TermUpdateSaved(disk[i], node[i], t).vote = TermUpdate(node[i], t).vote
         /\ \/ TermUpdate(node[i], t).term > node[i].term /\ TermUpdate(node[i], t).vote = Nil
            \/ TermUpdate(node[i], t) = node[i]
         /\ t =< TermUpdate(node[i], t).term
<1> DEFINE n == TermUpdate(node[i], t)
           d == TermUpdateSaved(disk[i], node[i], t)
<1>1. node[i] \in NodeState /\ disk[i] \in DiskState /\ node[i].term \in Nat
  BY NodeFacts DEF StateType
<1>2. /\ t > node[i].term => n.term = t /\ n.vote = Nil /\ d.term = t /\ d.vote = Nil
      /\ ~(t > node[i].term) => n = node[i] /\ d = disk[i]
  <2>1. /\ t > node[i].term => n.term = t /\ n.vote = Nil
        /\ ~(t > node[i].term) => n = node[i]
    BY <1>1, TermUpdateType
  <2>2. /\ t > node[i].term => d.term = t /\ d.vote = Nil
        /\ ~(t > node[i].term) => d = disk[i]
    BY SMT, <1>1, TermUpdateSavedType
  <2> QED
    BY <2>1, <2>2
<1>3. faults = 0 => disk[i].term = node[i].term /\ disk[i].vote = node[i].vote
  BY DEF VoteInv
<1> HIDE DEF n, d
<1>4. /\ faults = 0 => d.term = n.term /\ d.vote = n.vote
      /\ (n.term > node[i].term /\ n.vote = Nil) \/ n = node[i]
      /\ t =< n.term
  BY SMT, <1>1, <1>2, <1>3
<1> QED
  BY <1>4 DEF n, d

LEMMA LocalVotes ==
  ASSUME TypeOK, VoteInv, NEW i \in Server,
         \/ HeartbeatTick(i)
         \/ \E c \in Proposes[i] : ClientRequest(i, c)
         \/ \E c \in Changes, noop \in Proposes[i] : ProposeMembershipChange(i, c, noop)
  PROVE  VoteStep(i)
<1>1. StateType /\ restarts \in Nat /\ faults \in Nat /\ net \in Net
  BY TypeSplit DEF HistoryType, StateType
<1>2. Quiet(i, node[i], disk[i], net)
  BY <1>1, HeartbeatQuiet, ClientRequestQuiet, MembershipQuiet
<1>3. granted' = granted /\ restarts' = restarts /\ faults' = faults
  BY Zenon DEF HeartbeatTick, ClientRequest, ProposeMembershipChange
<1>4. faults = 0 => disk[i].term = node[i].term /\ disk[i].vote = node[i].vote
  BY DEF VoteInv
<1>5. Onward(node[i].term, node[i].vote, node[i].term, node[i].vote)
  BY DEF Onward
<1> QED
  BY <1>1, <1>2, <1>3, <1>4, <1>5, QuietVotes

LEMMA StartElectionVotes ==
  ASSUME TypeOK, NEW i \in Server, StartElection(i)
  PROVE  VoteStep(i)
<1> DEFINE n == Campaign(node[i], i)
           d == VoteSaved(TermSaved(disk[i], n.term), i)
           b == BecomeLeader(n, i)
<1>1. StateType /\ node[i] \in NodeState /\ disk[i] \in DiskState /\ net \in Net
      /\ restarts \in Nat /\ faults \in Nat
  BY TypeSplit DEF StateType, HistoryType
<1>2. n \in NodeState /\ n.term = node[i].term + 1 /\ n.vote = i /\ n.term \in Nat
      /\ node[i].term \in Nat
  BY <1>1, CampaignType, NodeFacts
<1>3. d \in DiskState /\ d.term = n.term /\ d.vote = i
  <2> HIDE DEF n
  <2>1. TermSaved(disk[i], n.term) \in DiskState /\ TermSaved(disk[i], n.term).term = n.term
    BY <1>1, <1>2, TermSavedType, Zenon
  <2> QED
    BY <2>1, VoteSavedType
<1>4. b \in NodeState /\ b.term = n.term /\ b.vote = n.vote
  <2> HIDE DEF n
  <2> QED
    BY <1>2, KeepsBecomeLeader DEF Keeps
<1>5. EndIteration(i, b, d, net, ToPeers(b, i)) \/ EndIteration(i, n, d, net, VoteRequests(n, i))
  BY DEF StartElection
<1>6. granted' = granted \cup {[voter |-> i, term |-> n.term, candidate |-> i]}
      /\ restarts' = restarts /\ faults' = faults
  BY DEF StartElection
<1> HIDE DEF n, d, b
<1>7. Onward(node[i].term, node[i].vote, n.term, n.vote)
  BY SMT, <1>2 DEF Onward
<1>8. ToPeers(b, i) \in Outbox /\ VoteRequests(n, i) \in Outbox
  BY <1>2, <1>4, ToPeersType, VoteRequestsType
<1>9. CASE EndIteration(i, b, d, net, ToPeers(b, i))
  BY SMT, <1>1, <1>2, <1>3, <1>4, <1>6, <1>7, <1>8, <1>9, IterationVotes
<1>10. CASE EndIteration(i, n, d, net, VoteRequests(n, i))
  BY SMT, <1>1, <1>2, <1>3, <1>6, <1>7, <1>8, <1>10, IterationVotes
<1> QED
  BY <1>5, <1>9, <1>10

LEMMA RequestVoteVotes ==
  ASSUME TypeOK, VoteInv, NEW i \in Server, NEW j \in Server, NEW k, HandleRequestVote(i, j, k)
  PROVE  VoteStep(i)
<1> DEFINE m == net[j][i][k]
           n == TermUpdate(node[i], m.term)
           d == TermUpdateSaved(disk[i], node[i], m.term)
           w == Without(i, j, k)
           v == [n EXCEPT !.vote = j]
<1>1. StateType /\ restarts \in Nat /\ faults \in Nat
  BY TypeSplit DEF HistoryType
<1>2. k \in Deliverable(i, j)
  BY DEF HandleRequestVote, Takes
<1>3. m.term \in Nat /\ n \in NodeState /\ d \in DiskState /\ w \in Net
  BY <1>1, <1>2, Arrival
<1>4. /\ faults = 0 => d.term = n.term /\ d.vote = n.vote
      /\ (n.term > node[i].term /\ n.vote = Nil) \/ n = node[i]
  BY <1>1, <1>3, ArrivalVotes
<1>5. restarts' = restarts /\ faults' = faults
  BY Zenon DEF HandleRequestVote
<1>6. \/ /\ n.vote \in {Nil, j}
         /\ granted' = granted \cup {[voter |-> i, term |-> n.term, candidate |-> j]}
         /\ EndIteration(i, v, VoteSaved(d, j), w, Reply(j, VoteReply(v, TRUE)))
      \/ /\ granted' = granted
         /\ EndIteration(i, n, d, w, Reply(j, VoteReply(n, FALSE)))
  BY Zenon DEF HandleRequestVote, Grants
<1> HIDE DEF m, n, d, w
<1>7. v \in NodeState /\ v.term = n.term /\ v.vote = j
  BY <1>3, VoteType
<1> HIDE DEF v
<1>8. VoteSaved(d, j) \in DiskState /\ VoteSaved(d, j).term = d.term /\ VoteSaved(d, j).vote = j
  BY <1>3, VoteSavedType
<1>9. Reply(j, VoteReply(v, TRUE)) \in Outbox /\ Reply(j, VoteReply(n, FALSE)) \in Outbox
  BY <1>3, <1>7, RepliesType, ReplyType, Zenon
<1>10. n.term \in Nat /\ node[i].term \in Nat
  BY <1>1, <1>3, NodeFacts DEF StateType
<1>11. CASE /\ n.vote \in {Nil, j}
            /\ granted' = granted \cup {[voter |-> i, term |-> n.term, candidate |-> j]}
            /\ EndIteration(i, v, VoteSaved(d, j), w, Reply(j, VoteReply(v, TRUE)))
  <2>1. Onward(node[i].term, node[i].vote, v.term, v.vote)
    BY <1>4, <1>7, <1>10, <1>11 DEF Onward
  <2> DEFINE e == VoteSaved(d, j)
             out == Reply(j, VoteReply(v, TRUE))
  <2>2. e \in DiskState /\ e.term = d.term /\ e.vote = j /\ out \in Outbox
        /\ EndIteration(i, v, e, w, out)
    BY <1>8, <1>9, <1>11, Zenon
  <2> HIDE DEF e, out
  <2>3. faults' = 0 => e.term = v.term /\ e.vote = v.vote
    BY <1>4, <1>5, <1>7, <2>2
  <2>4. granted' = granted \cup {[voter |-> i, term |-> v.term, candidate |-> v.vote]}
    BY <1>7, <1>11
  <2>5. faults =< faults'
    BY SMT, <1>1, <1>5
  <2> QED
    BY <1>1, <1>3, <1>5, <1>7, <2>1, <2>2, <2>3, <2>4, <2>5, IterationVotes
<1>12. CASE /\ granted' = granted
            /\ EndIteration(i, n, d, w, Reply(j, VoteReply(n, FALSE)))
  <2>1. Onward(node[i].term, node[i].vote, n.term, n.vote)
    BY <1>4, <1>10 DEF Onward
  <2> DEFINE out == Reply(j, VoteReply(n, FALSE))
  <2>2. out \in Outbox /\ EndIteration(i, n, d, w, out)
    BY <1>9, <1>12, Zenon
  <2> HIDE DEF out
  <2>3. faults =< faults'
    BY SMT, <1>1, <1>5
  <2> QED
    BY <1>1, <1>3, <1>4, <1>5, <1>12, <2>1, <2>2, <2>3, IterationVotes
<1> QED
  BY <1>6, <1>11, <1>12, Zenon

LEMMA RequestVoteResponseVotes ==
  ASSUME TypeOK, VoteInv, NEW i \in Server, NEW j \in Server, NEW k,
         HandleRequestVoteResponse(i, j, k)
  PROVE  VoteStep(i)
<1> DEFINE m == net[j][i][k]
           n == TermUpdate(node[i], m.term)
           d == TermUpdateSaved(disk[i], node[i], m.term)
           w == Without(i, j, k)
           v == [n EXCEPT !.votes = @ \cup {j}]
           b == BecomeLeader(v, i)
<1>1. StateType /\ restarts \in Nat /\ faults \in Nat
  BY TypeSplit DEF HistoryType
<1>2. k \in Deliverable(i, j)
  BY Zenon DEF HandleRequestVoteResponse, Takes
<1>3. m.term \in Nat /\ n \in NodeState /\ d \in DiskState /\ w \in Net
  BY <1>1, <1>2, Arrival
<1>4. /\ faults = 0 => d.term = n.term /\ d.vote = n.vote
      /\ (n.term > node[i].term /\ n.vote = Nil) \/ n = node[i]
  BY <1>1, <1>3, ArrivalVotes
<1>5. restarts' = restarts /\ faults' = faults /\ granted' = granted
  BY Zenon DEF HandleRequestVoteResponse
<1>6. \/ EndIteration(i, n, d, w, Silence)
      \/ EndIteration(i, v, d, w, Silence)
      \/ EndIteration(i, b, d, w, ToPeers(b, i))
  BY Zenon DEF HandleRequestVoteResponse
<1> HIDE DEF m, n, d, w
<1>7. v \in NodeState /\ v.term = n.term /\ v.vote = n.vote
  BY <1>3, VotesType
<1> HIDE DEF v
<1>8. b \in NodeState /\ b.term = n.term /\ b.vote = n.vote
  BY <1>7, KeepsBecomeLeader DEF Keeps
<1> HIDE DEF b
<1>9. Onward(node[i].term, node[i].vote, n.term, n.vote)
  BY <1>1, <1>3, <1>4, NodeFacts DEF Onward, StateType
<1>10. ToPeers(b, i) \in Outbox /\ Silence \in Outbox
  BY <1>8, ToPeersType, SilenceType
<1>11. CASE EndIteration(i, n, d, w, Silence)
  BY SMT, <1>1, <1>3, <1>4, <1>5, <1>9, <1>10, <1>11, IterationVotes
<1>12. CASE EndIteration(i, v, d, w, Silence)
  BY SMT, <1>1, <1>3, <1>4, <1>5, <1>7, <1>9, <1>10, <1>12, IterationVotes
<1>13. CASE EndIteration(i, b, d, w, ToPeers(b, i))
  BY SMT, <1>1, <1>3, <1>4, <1>5, <1>8, <1>9, <1>10, <1>13, IterationVotes
<1> QED
  BY <1>6, <1>11, <1>12, <1>13

LEMMA OtherMessagesVotes ==
  ASSUME TypeOK, VoteInv, NEW i \in Server, NEW j \in Server, NEW k,
         \/ HandleAppendEntries(i, j, k) \/ HandleAppendEntriesResponse(i, j, k)
         \/ HandleInstallSnapshot(i, j, k) \/ HandleInstallSnapshotResponse(i, j, k)
  PROVE  VoteStep(i)
<1> DEFINE m == net[j][i][k]
           n == TermUpdate(node[i], m.term)
           d == TermUpdateSaved(disk[i], node[i], m.term)
           w == Without(i, j, k)
<1>1. StateType /\ restarts \in Nat /\ faults \in Nat
  BY TypeSplit DEF HistoryType
<1>2. k \in Deliverable(i, j)
  BY Zenon DEF HandleAppendEntries, HandleAppendEntriesResponse, HandleInstallSnapshot,
     HandleInstallSnapshotResponse, Takes
<1>3. m.term \in Nat /\ n \in NodeState /\ d \in DiskState /\ w \in Net
  BY <1>1, <1>2, Arrival
<1>4. /\ faults = 0 => d.term = n.term /\ d.vote = n.vote
      /\ (n.term > node[i].term /\ n.vote = Nil) \/ n = node[i]
  BY <1>1, <1>3, ArrivalVotes
<1>5. granted' = granted /\ restarts' = restarts /\ faults' = faults
  BY Zenon DEF HandleAppendEntries, HandleAppendEntriesResponse, HandleInstallSnapshot,
     HandleInstallSnapshotResponse
<1>6. Quiet(i, n, d, w)
  BY <1>1, AppendEntriesQuiet, AppendEntriesResponseQuiet, InstallSnapshotQuiet,
     InstallSnapshotResponseQuiet DEF QuietReceive
<1> HIDE DEF m, n, d, w
<1>7. Onward(node[i].term, node[i].vote, n.term, n.vote)
  BY <1>1, <1>3, <1>4, NodeFacts DEF Onward, StateType
<1> QED
  BY <1>1, <1>3, <1>4, <1>5, <1>6, <1>7, QuietVotes

\* A server that stops with d on its disk, no write having failed.
LEMMA RebootVotes ==
  ASSUME TypeOK, NEW i \in Server, NEW d \in DiskState, Reboot(i, d),
         faults = 0 => Onward(node[i].term, node[i].vote, d.term, d.vote)
  PROVE  VoteStep(i)
<1>1. StateType /\ restarts \in Nat /\ faults \in Nat
  BY TypeSplit DEF HistoryType
<1>2. Only(i) /\ disk'[i] = d /\ node'[i].term = d.term /\ node'[i].vote = d.vote
  BY SMT, <1>1, RebootType, BootType
<1>3. restarts' = restarts + 1 /\ faults' = faults /\ granted' = granted
  BY DEF Reboot
<1> QED
  BY SMT, <1>1, <1>2, <1>3 DEF VoteStep

LEMMA LocalCrashVotes ==
  ASSUME TypeOK, VoteInv, NEW i \in Server, Restart(i) \/ CrashInElection(i)
  PROVE  VoteStep(i)
<1>1. StateType /\ disk[i] \in DiskState /\ node[i].term \in Nat /\ node[i].term + 1 \in Nat
  BY SMT, TypeSplit, NodeFacts DEF StateType
<1>2. faults = 0 => disk[i].term = node[i].term /\ disk[i].vote = node[i].vote
  BY DEF VoteInv
<1>3. CASE Restart(i)
  <2>1. faults = 0 => Onward(node[i].term, node[i].vote, disk[i].term, disk[i].vote)
    BY <1>1, <1>2 DEF Onward
  <2> QED
    BY <1>1, <1>3, <2>1, RebootVotes DEF Restart
<1>4. CASE CrashInElection(i)
  <2> DEFINE t == node[i].term + 1
             s == TermSaved(disk[i], t)
             e == VoteSaved(s, i)
  <2>1. t \in Nat /\ t > node[i].term
    BY SMT, <1>1
  <2>2. (Reboot(i, s) \/ Reboot(i, e))
    BY <1>4, Zenon DEF CrashInElection
  <2> HIDE DEF t
  <2>3. s \in DiskState /\ s.term = t
    BY <1>1, <2>1, TermSavedType, Zenon
  <2>4. e \in DiskState /\ e.term = t
    <3> HIDE DEF s
    <3> QED
      BY <2>3, VoteSavedType
  <2> HIDE DEF s, e
  <2>5. Onward(node[i].term, node[i].vote, s.term, s.vote)
        /\ Onward(node[i].term, node[i].vote, e.term, e.vote)
    BY <2>1, <2>3, <2>4 DEF Onward
  <2> QED
    BY <2>2, <2>3, <2>4, <2>5, RebootVotes
<1> QED
  BY <1>3, <1>4

LEMMA HandlerCrashVotes ==
  ASSUME TypeOK, VoteInv, NEW i \in Server, NEW j \in Server, NEW k,
         CrashInTermUpdate(i, j, k) \/ CrashInVote(i, j, k) \/ CrashInInstall(i, j, k)
  PROVE  VoteStep(i)
<1> DEFINE m == net[j][i][k]
           n == TermUpdate(node[i], m.term)
           d == TermUpdateSaved(disk[i], node[i], m.term)
<1>1. StateType /\ disk[i] \in DiskState /\ node[i].term \in Nat
  BY TypeSplit, NodeFacts DEF StateType
<1>2. k \in Deliverable(i, j)
  BY DEF CrashInTermUpdate, CrashInVote, CrashInInstall, Takes
<1>3. m \in Message /\ m.term \in Nat /\ n \in NodeState /\ d \in DiskState
  BY <1>1, <1>2, Arrival
<1>4. /\ faults = 0 => d.term = n.term /\ d.vote = n.vote
      /\ (n.term > node[i].term /\ n.vote = Nil) \/ n = node[i]
  BY <1>1, <1>3, ArrivalVotes
<1>5. CASE CrashInTermUpdate(i, j, k)
  <2> DEFINE s == TermSaved(disk[i], m.term)
             e == VoteSaved(s, Nil)
  <2>1. m.term > node[i].term /\ (Reboot(i, s) \/ Reboot(i, e))
    BY <1>5, Zenon DEF CrashInTermUpdate
  <2> HIDE DEF m
  <2>2. s \in DiskState /\ s.term = m.term
    BY <1>1, <1>3, TermSavedType, Zenon
  <2>3. e \in DiskState /\ e.term = m.term
    <3> HIDE DEF s
    <3> QED
      BY <2>2, VoteSavedType
  <2> HIDE DEF s, e
  <2>4. Onward(node[i].term, node[i].vote, s.term, s.vote)
        /\ Onward(node[i].term, node[i].vote, e.term, e.vote)
    BY <2>1, <2>2, <2>3 DEF Onward
  <2> QED
    BY <2>1, <2>2, <2>3, <2>4, RebootVotes
<1>6. CASE CrashInVote(i, j, k)
  <2> DEFINE e == VoteSaved(d, j)
  <2>1. n.vote \in {Nil, j} /\ Reboot(i, e)
    BY <1>6, Zenon DEF CrashInVote, Grants
  <2> HIDE DEF n, d
  <2>2. e \in DiskState /\ e.term = d.term /\ e.vote = j
    BY <1>3, VoteSavedType
  <2> HIDE DEF e
  <2>3. faults = 0 => Onward(node[i].term, node[i].vote, e.term, e.vote)
    BY <1>1, <1>4, <2>1, <2>2 DEF Onward
  <2> QED
    BY <2>1, <2>2, <2>3, RebootVotes
<1>7. CASE CrashInInstall(i, j, k)
  <2> DEFINE e == [d EXCEPT !.bin = m.chunk.image]
  <2>1. m.type = "InstallSnapshot"
    BY <1>7 DEF CrashInInstall, Takes
  <2>2. Reboot(i, e)
    BY <1>7, Zenon DEF CrashInInstall
  <2> HIDE DEF n, d, m
  <2>3. m \in SnapshotChunk
    BY <1>3, <2>1 DEF Message, SnapshotChunk
  <2>4. e \in DiskState /\ e.term = d.term /\ e.vote = d.vote
    BY <1>3, <2>3, ChunkFacts, BinSavedType
  <2> HIDE DEF e
  <2>5. faults = 0 => Onward(node[i].term, node[i].vote, e.term, e.vote)
    BY <1>1, <1>4, <2>4 DEF Onward
  <2> QED
    BY <2>2, <2>4, <2>5, RebootVotes
<1> QED
  BY <1>5, <1>6, <1>7

\* A write fails: the memory moves on, the disk may not.
LEMMA FailVotes ==
  ASSUME TypeOK, NEW i \in Server, NEW n \in NodeState, NEW d \in DiskState, NEW w \in Net, NEW D,
         Fail(i, n, d, w, D), Onward(node[i].term, node[i].vote, n.term, n.vote)
  PROVE  VoteStep(i)
<1>1. StateType /\ restarts \in Nat /\ faults \in Nat
  BY TypeSplit DEF HistoryType
<1>2. faults' = faults + 1 /\ restarts' = restarts /\ granted' = granted
      /\ EndIteration(i, n, d, w, Silence)
  BY DEF Fail
<1>3. faults' # 0 /\ faults =< faults'
  BY SMT, <1>1, <1>2
<1> QED
  BY <1>1, <1>2, <1>3, SilenceType, IterationVotes

LEMMA FailedWriteVotes ==
  ASSUME TypeOK, VoteInv, NEW i \in Server,
         \/ ElectionFails(i)
         \/ \E j \in Server : \E k \in Nat : TermUpdateFails(i, j, k) \/ VoteFails(i, j, k) \/ InstallFails(i, j, k)
  PROVE  VoteStep(i)
<1>1. StateType /\ disk[i] \in DiskState /\ node[i] \in NodeState /\ node[i].term \in Nat
      /\ node[i].term + 1 \in Nat /\ net \in Net
  BY SMT, TypeSplit, NodeFacts DEF StateType
<1>2. CASE ElectionFails(i)
  <2> DEFINE n == Campaign(node[i], i)
             s == TermSaved(disk[i], node[i].term + 1)
  <2>1. Fail(i, n, disk[i], net, {}) \/ Fail(i, n, s, net, {})
    BY <1>2, Zenon DEF ElectionFails
  <2>2. n \in NodeState /\ n.term = node[i].term + 1
    BY <1>1, CampaignType
  <2>3. s \in DiskState
    BY <1>1, TermSavedType, Zenon
  <2> HIDE DEF n, s
  <2>4. Onward(node[i].term, node[i].vote, n.term, n.vote)
    BY SMT, <1>1, <2>2 DEF Onward
  <2> QED
    BY <1>1, <2>1, <2>2, <2>3, <2>4, FailVotes
<1>3. ASSUME NEW j \in Server, NEW k \in Nat,
             TermUpdateFails(i, j, k) \/ VoteFails(i, j, k) \/ InstallFails(i, j, k)
      PROVE  VoteStep(i)
  <2> DEFINE m == net[j][i][k]
             n == TermUpdate(node[i], m.term)
             d == TermUpdateSaved(disk[i], node[i], m.term)
             w == Without(i, j, k)
  <2>1. k \in Deliverable(i, j)
    BY <1>3 DEF TermUpdateFails, VoteFails, InstallFails, Takes
  <2>2. m.term \in Nat /\ n \in NodeState /\ d \in DiskState /\ w \in Net /\ n.term \in Nat
    BY <1>1, <2>1, Arrival, NodeFacts
  <2>3. (n.term > node[i].term /\ n.vote = Nil) \/ n = node[i]
    BY <1>1, <2>2, ArrivalVotes
  <2>4. CASE TermUpdateFails(i, j, k)
    <3> DEFINE s == TermSaved(disk[i], m.term)
    <3>1. Fail(i, n, disk[i], w, {}) \/ Fail(i, n, s, w, {})
      BY <2>4, Zenon DEF TermUpdateFails
    <3> HIDE DEF n, w
    <3>2. s \in DiskState
      BY <1>1, <2>2, TermSavedType, Zenon
    <3> HIDE DEF s
    <3>3. Onward(node[i].term, node[i].vote, n.term, n.vote)
      BY <1>1, <2>2, <2>3 DEF Onward
    <3> QED
      BY <1>1, <2>2, <3>1, <3>2, <3>3, FailVotes
  <2>5. CASE VoteFails(i, j, k)
    <3> DEFINE v == [n EXCEPT !.vote = j]
    <3>1. n.vote \in {Nil, j} /\ Fail(i, v, d, w, {})
      BY <2>5, Zenon DEF VoteFails, Grants
    <3> HIDE DEF n, d, w
    <3>2. v \in NodeState /\ v.term = n.term /\ v.vote = j
      BY <2>2, VoteType
    <3> HIDE DEF v
    <3>3. Onward(node[i].term, node[i].vote, v.term, v.vote)
      BY <1>1, <2>2, <2>3, <3>1, <3>2 DEF Onward
    <3> QED
      BY <2>2, <3>1, <3>2, <3>3, FailVotes
  <2>6. CASE InstallFails(i, j, k)
    <3> DEFINE v == Unindexed(Follow(n, j), m)
    <3>1. PICK e \in DiskState, D \in SUBSET Departures : FailedInstall(i, j, k, e) /\ Fail(i, v, e, w, D)
      BY <1>1, <2>1, <2>6, InstallFailsAt, Zenon
    <3>2. Keeps(n, v)
      BY <3>1, Zenon DEF FailedInstall
    <3> HIDE DEF n, w, v
    <3>3. v \in NodeState /\ v.term = n.term /\ v.vote = n.vote
      BY <3>2 DEF Keeps
    <3>4. Onward(node[i].term, node[i].vote, v.term, v.vote)
      BY <1>1, <2>2, <2>3, <3>3 DEF Onward
    <3> QED
      BY <2>2, <3>1, <3>3, <3>4, FailVotes
  <2> QED
    BY <1>3, <2>4, <2>5, <2>6
<1> QED
  BY <1>2, <1>3

LEMMA NextVotes ==
  ASSUME TypeOK, VoteInv, Next
  PROVE  \E i \in Server : VoteStep(i)
<1>1. PICK i \in Server :
        \/ StartElection(i)
        \/ HeartbeatTick(i)
        \/ \E c \in Proposes[i] : ClientRequest(i, c)
        \/ \E c \in Changes, noop \in Proposes[i] : ProposeMembershipChange(i, c, noop)
        \/ Restart(i) \/ CrashInElection(i) \/ ElectionFails(i)
        \/ \E j \in Server \ {i} :
              \/ Lose(i, j)
              \/ \E k \in Deliverable(i, j) : Receive(i, j, k) \/ Disturb(i, j, k)
  BY Zenon DEF Next
<1>2. CASE StartElection(i)
  BY <1>2, StartElectionVotes
<1>3. CASE \/ HeartbeatTick(i)
           \/ \E c \in Proposes[i] : ClientRequest(i, c)
           \/ \E c \in Changes, noop \in Proposes[i] : ProposeMembershipChange(i, c, noop)
  BY <1>3, LocalVotes
<1>4. CASE Restart(i) \/ CrashInElection(i)
  BY <1>4, LocalCrashVotes
<1>5. CASE ElectionFails(i)
  BY <1>5, FailedWriteVotes
<1>6. ASSUME NEW j \in Server, Lose(i, j) PROVE VoteStep(i)
  <2>1. restarts \in Nat /\ faults \in Nat /\ node[i].term \in Nat
    BY NodeFacts DEF TypeOK
  <2>2. UNCHANGED <<node, disk, granted, restarts, faults>>
    BY <1>6 DEF Lose
  <2>3. Only(i)
    BY <2>2 DEF Only
  <2>4. Onward(node[i].term, node[i].vote, node'[i].term, node'[i].vote)
    BY <2>2 DEF Onward
  <2> QED
    BY SMT, <2>1, <2>2, <2>3, <2>4 DEF VoteStep, VoteInv
<1>7. ASSUME NEW j \in Server, NEW k \in Deliverable(i, j), Receive(i, j, k) PROVE VoteStep(i)
  BY <1>7, RequestVoteVotes, RequestVoteResponseVotes, OtherMessagesVotes DEF Receive
<1>8. ASSUME NEW j \in Server, NEW k \in Deliverable(i, j), Disturb(i, j, k) PROVE VoteStep(i)
  <2>1. k \in Nat
    BY SMT, DeliverableIndex, TypeSplit DEF StateType
  <2> QED
    BY <1>8, <2>1, HandlerCrashVotes, FailedWriteVotes DEF Disturb
<1> QED
  BY <1>1, <1>2, <1>3, <1>4, <1>5, <1>6, <1>7, <1>8

LEMMA InitVotes == Init => VoteInv
<1>1. NewDisk \in DiskState /\ NewDisk.term = 0 /\ NewDisk.vote = Nil
  BY DEF NewDisk, DiskState
<1> QED
  BY SMT, <1>1, BootType DEF Init, VoteInv, VoteOnce, NoDoubleVote

LEMMA StutterVotes ==
  ASSUME VoteInv, UNCHANGED vars
  PROVE  VoteInv'
  BY DEF VoteInv, VoteOnce, NoDoubleVote, vars

LEMMA VoteInvariant == Spec => []VoteInv
<1>1. Init => VoteInv
  BY InitVotes
<1>2. TypeOK /\ TypeOK' /\ VoteInv /\ [Next]_vars => VoteInv'
  <2>1. TypeOK /\ TypeOK' /\ VoteInv /\ Next => VoteInv'
    BY NextVotes, VoteStepInv
  <2>2. VoteInv /\ UNCHANGED vars => VoteInv'
    BY StutterVotes
  <2> QED
    BY <2>1, <2>2
<1> QED
  BY <1>1, <1>2, TypeCorrect, PTL DEF Spec

\* In a cluster of any size, with any configuration of peers, whatever messages
\* are lost, overtaken or answered late: a server never votes for two candidates
\* in a term, although it may crash between any two of the writes of
\* handle_term_update, start_election and handle_request_vote, or a write may
\* fail, as long as not both happen.
THEOREM VotesOnce == Spec => []VoteOnce
<1>1. VoteInv => VoteOnce
  BY DEF VoteInv
<1> QED
  BY <1>1, VoteInvariant, PTL

LEMMA TermsOnward ==
  ASSUME TypeOK, TypeOK', VoteInv, Next, faults' = 0 \/ restarts' = 0, NEW j \in Server
  PROVE  node'[j].term >= node[j].term
<1>1. PICK i \in Server : VoteStep(i)
  BY NextVotes
<1>2. node[j].term \in Nat /\ node'[j].term \in Nat
  BY NodeFacts DEF TypeOK
<1> QED
  BY SMT, <1>1, <1>2 DEF VoteStep, Only, Onward

\* A server's term never goes back, a crash between save_term and save_voted_for
\* and the restart after it included, as long as no write has failed.
THEOREM TermsNeverGoBack == Spec => TermNeverDecreases
<1>1. TypeOK /\ TypeOK' /\ VoteInv /\ [Next]_vars =>
        [faults' = 0 => \A i \in Server : node'[i].term >= node[i].term]_vars
  BY TermsOnward
<1> QED
  BY <1>1, TypeCorrect, VoteInvariant, PTL DEF Spec, TermNeverDecreases

-----------------------------------------------------------------------------
(* Elections                                                               *)

Vote(v, t, c) == [voter |-> v, term |-> t, candidate |-> c]

\* The servers that gave candidate c their vote in term t, by the history G.
Voters(G, t, c) == {v \in Server : Vote(v, t, c) \in G}

\* What p may send to q: a request by a candidate that voted for itself, and a
\* granted vote that is in the history.
Honest(G, p, q) ==
    {m \in Message :
        /\ m.type = "RequestVote" => Vote(p, m.term, p) \in G
        /\ m.type = "RequestVoteResponse" => (m.granted => Vote(p, m.term, q) \in G)}

HonestNet(G, w) == \A p, q \in Server : w[p][q] \in Seq(Honest(G, p, q))

Counted(G, i, n) == n.state = "Candidate" => n.votes \ {i} \subseteq Voters(G, n.term, i)

\* Nobody votes for a server that did not stand.
Stood(G) == \A g \in G : Vote(g.candidate, g.term, g.candidate) \in G

\* The votes that made e.leader the leader are a majority and in the history.
Backed(G, e) == HasQuorum(e.leader, e.votes) /\ e.votes \subseteq Voters(G, e.term, e.leader)

ElectionInv ==
    /\ HonestNet(granted, net)
    /\ Stood(granted)
    /\ "stale vote" \notin odd =>
          /\ \A i \in Server : Counted(granted, i, node[i])
          /\ \A e \in elected : Backed(granted, e)

ElectionStep(i) ==
    /\ Only(i)
    /\ granted \subseteq granted'
    /\ Stood(granted')
    /\ odd \subseteq odd'
    /\ HonestNet(granted', net')
    /\ "stale vote" \notin odd' =>
          /\ Counted(granted', i, node'[i])
          /\ \A e \in elected' \ elected : Backed(granted', e)

-----------------------------------------------------------------------------
(* Sequences of messages                                                   *)

LEMMA SeqGrows ==
  ASSUME NEW S, NEW T, S \subseteq T, NEW s \in Seq(S)
  PROVE  s \in Seq(T)
<1>1. Len(s) \in Nat /\ s \in [1..Len(s) -> S]
  BY LenProperties
<1>2. s \in [1..Len(s) -> T]
  BY <1>1
<1> QED
  BY <1>1, <1>2, ListLen

LEMMA HonestGrows ==
  ASSUME NEW G, NEW H, G \subseteq H, NEW p, NEW q
  PROVE  Honest(G, p, q) \subseteq Honest(H, p, q)
  BY DEF Honest

LEMMA HonestNetGrows ==
  ASSUME NEW G, NEW H, G \subseteq H, NEW w, HonestNet(G, w)
  PROVE  HonestNet(H, w)
  BY HonestGrows, SeqGrows DEF HonestNet

LEMMA HonestSends ==
  ASSUME NEW G, NEW w \in Net, HonestNet(G, w), NEW i \in Server, NEW out \in Outbox, NEW to,
         \A p \in Server : out[p] \in Seq(Honest(G, i, p))
  PROVE  HonestNet(G, Sends(w, i, out, to))
<1> SUFFICES ASSUME NEW p \in Server, NEW q \in Server
             PROVE  Sends(w, i, out, to)[p][q] \in Seq(Honest(G, p, q))
  BY DEF HonestNet
<1>1. w[p][q] \in Seq(Honest(G, p, q))
  BY DEF HonestNet
<1>2. CASE p = i
  <2>1. Sends(w, i, out, to)[p][q] = IF q \in to THEN w[i][q] \o out[q] ELSE w[i][q]
    BY <1>2 DEF Sends, Net
  <2>2. w[i][q] \o out[q] \in Seq(Honest(G, i, q))
    BY <1>1, <1>2, ConcatProperties
  <2> QED
    BY <1>1, <1>2, <2>1, <2>2
<1>3. CASE p # i
  <2>1. Sends(w, i, out, to)[p] = w[p]
    BY <1>3 DEF Sends, Net
  <2> QED
    BY <1>1, <2>1
<1> QED
  BY <1>2, <1>3

LEMMA HonestWithout ==
  ASSUME NEW G, net \in Net, HonestNet(G, net), NEW i \in Server, NEW j \in Server,
         NEW k \in Deliverable(i, j)
  PROVE  HonestNet(G, Without(i, j, k))
<1> DEFINE s == net[j][i]
           rest == SubSeq(s, 1, k - 1) \o SubSeq(s, k + 1, Len(s))
<1>1. s \in Seq(Honest(G, j, i)) /\ k \in 1..Len(s)
  BY DeliverableIndex DEF HonestNet
<1>2. rest \in Seq(Honest(G, j, i))
  <2> HIDE DEF s
  <2> QED
    BY <1>1, WithoutOne
<1>3. Without(i, j, k) = [net EXCEPT ![j] = [net[j] EXCEPT ![i] = rest]]
  BY Zenon DEF Without, Net, Outbox
<1>4. \A p, q \in Server :
        Without(i, j, k)[p][q] = IF p = j /\ q = i THEN rest ELSE net[p][q]
  <2> HIDE DEF rest
  <2> QED
    BY SMT, <1>3 DEF Net, Outbox
<1> HIDE DEF rest
<1> QED
  BY <1>2, <1>4 DEF HonestNet

LEMMA HonestNoVotes ==
  ASSUME NEW G, NEW i \in Server, NEW out \in Outbox, NoVotes(out), NEW p \in Server
  PROVE  out[p] \in Seq(Honest(G, i, p))
<1>1. out[p] \in Seq(Message) /\ Len(out[p]) \in Nat
  BY LenProperties DEF Outbox
<1>2. \A q \in 1..Len(out[p]) : out[p][q] \in Honest(G, i, p)
  <2> SUFFICES ASSUME NEW q \in 1..Len(out[p]) PROVE out[p][q] \in Honest(G, i, p)
    OBVIOUS
  <2>1. out[p][q] \in Message
    BY <1>1, ElementOfSeq
  <2> QED
    BY <2>1 DEF NoVotes, Honest
<1>3. out[p] \in [1..Len(out[p]) -> Honest(G, i, p)]
  BY <1>1, <1>2, LenProperties
<1> QED
  BY <1>1, <1>3, ListLen

LEMMA HonestReply ==
  ASSUME NEW G, NEW i \in Server, NEW j \in Server, NEW m \in Honest(G, i, j), NEW p \in Server
  PROVE  Reply(j, m)[p] \in Seq(Honest(G, i, p))
<1>1. <<m>> \in Seq(Honest(G, i, j)) /\ <<>> \in Seq(Honest(G, i, p))
  BY SMT, EmptySeq
<1> QED
  BY <1>1 DEF Reply

LEMMA HonestRequests ==
  ASSUME NEW G, NEW i \in Server, NEW n \in NodeState, Vote(i, n.term, i) \in G, NEW p \in Server
  PROVE  VoteRequests(n, i)[p] \in Seq(Honest(G, i, p))
<1> DEFINE m == [type |-> "RequestVote", term |-> n.term,
                 lastIndex |-> LastIndex(n.log), lastTerm |-> LastTerm(n.log)]
<1>1. m \in Message
  BY NodeFacts, LogFacts DEF Message
<1>2. m \in Honest(G, i, p)
  BY <1>1 DEF Honest
<1>3. VoteRequests(n, i)[p] = IF p \in Peers[i] THEN <<m>> ELSE <<>>
  BY DEF VoteRequests
<1> HIDE DEF m
<1>4. <<m>> \in Seq(Honest(G, i, p)) /\ <<>> \in Seq(Honest(G, i, p))
  BY SMT, <1>2, EmptySeq
<1> QED
  BY <1>3, <1>4

LEMMA ElectionStepInv ==
  ASSUME TypeOK, TypeOK', ElectionInv, NEW i \in Server, ElectionStep(i)
  PROVE  ElectionInv'
<1>1. HonestNet(granted', net') /\ Stood(granted')
  BY Zenon DEF ElectionStep
<1>2. ASSUME "stale vote" \notin odd'
      PROVE  /\ \A j \in Server : Counted(granted', j, node'[j])
             /\ \A e \in elected' : Backed(granted', e)
  <2>1. "stale vote" \notin odd
    BY <1>2, Zenon DEF ElectionStep
  <2>2. \A t, c : Voters(granted, t, c) \subseteq Voters(granted', t, c)
    BY Zenon DEF ElectionStep, Voters
  <2>3. ASSUME NEW j \in Server PROVE Counted(granted', j, node'[j])
    <3>1. CASE j = i
      BY <1>2, <3>1, Zenon DEF ElectionStep
    <3>2. CASE j # i
      <4>1. node'[j] = node[j] /\ Counted(granted, j, node[j])
        BY <2>1, <3>2, Zenon DEF ElectionStep, Only, ElectionInv
      <4> QED
        BY <2>2, <4>1 DEF Counted
    <3> QED
      BY <3>1, <3>2
  <2>4. ASSUME NEW e \in elected' PROVE Backed(granted', e)
    <3>1. CASE e \in elected
      BY <2>1, <2>2, <3>1, Zenon DEF ElectionInv, Backed
    <3>2. CASE e \notin elected
      BY <1>2, <3>2, Zenon DEF ElectionStep
    <3> QED
      BY <3>1, <3>2
  <2> QED
    BY <2>3, <2>4
<1> QED
  BY <1>1, <1>2, Zenon DEF ElectionInv

-----------------------------------------------------------------------------
(* The steps                                                               *)

LEMMA StoodGrows ==
  ASSUME NEW G, NEW H, NEW v, NEW t, NEW c, Stood(G), H = G \cup {Vote(v, t, c)}, Vote(c, t, c) \in H
  PROVE  Stood(H)
<1> SUFFICES ASSUME NEW g \in H PROVE Vote(g.candidate, g.term, g.candidate) \in H
  BY DEF Stood
<1>1. CASE g \in G
  BY <1>1 DEF Stood
<1>2. CASE g = Vote(v, t, c)
  <2>1. g.candidate = c /\ g.term = t
    BY <1>2 DEF Vote
  <2> QED
    BY <2>1
<1> QED
  BY <1>1, <1>2

LEMMA IterationElection ==
  ASSUME StateType, NEW i \in Server, NEW n \in NodeState, NEW d \in DiskState, NEW w \in Net,
         NEW out \in Outbox, EndIteration(i, n, d, w, out),
         granted \subseteq granted', Stood(granted'), odd \subseteq odd',
         HonestNet(granted, w), \A p \in Server : out[p] \in Seq(Honest(granted', i, p)),
         "stale vote" \notin odd' =>
            /\ Counted(granted', i, n)
            /\ \A e \in elected' \ elected : Backed(granted', e)
  PROVE  ElectionStep(i)
<1>1. Only(i) /\ Keeps(n, node'[i])
  BY EndIterationType, Zenon
<1>2. PICK to : net' = Sends(w, i, out, to)
  BY EndIterationType, Zenon
<1>3. HonestNet(granted', net')
  BY <1>2, HonestNetGrows, HonestSends, Zenon
<1>4. Counted(granted', i, n) => Counted(granted', i, node'[i])
  BY <1>1, Zenon DEF Counted, Keeps
<1> QED
  BY <1>1, <1>3, <1>4, Zenon DEF ElectionStep

LEMMA QuietElection ==
  ASSUME StateType, ElectionInv, NEW i \in Server, NEW n0, NEW d0, NEW w \in Net,
         Quiet(i, n0, d0, w), HonestNet(granted, w),
         granted' = granted, elected' = elected, odd \subseteq odd',
         n0.state = "Follower" \/ n0 = node[i]
  PROVE  ElectionStep(i)
<1>1. PICK n \in NodeState, d \in DiskState, out \in Outbox :
        Keeps(n0, n) /\ NoVotes(out) /\ EndIteration(i, n, d, w, out)
  BY DEF Quiet
<1>2. \A p \in Server : out[p] \in Seq(Honest(granted', i, p))
  BY <1>1, HonestNoVotes
<1>3. "stale vote" \notin odd' => Counted(granted', i, n)
  BY <1>1, Zenon DEF Counted, Keeps, ElectionInv
<1>4. Stood(granted')
  BY Zenon DEF ElectionInv
<1> QED
  BY <1>1, <1>2, <1>3, <1>4, IterationElection, Zenon

\* A message taken off the network, and what its term makes of the server.
LEMMA ArrivalElection ==
  ASSUME StateType, ElectionInv, NEW i \in Server, NEW j \in Server, NEW k \in Deliverable(i, j)
  PROVE  /\ net[j][i][k] \in Honest(granted, j, i)
         /\ HonestNet(granted, Without(i, j, k))
         /\ LET n == TermUpdate(node[i], net[j][i][k].term)
            IN  /\ n.state = "Follower" \/ n = node[i]
                /\ net[j][i][k].term =< n.term
<1> DEFINE m == net[j][i][k]
           n == TermUpdate(node[i], m.term)
<1>1. net \in Net /\ node[i] \in NodeState /\ node[i].term \in Nat
  BY NodeFacts DEF StateType
<1>2. k \in 1..Len(net[j][i]) /\ m.term \in Nat
  BY <1>1, DeliverableIndex
<1>3. net[j][i] \in Seq(Honest(granted, j, i))
  BY Zenon DEF ElectionInv, HonestNet
<1>4. m \in Honest(granted, j, i)
  BY <1>2, <1>3, ElementOfSeq
<1>5. HonestNet(granted, Without(i, j, k))
  BY <1>1, HonestWithout, Zenon DEF ElectionInv
<1>6. /\ m.term > node[i].term => n.term = m.term /\ n.state = "Follower"
      /\ ~(m.term > node[i].term) => n = node[i]
  BY <1>1, <1>2, TermUpdateType
<1> HIDE DEF m, n
<1>7. (n.state = "Follower" \/ n = node[i]) /\ m.term =< n.term
  BY SMT, <1>1, <1>2, <1>6
<1> QED
  BY <1>4, <1>5, <1>7 DEF m, n

LEMMA LocalElection ==
  ASSUME TypeOK, ElectionInv, NEW i \in Server,
         \/ HeartbeatTick(i)
         \/ \E c \in Proposes[i] : ClientRequest(i, c)
         \/ \E c \in Changes, noop \in Proposes[i] : ProposeMembershipChange(i, c, noop)
  PROVE  ElectionStep(i)
<1>1. StateType /\ net \in Net
  BY TypeSplit DEF StateType
<1>2. Quiet(i, node[i], disk[i], net)
  BY <1>1, HeartbeatQuiet, ClientRequestQuiet, MembershipQuiet
<1>3. granted' = granted /\ elected' = elected /\ odd' = odd
  BY Zenon DEF HeartbeatTick, ClientRequest, ProposeMembershipChange
<1>4. HonestNet(granted, net)
  BY Zenon DEF ElectionInv
<1> QED
  BY <1>1, <1>2, <1>3, <1>4, QuietElection

LEMMA StartElectionElection ==
  ASSUME TypeOK, ElectionInv, NEW i \in Server, StartElection(i)
  PROVE  ElectionStep(i)
<1> DEFINE n == Campaign(node[i], i)
           d == VoteSaved(TermSaved(disk[i], n.term), i)
           b == BecomeLeader(n, i)
<1>1. StateType /\ node[i] \in NodeState /\ disk[i] \in DiskState /\ net \in Net
  BY TypeSplit DEF StateType
<1>2. n \in NodeState /\ n.votes = {i} /\ n.term \in Nat
  BY <1>1, CampaignType, NodeFacts
<1>3. d \in DiskState
  <2> HIDE DEF n
  <2>1. TermSaved(disk[i], n.term) \in DiskState
    BY <1>1, <1>2, TermSavedType
  <2> QED
    BY <2>1, VoteSavedType
<1>4. Keeps(n, b) /\ b \in NodeState
  <2> HIDE DEF n
  <2> QED
    BY <1>2, KeepsBecomeLeader DEF Keeps
<1>5. /\ granted' = granted \cup {Vote(i, n.term, i)}
      /\ odd' = odd
      /\ \/ /\ HasQuorum(i, {i})
            /\ EndIteration(i, b, d, net, ToPeers(b, i))
            /\ elected' = elected \cup {Election(n, i)}
         \/ /\ EndIteration(i, n, d, net, VoteRequests(n, i))
            /\ elected' = elected
  BY DEF StartElection, Vote
<1> HIDE DEF n, d, b
<1>6. granted \subseteq granted' /\ Vote(i, n.term, i) \in granted'
  BY <1>5
<1>7. Stood(granted')
  BY <1>5, <1>6, StoodGrows, Zenon DEF ElectionInv
<1>8. Counted(granted', i, n) /\ Counted(granted', i, b)
  BY <1>2, <1>4 DEF Counted, Keeps
<1>9. HonestNet(granted, net)
  BY Zenon DEF ElectionInv
<1>10. CASE /\ HasQuorum(i, {i})
            /\ EndIteration(i, b, d, net, ToPeers(b, i))
            /\ elected' = elected \cup {Election(n, i)}
  <2>1. {i} \subseteq Voters(granted', n.term, i)
    BY <1>6 DEF Voters
  <2>3. \A e \in elected' \ elected : Backed(granted', e)
    BY SMT, <1>2, <1>10, <2>1 DEF Election, Backed
  <2>4. ToPeers(b, i) \in Outbox /\ NoVotes(ToPeers(b, i))
    BY <1>4, ToPeersType, NoVotesToPeers
  <2> DEFINE out == ToPeers(b, i)
  <2>5. out \in Outbox /\ EndIteration(i, b, d, net, out)
        /\ \A p \in Server : out[p] \in Seq(Honest(granted', i, p))
    BY <1>10, <2>4, HonestNoVotes
  <2> HIDE DEF out
  <2> QED
    BY <1>1, <1>3, <1>4, <1>5, <1>6, <1>7, <1>8, <1>9, <2>3, <2>5, IterationElection, Zenon
<1>11. CASE /\ EndIteration(i, n, d, net, VoteRequests(n, i))
            /\ elected' = elected
  <2> DEFINE out == VoteRequests(n, i)
  <2>1. out \in Outbox /\ EndIteration(i, n, d, net, out)
        /\ \A p \in Server : out[p] \in Seq(Honest(granted', i, p))
    BY <1>2, <1>6, <1>11, VoteRequestsType, HonestRequests
  <2> HIDE DEF out
  <2> QED
    BY <1>1, <1>2, <1>3, <1>5, <1>6, <1>7, <1>8, <1>9, <1>11, <2>1, IterationElection, Zenon
<1> QED
  BY <1>5, <1>10, <1>11

LEMMA RequestVoteElection ==
  ASSUME TypeOK, ElectionInv, NEW i \in Server, NEW j \in Server, NEW k, HandleRequestVote(i, j, k)
  PROVE  ElectionStep(i)
<1> DEFINE m == net[j][i][k]
           n == TermUpdate(node[i], m.term)
           d == TermUpdateSaved(disk[i], node[i], m.term)
           w == Without(i, j, k)
           v == [n EXCEPT !.vote = j]
<1>1. StateType
  BY TypeSplit
<1>2. k \in Deliverable(i, j) /\ m.type = "RequestVote"
  BY DEF HandleRequestVote, Takes
<1>3. m.term \in Nat /\ n \in NodeState /\ d \in DiskState /\ w \in Net
  BY <1>1, <1>2, Arrival
<1>4. m \in Honest(granted, j, i) /\ HonestNet(granted, w)
      /\ (n.state = "Follower" \/ n = node[i]) /\ m.term =< n.term
  BY <1>1, <1>2, ArrivalElection
<1>5. elected' = elected /\ odd' = odd
  BY Zenon DEF HandleRequestVote
<1>6. \/ /\ m.term >= n.term
         /\ granted' = granted \cup {Vote(i, n.term, j)}
         /\ EndIteration(i, v, VoteSaved(d, j), w, Reply(j, VoteReply(v, TRUE)))
      \/ /\ granted' = granted
         /\ EndIteration(i, n, d, w, Reply(j, VoteReply(n, FALSE)))
  BY Zenon DEF HandleRequestVote, Grants, Vote
<1> HIDE DEF m, n, d, w
<1>7. v \in NodeState /\ v.term = n.term /\ v.state = n.state /\ v.votes = n.votes
  BY <1>3, VoteType
<1> HIDE DEF v
<1>8. "stale vote" \notin odd' => Counted(granted, i, n)
  BY <1>4, <1>5, Zenon DEF Counted, ElectionInv
<1>9. n.term \in Nat
  BY <1>3, NodeFacts
<1>10. CASE /\ m.term >= n.term
            /\ granted' = granted \cup {Vote(i, n.term, j)}
            /\ EndIteration(i, v, VoteSaved(d, j), w, Reply(j, VoteReply(v, TRUE)))
  <2>1. m.term = n.term
    <3>1. m.term \in Nat /\ n.term \in Nat /\ m.term =< n.term /\ m.term >= n.term
      BY <1>3, <1>4, <1>9, <1>10, Zenon
    <3> QED
      BY SMT, <3>1
  <2>2. Vote(j, n.term, j) \in granted
    BY <1>2, <1>4, <2>1 DEF Honest
  <2>3. Stood(granted')
    <3>1. Vote(j, n.term, j) \in granted'
      BY <1>10, <2>2
    <3> QED
      BY <1>10, <3>1, StoodGrows, Zenon DEF ElectionInv
  <2> DEFINE e == VoteSaved(d, j)
             r == VoteReply(v, TRUE)
             out == Reply(j, r)
  <2>4. e \in DiskState
    BY <1>3, VoteSavedType
  <2>5. r \in Message
    BY <1>7, RepliesType, Zenon
  <2>6. r \in Honest(granted', i, j)
    BY <1>7, <1>10, <2>5 DEF Honest, VoteReply
  <2>7. out \in Outbox /\ \A p \in Server : out[p] \in Seq(Honest(granted', i, p))
    <3> HIDE DEF r
    <3> QED
      BY <2>5, <2>6, ReplyType, HonestReply
  <2>8. "stale vote" \notin odd' => Counted(granted', i, v)
    BY <1>7, <1>8, <1>10, Zenon DEF Counted, Voters
  <2>9. EndIteration(i, v, e, w, out) /\ granted \subseteq granted' /\ odd \subseteq odd'
        /\ elected' \ elected = {}
    BY <1>5, <1>10, Zenon
  <2> HIDE DEF e, out
  <2> QED
    BY <1>1, <1>3, <1>4, <1>7, <2>3, <2>4, <2>7, <2>8, <2>9, IterationElection, Zenon
<1>11. CASE /\ granted' = granted
            /\ EndIteration(i, n, d, w, Reply(j, VoteReply(n, FALSE)))
  <2> DEFINE r == VoteReply(n, FALSE)
             out == Reply(j, r)
  <2>1. r \in Message
    BY <1>3, RepliesType, Zenon
  <2>2. r \in Honest(granted', i, j)
    BY <2>1 DEF Honest, VoteReply
  <2>3. out \in Outbox /\ \A p \in Server : out[p] \in Seq(Honest(granted', i, p))
    <3> HIDE DEF r
    <3> QED
      BY <2>1, <2>2, ReplyType, HonestReply
  <2>4. EndIteration(i, n, d, w, out) /\ granted \subseteq granted' /\ odd \subseteq odd'
        /\ elected' \ elected = {} /\ Stood(granted')
    BY <1>5, <1>11, Zenon DEF ElectionInv
  <2>5. "stale vote" \notin odd' => Counted(granted', i, n)
    BY <1>8, <1>11, Zenon
  <2> HIDE DEF out
  <2> QED
    BY <1>1, <1>3, <1>4, <2>3, <2>4, <2>5, IterationElection, Zenon
<1> QED
  BY <1>6, <1>10, <1>11, Zenon

LEMMA RequestVoteResponseElection ==
  ASSUME TypeOK, ElectionInv, NEW i \in Server, NEW j \in Server, NEW k,
         HandleRequestVoteResponse(i, j, k)
  PROVE  ElectionStep(i)
<1> DEFINE m == net[j][i][k]
           n == TermUpdate(node[i], m.term)
           d == TermUpdateSaved(disk[i], node[i], m.term)
           w == Without(i, j, k)
           v == [n EXCEPT !.votes = @ \cup {j}]
           b == BecomeLeader(v, i)
           W == Voters(granted, n.term, i)
<1>1. StateType
  BY TypeSplit
<1>2. k \in Deliverable(i, j) /\ m.type = "RequestVoteResponse"
  BY Zenon DEF HandleRequestVoteResponse, Takes
<1>3. m.term \in Nat /\ n \in NodeState /\ d \in DiskState /\ w \in Net
  BY <1>1, <1>2, Arrival
<1>4. m \in Honest(granted, j, i) /\ HonestNet(granted, w)
      /\ (n.state = "Follower" \/ n = node[i])
  BY <1>1, <1>2, ArrivalElection
<1>5. granted' = granted
  BY Zenon DEF HandleRequestVoteResponse
<1>6. \/ /\ EndIteration(i, n, d, w, Silence)
         /\ elected' = elected /\ odd' = odd
      \/ /\ n.state = "Candidate" /\ m.granted
         /\ EndIteration(i, v, d, w, Silence)
         /\ odd' = odd \cup (IF m.term = n.term THEN {} ELSE {"stale vote"})
         /\ elected' = elected
      \/ /\ n.state = "Candidate" /\ m.granted
         /\ HasQuorum(i, v.votes)
         /\ EndIteration(i, b, d, w, ToPeers(b, i))
         /\ odd' = odd \cup (IF m.term = n.term THEN {} ELSE {"stale vote"})
         /\ elected' = elected \cup {Election(v, i)}
  BY Zenon DEF HandleRequestVoteResponse
<1> HIDE DEF m, n, d, w
<1>7. v \in NodeState /\ v.term = n.term /\ v.state = n.state /\ v.votes = n.votes \cup {j}
  BY <1>3, VotesType
<1> HIDE DEF v
<1>8. b \in NodeState /\ Keeps(v, b)
  BY <1>7, KeepsBecomeLeader DEF Keeps
<1> HIDE DEF b
<1>9. "stale vote" \notin odd => Counted(granted, i, n)
  BY <1>4, Zenon DEF Counted, ElectionInv
<1>10. Stood(granted') /\ granted \subseteq granted'
  BY <1>5, Zenon DEF ElectionInv
<1>11. ASSUME n.state = "Candidate", m.granted, m.term = n.term, "stale vote" \notin odd
       PROVE  v.votes \subseteq W
  <2>1. Vote(j, n.term, i) \in granted
    BY <1>2, <1>4, <1>11, Zenon DEF Honest
  <2>2. Vote(i, n.term, i) \in granted
    BY <2>1, Zenon DEF ElectionInv, Stood, Vote
  <2>3. n.votes \ {i} \subseteq W
    BY <1>9, <1>11, Zenon DEF Counted
  <2>4. i \in W /\ j \in W
    BY <2>1, <2>2 DEF Voters
  <2> QED
    BY <1>7, <2>3, <2>4
<1>12. CASE /\ EndIteration(i, n, d, w, Silence)
            /\ elected' = elected /\ odd' = odd
  <2>1. \A p \in Server : Silence[p] \in Seq(Honest(granted', i, p))
    BY SilenceType, NoVotesSilence, HonestNoVotes
  <2> QED
    BY <1>1, <1>3, <1>4, <1>5, <1>9, <1>10, <1>12, <2>1, SilenceType, IterationElection, Zenon
<1>13. CASE /\ n.state = "Candidate" /\ m.granted
            /\ EndIteration(i, v, d, w, Silence)
            /\ odd' = odd \cup (IF m.term = n.term THEN {} ELSE {"stale vote"})
            /\ elected' = elected
  <2>1. \A p \in Server : Silence[p] \in Seq(Honest(granted', i, p))
    BY SilenceType, NoVotesSilence, HonestNoVotes
  <2>2. odd \subseteq odd' /\ ("stale vote" \notin odd' => m.term = n.term /\ "stale vote" \notin odd)
    BY <1>13, Zenon
  <2>3. "stale vote" \notin odd' => Counted(granted', i, v)
    BY <1>5, <1>7, <1>11, <1>13, <2>2, Zenon DEF Counted
  <2> QED
    BY <1>1, <1>3, <1>4, <1>5, <1>7, <1>10, <1>13, <2>1, <2>2, <2>3, SilenceType, IterationElection, Zenon
<1>14. CASE /\ n.state = "Candidate" /\ m.granted
            /\ HasQuorum(i, v.votes)
            /\ EndIteration(i, b, d, w, ToPeers(b, i))
            /\ odd' = odd \cup (IF m.term = n.term THEN {} ELSE {"stale vote"})
            /\ elected' = elected \cup {Election(v, i)}
  <2> DEFINE out == ToPeers(b, i)
  <2>1. out \in Outbox /\ EndIteration(i, b, d, w, out)
        /\ \A p \in Server : out[p] \in Seq(Honest(granted', i, p))
    BY <1>8, <1>14, ToPeersType, NoVotesToPeers, HonestNoVotes, Zenon
  <2> HIDE DEF out
  <2>2. odd \subseteq odd' /\ ("stale vote" \notin odd' => m.term = n.term /\ "stale vote" \notin odd)
    BY <1>14, Zenon
  <2>3. "stale vote" \notin odd' => Counted(granted', i, b)
    BY <1>5, <1>7, <1>8, <1>11, <1>14, <2>2, Zenon DEF Counted, Keeps
  <2>4. ASSUME "stale vote" \notin odd', NEW e \in elected' \ elected
        PROVE  Backed(granted', e)
    <3>1. e = Election(v, i)
      BY <1>14, Zenon
    <3>2. e.leader = i /\ e.term = n.term /\ e.votes = v.votes
      BY <1>7, <3>1 DEF Election
    <3>3. v.votes \subseteq W
      BY <1>11, <1>14, <2>2, <2>4, Zenon
    <3> QED
      BY <1>5, <1>14, <3>2, <3>3, Zenon DEF Backed
  <2> QED
    BY <1>1, <1>3, <1>4, <1>8, <1>10, <2>1, <2>2, <2>3, <2>4, IterationElection, Zenon
<1> QED
  BY <1>6, <1>12, <1>13, <1>14, Zenon

LEMMA OtherMessagesElection ==
  ASSUME TypeOK, ElectionInv, NEW i \in Server, NEW j \in Server, NEW k,
         \/ HandleAppendEntries(i, j, k) \/ HandleAppendEntriesResponse(i, j, k)
         \/ HandleInstallSnapshot(i, j, k) \/ HandleInstallSnapshotResponse(i, j, k)
  PROVE  ElectionStep(i)
<1> DEFINE m == net[j][i][k]
           n == TermUpdate(node[i], m.term)
           d == TermUpdateSaved(disk[i], node[i], m.term)
           w == Without(i, j, k)
<1>1. StateType
  BY TypeSplit
<1>2. k \in Deliverable(i, j)
  BY Zenon DEF HandleAppendEntries, HandleAppendEntriesResponse, HandleInstallSnapshot,
     HandleInstallSnapshotResponse, Takes
<1>3. w \in Net
  BY <1>1, <1>2, Arrival
<1>4. HonestNet(granted, w) /\ (n.state = "Follower" \/ n = node[i])
  BY <1>1, <1>2, ArrivalElection
<1>5. granted' = granted /\ elected' = elected
  BY Zenon DEF HandleAppendEntries, HandleAppendEntriesResponse, HandleInstallSnapshot,
     HandleInstallSnapshotResponse
<1>6. odd \subseteq odd'
  <2>1. odd' = odd \/ \E x : odd' = odd \cup x
    BY Zenon DEF HandleAppendEntries, HandleAppendEntriesResponse, HandleInstallSnapshot,
       HandleInstallSnapshotResponse
  <2> QED
    BY <2>1
<1>7. Quiet(i, n, d, w)
  BY <1>1, AppendEntriesQuiet, AppendEntriesResponseQuiet, InstallSnapshotQuiet,
     InstallSnapshotResponseQuiet DEF QuietReceive
<1> HIDE DEF m, n, d, w
<1> QED
  BY <1>1, <1>3, <1>4, <1>5, <1>6, <1>7, QuietElection

\* A crash leaves a follower, and at most takes a message off the network.
LEMMA CrashElection ==
  ASSUME TypeOK, ElectionInv, NEW i \in Server, NEW d \in DiskState, Reboot(i, d),
         HonestNet(granted, net')
  PROVE  ElectionStep(i)
<1>1. StateType
  BY TypeSplit
<1>2. Only(i) /\ node'[i].state = "Follower"
  BY SMT, <1>1, RebootType, BootType
<1>3. granted' = granted /\ elected' = elected /\ odd' = odd
  BY DEF Reboot
<1> QED
  BY <1>2, <1>3, Zenon DEF ElectionStep, ElectionInv, Counted

LEMMA FailElection ==
  ASSUME TypeOK, ElectionInv, NEW i \in Server, NEW n \in NodeState, NEW d \in DiskState,
         NEW w \in Net, HonestNet(granted, w), NEW D, Fail(i, n, d, w, D),
         granted' = granted,
         "stale vote" \notin odd => Counted(granted, i, n)
  PROVE  ElectionStep(i)
<1>1. StateType
  BY TypeSplit, Zenon
<1>2. elected' = elected /\ odd' = odd \cup D /\ EndIteration(i, n, d, w, Silence)
  BY Zenon DEF Fail
<1>3. \A p \in Server : Silence[p] \in Seq(Honest(granted', i, p))
  BY SilenceType, NoVotesSilence, HonestNoVotes, Zenon
<1>4. Stood(granted')
  BY Zenon DEF ElectionInv
<1> QED
  BY <1>1, <1>2, <1>3, <1>4, SilenceType, IterationElection, Zenon

LEMMA DisturbElection ==
  ASSUME TypeOK, ElectionInv, NEW i \in Server, NEW j \in Server, NEW k, Disturb(i, j, k)
  PROVE  ElectionStep(i)
<1> DEFINE m == net[j][i][k]
           n == TermUpdate(node[i], m.term)
           d == TermUpdateSaved(disk[i], node[i], m.term)
           w == Without(i, j, k)
           s == TermSaved(disk[i], m.term)
<1>1. StateType /\ disk[i] \in DiskState
  BY TypeSplit DEF StateType
<1>2. k \in Deliverable(i, j)
  BY DEF Disturb, CrashInTermUpdate, CrashInVote, CrashInInstall, TermUpdateFails, VoteFails,
     InstallFails, Takes
<1>3. m \in Message /\ m.term \in Nat /\ n \in NodeState /\ d \in DiskState /\ w \in Net
  BY <1>1, <1>2, Arrival
<1>4. HonestNet(granted, w) /\ (n.state = "Follower" \/ n = node[i])
  BY <1>1, <1>2, ArrivalElection
<1>5. s \in DiskState
  <2> HIDE DEF m
  <2> QED
    BY <1>1, <1>3, TermSavedType
<1>6. "stale vote" \notin odd => Counted(granted, i, n)
  BY <1>4, Zenon DEF Counted, ElectionInv
<1>7. CASE CrashInTermUpdate(i, j, k)
  <2>1. net' = w /\ (Reboot(i, s) \/ Reboot(i, VoteSaved(s, Nil)))
    BY <1>7, Zenon DEF CrashInTermUpdate
  <2> HIDE DEF s, w
  <2>2. VoteSaved(s, Nil) \in DiskState
    BY <1>5, VoteSavedType
  <2> QED
    BY <1>4, <1>5, <2>1, <2>2, CrashElection
<1>8. CASE CrashInVote(i, j, k)
  <2>1. net' = w /\ Reboot(i, VoteSaved(d, j))
    BY <1>8, Zenon DEF CrashInVote
  <2> HIDE DEF d, w
  <2>2. VoteSaved(d, j) \in DiskState
    BY <1>3, VoteSavedType
  <2> QED
    BY <1>4, <2>1, <2>2, CrashElection
<1>9. CASE CrashInInstall(i, j, k)
  <2> DEFINE e == [d EXCEPT !.bin = m.chunk.image]
  <2>1. m.type = "InstallSnapshot"
    BY <1>9 DEF CrashInInstall, Takes
  <2>2. net' = w /\ Reboot(i, e)
    BY <1>9, Zenon DEF CrashInInstall
  <2> HIDE DEF d, m, w
  <2>3. m \in SnapshotChunk
    BY <1>3, <2>1 DEF Message, SnapshotChunk
  <2>4. e \in DiskState
    BY <1>3, <2>3, ChunkFacts, BinSavedType
  <2> HIDE DEF e
  <2> QED
    BY <1>4, <2>2, <2>4, CrashElection
<1>10. CASE TermUpdateFails(i, j, k)
  <2>1. Fail(i, n, disk[i], w, {}) \/ Fail(i, n, s, w, {})
    BY <1>10, Zenon DEF TermUpdateFails
  <2>2. granted' = granted
    BY <1>10, Zenon DEF TermUpdateFails, Fail
  <2> HIDE DEF n, s, w
  <2> QED
    BY <1>1, <1>3, <1>4, <1>5, <1>6, <2>1, <2>2, FailElection, Zenon
<1>11. CASE VoteFails(i, j, k)
  <2> DEFINE v == [n EXCEPT !.vote = j]
  <2>1. Fail(i, v, d, w, {})
    BY <1>11, Zenon DEF VoteFails
  <2>2. granted' = granted
    BY <1>11, Zenon DEF VoteFails, Fail
  <2> HIDE DEF n, d, w
  <2>3. v \in NodeState /\ v.term = n.term /\ v.state = n.state /\ v.votes = n.votes
    BY <1>3, VoteType
  <2> HIDE DEF v
  <2>4. "stale vote" \notin odd => Counted(granted, i, v)
    BY <1>6, <2>3, Zenon DEF Counted
  <2> QED
    BY <1>3, <1>4, <2>1, <2>2, <2>3, <2>4, FailElection, Zenon
<1>12. CASE InstallFails(i, j, k)
  <2> DEFINE v == Unindexed(Follow(n, j), m)
  <2>1. PICK e \in DiskState, D \in SUBSET Departures : FailedInstall(i, j, k, e) /\ Fail(i, v, e, w, D)
    BY <1>1, <1>2, <1>12, InstallFailsAt, Zenon
  <2>2. granted' = granted
    BY <2>1, Zenon DEF Fail
  <2>3. Keeps(n, v)
    BY <2>1, Zenon DEF FailedInstall
  <2> HIDE DEF n, w, v
  <2>4. /\ v \in NodeState /\ v.term = n.term
        /\ v.state = "Candidate" => n.state = "Candidate" /\ v.votes = n.votes
    BY <2>3, Zenon DEF Keeps
  <2>5. "stale vote" \notin odd => Counted(granted, i, v)
    BY <1>6, <2>4, Zenon DEF Counted
  <2> QED
    BY <1>3, <1>4, <2>1, <2>2, <2>4, <2>5, FailElection, Zenon
<1> QED
  BY <1>7, <1>8, <1>9, <1>10, <1>11, <1>12 DEF Disturb

LEMMA AloneElection ==
  ASSUME TypeOK, ElectionInv, NEW i \in Server, Restart(i) \/ CrashInElection(i) \/ ElectionFails(i)
  PROVE  ElectionStep(i)
<1> DEFINE t == node[i].term + 1
           s == TermSaved(disk[i], t)
           n == Campaign(node[i], i)
<1>1. StateType /\ disk[i] \in DiskState /\ node[i] \in NodeState /\ t \in Nat /\ net \in Net
  BY SMT, TypeSplit, NodeFacts DEF StateType
<1>2. s \in DiskState
  <2> HIDE DEF t
  <2> QED
    BY <1>1, TermSavedType
<1>3. HonestNet(granted, net)
  BY Zenon DEF ElectionInv
<1>4. CASE Restart(i)
  BY <1>1, <1>3, <1>4, CrashElection DEF Restart
<1>5. CASE CrashInElection(i)
  <2>1. net' = net /\ (Reboot(i, s) \/ Reboot(i, VoteSaved(s, i)))
    BY <1>5, Zenon DEF CrashInElection
  <2> HIDE DEF s
  <2>2. VoteSaved(s, i) \in DiskState
    BY <1>2, VoteSavedType
  <2> QED
    BY <1>2, <1>3, <2>1, <2>2, CrashElection
<1>6. CASE ElectionFails(i)
  <2>1. (Fail(i, n, disk[i], net, {}) \/ Fail(i, n, s, net, {})) /\ granted' = granted
    BY <1>6, Zenon DEF ElectionFails, Fail
  <2>2. n \in NodeState /\ n.votes = {i}
    BY <1>1, CampaignType
  <2> HIDE DEF n, s
  <2>3. Counted(granted, i, n)
    BY <2>2 DEF Counted
  <2> QED
    BY <1>1, <1>2, <1>3, <2>1, <2>2, <2>3, FailElection, Zenon
<1> QED
  BY <1>4, <1>5, <1>6

LEMMA LoseElection ==
  ASSUME TypeOK, ElectionInv, NEW i \in Server, NEW j \in Server, Lose(i, j)
  PROVE  ElectionStep(i)
<1>1. UNCHANGED <<node, disk, granted, elected, odd>> /\ net' = [net EXCEPT ![i][j] = Tail(@)]
      /\ net[i][j] # <<>>
  BY DEF Lose
<1>2. net \in Net /\ net[i][j] \in Seq(Honest(granted, i, j))
  BY TypeSplit, Zenon DEF StateType, ElectionInv, HonestNet
<1>3. Tail(net[i][j]) \in Seq(Honest(granted, i, j))
  BY <1>1, <1>2, TailProperties
<1>4. \A p, q \in Server : net'[p][q] = IF p = i /\ q = j THEN Tail(net[i][j]) ELSE net[p][q]
  BY <1>1, <1>2 DEF Net, Outbox
<1>5. HonestNet(granted', net')
  <2>1. granted' = granted
    BY <1>1
  <2>2. \A p, q \in Server : net[p][q] \in Seq(Honest(granted, p, q))
    BY Zenon DEF ElectionInv, HonestNet
  <2>3. \A p, q \in Server : net'[p][q] \in Seq(Honest(granted, p, q))
    BY <1>3, <1>4, <2>2, Zenon
  <2> QED
    BY <2>1, <2>3, Zenon DEF HonestNet
<1>6. Only(i)
  BY <1>1 DEF Only
<1>7. "stale vote" \notin odd' => Counted(granted', i, node'[i])
  BY <1>1, Zenon DEF ElectionInv, Counted
<1>8. Stood(granted')
  BY <1>1, Zenon DEF ElectionInv
<1> QED
  BY <1>1, <1>5, <1>6, <1>7, <1>8, Zenon DEF ElectionStep

LEMMA NextElection ==
  ASSUME TypeOK, ElectionInv, Next
  PROVE  \E i \in Server : ElectionStep(i)
<1>1. PICK i \in Server :
        \/ StartElection(i)
        \/ HeartbeatTick(i)
        \/ \E c \in Proposes[i] : ClientRequest(i, c)
        \/ \E c \in Changes, noop \in Proposes[i] : ProposeMembershipChange(i, c, noop)
        \/ Restart(i) \/ CrashInElection(i) \/ ElectionFails(i)
        \/ \E j \in Server \ {i} :
              \/ Lose(i, j)
              \/ \E k \in Deliverable(i, j) : Receive(i, j, k) \/ Disturb(i, j, k)
  BY Zenon DEF Next
<1>2. CASE StartElection(i)
  BY <1>2, StartElectionElection
<1>3. CASE \/ HeartbeatTick(i)
           \/ \E c \in Proposes[i] : ClientRequest(i, c)
           \/ \E c \in Changes, noop \in Proposes[i] : ProposeMembershipChange(i, c, noop)
  BY <1>3, LocalElection
<1>4. CASE Restart(i) \/ CrashInElection(i) \/ ElectionFails(i)
  BY <1>4, AloneElection
<1>5. ASSUME NEW j \in Server, Lose(i, j) PROVE ElectionStep(i)
  BY <1>5, LoseElection
<1>6. ASSUME NEW j \in Server, NEW k, Receive(i, j, k) PROVE ElectionStep(i)
  BY <1>6, RequestVoteElection, RequestVoteResponseElection, OtherMessagesElection DEF Receive
<1>7. ASSUME NEW j \in Server, NEW k, Disturb(i, j, k) PROVE ElectionStep(i)
  BY <1>7, DisturbElection
<1> QED
  BY <1>1, <1>2, <1>3, <1>4, <1>5, <1>6, <1>7

LEMMA InitElection == Init => ElectionInv
<1> SUFFICES ASSUME Init PROVE ElectionInv
  OBVIOUS
<1>1. NewDisk \in DiskState
  BY DEF NewDisk, DiskState
<1>2. \A i \in Server : node[i].state = "Follower"
  BY <1>1, BootType DEF Init
<1>3. HonestNet(granted, net)
  BY EmptySeq DEF Init, HonestNet
<1>4. granted = {} /\ elected = {}
  BY DEF Init
<1> QED
  BY <1>2, <1>3, <1>4, Zenon DEF ElectionInv, Stood, Counted

LEMMA ElectionInvariant == Spec => []ElectionInv
<1>1. TypeOK /\ TypeOK' /\ ElectionInv /\ [Next]_vars => ElectionInv'
  <2>1. TypeOK /\ TypeOK' /\ ElectionInv /\ Next => ElectionInv'
    BY NextElection, ElectionStepInv
  <2>2. ElectionInv /\ UNCHANGED vars => ElectionInv'
    BY Zenon DEF ElectionInv, HonestNet, Stood, Counted, Backed, vars
  <2> QED
    BY <2>1, <2>2
<1> QED
  BY <1>1, InitElection, TypeCorrect, PTL DEF Spec

-----------------------------------------------------------------------------
(* Leaders                                                                 *)

LEMMA QuorumGrows ==
  ASSUME Counting, NEW i \in Server, NEW V \in SUBSET Server, NEW W \in SUBSET Server, V \subseteq W,
         HasQuorum(i, V)
  PROVE  HasQuorum(i, W)
<1>1. Cardinality(V) \in Nat /\ Cardinality(W) \in Nat /\ Cardinality(V) =< Cardinality(W)
  BY DEF Counting
<1>2. Cardinality(Peers[i] \cup {i}) \in Nat
  <2>1. Peers[i] \cup {i} \in SUBSET Server
    BY RaftAssumptions
  <2> QED
    BY <2>1 DEF Counting
<1> DEFINE c == Cardinality(Peers[i] \cup {i}) \div 2
<1>3. c \in Nat /\ Cardinality(V) >= c + 1
  BY SMT, <1>2 DEF HasQuorum
<1> HIDE DEF c
<1>4. Cardinality(W) >= c + 1
  BY SMT, <1>1, <1>3
<1> QED
  BY <1>4 DEF HasQuorum, c

LEMMA BackedElected ==
  ASSUME Counting, TypeOK, ElectionInv, "stale vote" \notin odd
  PROVE  ElectedByMajority
<1> SUFFICES ASSUME NEW e \in elected PROVE HasQuorum(e.leader, Voters(granted, e.term, e.leader))
  BY Zenon DEF ElectedByMajority, Voters, Vote
<1>1. Backed(granted, e) /\ e.leader \in Server /\ e.votes \in SUBSET Server
  BY Zenon DEF ElectionInv, TypeOK, Won
<1>2. Voters(granted, e.term, e.leader) \in SUBSET Server
  BY Zenon DEF Voters
<1> QED
  BY <1>1, <1>2, QuorumGrows, Zenon DEF Backed

LEMMA OneLeader ==
  ASSUME Counting, \A i \in Server : Peers[i] \cup {i} = Server, TypeOK, VoteInv, ElectionInv
  PROVE  OneLeaderPerTerm
<1> SUFFICES ASSUME faults = 0 \/ restarts = 0, "stale vote" \notin odd,
                    NEW a \in elected, NEW b \in elected, a.term = b.term
             PROVE  a.leader = b.leader
  BY Zenon DEF OneLeaderPerTerm
<1> DEFINE V == Voters(granted, a.term, a.leader)
           W == Voters(granted, a.term, b.leader)
<1>1. a.leader \in Server /\ b.leader \in Server
  BY Zenon DEF TypeOK, Won
<1>2. HasQuorum(a.leader, V) /\ HasQuorum(b.leader, W)
  BY BackedElected, Zenon DEF ElectedByMajority, Voters, Vote
<1>3. V \in SUBSET Server /\ W \in SUBSET Server
  BY Zenon DEF Voters
<1>4. \E v \in V : v \in W
  <2> HIDE DEF V, W
  <2>1. /\ Cardinality(V) >= Cardinality(Server) \div 2 + 1
        /\ Cardinality(W) >= Cardinality(Server) \div 2 + 1
    BY <1>1, <1>2, Zenon DEF HasQuorum
  <2> QED
    BY <1>3, <2>1, Zenon DEF Counting
<1>5. PICK v \in Server : Vote(v, a.term, a.leader) \in granted /\ Vote(v, a.term, b.leader) \in granted
  BY <1>4, Zenon DEF Voters
<1>6. Vote(v, a.term, a.leader) = Vote(v, a.term, b.leader)
  BY <1>5, Zenon DEF VoteInv, VoteOnce, NoDoubleVote, Vote
<1> QED
  BY <1>6, Zenon DEF Vote
=============================================================================
