-------------------------- MODULE RaftCommitProofs --------------------------
(***************************************************************************)
(* Why servers apply the same commands.  An entry is chosen once a         *)
(* majority has stored it as written by the leader of its term.  Every     *)
(* later leader holds it, because one of that majority voted for it; so    *)
(* what two servers commit at an index is the same.                        *)
(***************************************************************************)
EXTENDS RaftLogProofs

USE Zenon

-----------------------------------------------------------------------------
(* A calm step                                                             *)

CommitStep(i) ==
    /\ LogStep(i) /\ LogInv' /\ Uncompacted'
    /\ Grounds /\ Backers' /\ CommitInv
    /\ Calm' /\ Changes = {}

LEMMA CalmCases ==
  ASSUME NEW i \in Server, CommitStep(i)
  PROVE  /\ \/ Stays(i) \/ Stands(i) \/ Wins(i) \/ Grows(i) \/ Counts(i) \/ Learns(i)
         /\ Applies(i) /\ node'[i].members = node[i].members
         /\ \A j \in Server \ {i} : node'[j] = node[j]
         /\ \A j \in Server : node'[j].term >= node[j].term
         /\ \A d \in Departures : d \notin odd'
<1>1. ~Restarts(i)
  BY SMTT(60) DEF CommitStep, Calm, Restarts
<1>2. \A j \in Server : node'[j].term >= node[j].term
  BY SMTT(60), StepTypes, ServerFacts DEF CommitStep, LogStep, Move
<1> QED
  BY <1>1, <1>2 DEF CommitStep, LogStep, Move, Calm

LEMMA PlainStep ==
  ASSUME NEW i \in Server, CommitStep(i)
  PROVE  Plain'
<1>1. node'[i].log.snapTerm = node[i].log.snapTerm
  <2>1. node[i].log \in Log
    BY StepTypes, ServerFacts DEF CommitStep
  <2>2. CASE Grows(i)
    BY <2>1, <2>2 DEF Grows, Append1, Log
  <2>3. CASE Learns(i)
    BY <2>1, <2>3 DEF Learns, Merge, Log
  <2>4. CASE node'[i].log = node[i].log
    BY <2>4
  <2> QED
    BY <2>2, <2>3, <2>4, CalmCases, Zenon DEF Stays, Stands, Wins, Counts
<1>2. \A j \in Server : node'[j].log.snapTerm = 0 /\ node'[j].members = Server
  BY <1>1, CalmCases DEF CommitStep, Grounds, Plain
<1>3. \A e \in elected' : e.log.snapTerm = 0 /\ e.log.offset = 0
  BY SMTT(60), NewElection DEF CommitStep, Grounds, Plain, Uncompacted
<1> QED
  BY <1>2, <1>3 DEF Plain

LEMMA GroundsStep ==
  ASSUME NEW i \in Server, CommitStep(i)
  PROVE  Grounds'
<1>1. Counting' /\ FirstTerms'
  BY DEF CommitStep, Grounds, Counting, FirstTerms
<1> QED
  BY <1>1, PlainStep DEF CommitStep, LogStep, Grounds

(* A server that takes entries from a leader has that leader's log afterwards, and
   keeps what it had in common with it. *)
LEMMA LearnFacts ==
  ASSUME NEW i \in Server, CommitStep(i), Learns(i)
  PROVE  \E m \in Appends(net), e \in elected :
            /\ e.term = node'[i].term /\ m.term = node'[i].term
            /\ \A o \in 1..Len(node'[i].log.entries) : node'[i].log.entries[o].term = Under(e, o)
            /\ \A k \in Nat : HasAt(node[i].log, k, Under(e, k)) => HasAt(node'[i].log, k, Under(e, k))
            /\ node'[i].commit = IF m.commit > node[i].commit
                                   THEN Smaller(m.commit, LastIndex(node'[i].log))
                                   ELSE node[i].commit
<1> DEFINE l == node[i].log
           h == node'[i].log
<1>1. PICK j \in Server : \E m \in Carries(net, j, i) :
         /\ m.type = "AppendEntries" /\ m.term = node'[i].term
         /\ Matches(l, m.prevIndex, m.prevTerm) /\ h = Merge(l, m.prevIndex, m.entries)
         /\ node'[i].commit = IF m.commit > node[i].commit
                                THEN Smaller(m.commit, LastIndex(h)) ELSE node[i].commit
         /\ LastIndex(h) =< m.prevIndex + Len(m.entries) \/ "over-report" \in odd'
  BY DEF Learns
<1>2. PICK m \in Carries(net, j, i) :
         /\ m.type = "AppendEntries" /\ m.term = node'[i].term
         /\ Matches(l, m.prevIndex, m.prevTerm) /\ h = Merge(l, m.prevIndex, m.entries)
         /\ node'[i].commit = IF m.commit > node[i].commit
                                THEN Smaller(m.commit, LastIndex(h)) ELSE node[i].commit
         /\ LastIndex(h) =< m.prevIndex + Len(m.entries) \/ "over-report" \in odd'
  BY <1>1
<1>3. m \in Message /\ m \in Appends(net)
  BY <1>2, MailFacts, StepTypes DEF CommitStep, Appends
<1>4. PICK e \in elected : e.term = m.term /\ PartUnder(Sent(m), e)
  BY <1>3 DEF CommitStep, CommitInv, EntriesSound
<1> DEFINE M == Sent(m)
<1>5. M \in Piece
  BY <1>3 DEF CommitStep, Grounds, LogInv, PiecesSound, Pieces
<1>6. /\ Matches(l, M.prev, M.term) /\ h = Merge(l, M.prev, M.entries)
      /\ LastIndex(h) =< M.prev + Len(M.entries)
  BY <1>2, <1>3, AppendMessage, CalmCases, Zenon DEF Departures
<1>7. l \in Log /\ h \in Log /\ l.offset = 0 /\ Grown(Whole(l), elected) /\ LastIndex(h) = Len(h.entries)
  <2>1. h \in Log /\ h.offset = 0 /\ Len(h.entries) \in Nat
    BY StepTypes, ServerFacts DEF CommitStep, Uncompacted
  <2> QED
    BY SMTT(60), <2>1, GroundFacts DEF CommitStep, LastIndex
<1>8. Positive(l)
  BY <1>7, TermsOfLog DEF CommitStep, Positive
<1>9. Proper(elected)
  BY GroundFacts DEF CommitStep, Proper
<1>10. PartUnder(M, e)
  BY <1>4
<1> HIDE DEF l, h, M
<1>11. /\ \A o \in 1..Len(h.entries) : h.entries[o].term = Under(e, o)
       /\ \A k \in Nat : HasAt(l, k, Under(e, k)) => HasAt(h, k, Under(e, k))
  BY SMTT(60), <1>5, <1>6, <1>7, <1>8, <1>9, <1>10, MergeUnder
<1> QED
  BY <1>2, <1>3, <1>4, <1>11 DEF l, h

LEMMA GrantsStep ==
  ASSUME NEW i \in Server, CommitStep(i)
  PROVE  GrantsSound'
<1> SUFFICES ASSUME NEW g \in granted'
             PROVE  g.term =< node'[g.voter].term /\ g.term =< node'[g.candidate].term
  BY DEF GrantsSound
<1>1. \A j \in Server : node'[j].term >= node[j].term /\ node[j].term \in Nat /\ node'[j].term \in Nat
  BY CalmCases, StepTypes, ServerFacts DEF CommitStep
<1>2. g.voter \in Server /\ g.candidate \in Server /\ g.term \in Nat
  BY Zenon DEF CommitStep, LogStep, TypeOK
<1>3. CASE g \in granted
  <2>1. g.term =< node[g.voter].term /\ g.term =< node[g.candidate].term
    BY <1>3 DEF CommitStep, CommitInv, GrantsSound
  <2> QED
    BY SMTT(60), <1>1, <1>2, <2>1
<1>4. CASE g = SelfVote(i, node'[i].term)
  BY SMTT(60), <1>1, <1>4 DEF SelfVote
<1>5. CASE \E j \in Server : \E m \in Carries(net, j, i) :
              /\ m.type = "RequestVote" /\ m.term = node'[i].term
              /\ g = [voter |-> i, term |-> m.term, candidate |-> j]
  <2>1. PICK j \in Server : \E m \in Carries(net, j, i) :
              /\ m.type = "RequestVote" /\ m.term = node'[i].term
              /\ g = [voter |-> i, term |-> m.term, candidate |-> j]
    BY <1>5
  <2>2. g.term = node'[i].term /\ g.voter = i /\ g.candidate = j /\ g.term =< node[j].term
    BY SMTT(60), <2>1 DEF CommitStep, CommitInv, RequestsSound
  <2> QED
    BY SMTT(60), <1>1, <1>2, <2>2
<1>6. CASE Stays(i)
  BY <1>3, <1>5, <1>6 DEF Stays
<1>7. CASE Stands(i) \/ Wins(i)
  BY <1>3, <1>4, <1>7 DEF Stands, Wins
<1>8. CASE Grows(i) \/ Counts(i) \/ Learns(i)
  BY <1>3, <1>8, Zenon DEF Grows, Counts, Learns, LeaderStays
<1> QED
  BY <1>6, <1>7, <1>8, CalmCases

LEMMA RequestsStep ==
  ASSUME NEW i \in Server, CommitStep(i)
  PROVE  RequestsSound'
<1> SUFFICES ASSUME NEW p \in Server, NEW q \in Server, NEW m \in Carries(net', p, q), m.type = "RequestVote"
             PROVE  /\ m.term =< node'[p].term
                    /\ node'[p].state = "Candidate" /\ node'[p].term = m.term =>
                          m.lastIndex = LastIndex(node'[p].log) /\ m.lastTerm = LastTerm(node'[p].log)
  BY DEF RequestsSound
<1>1. node'[p].term >= node[p].term /\ node[p].term \in Nat /\ node'[p].term \in Nat
  BY CalmCases, StepTypes, ServerFacts, Zenon DEF CommitStep
<1>2. CASE p = i /\ Posted(i, q, m)
  BY SMTT(60), <1>1, <1>2 DEF Posted
<1>3. CASE m \in Carries(net, p, q)
  <2>1. m \in Message /\ m.term \in Nat
    BY <1>3, MailFacts, StepTypes, Zenon DEF CommitStep, Message
  <2>2. /\ m.term =< node[p].term
        /\ node[p].state = "Candidate" /\ node[p].term = m.term =>
              m.lastIndex = LastIndex(node[p].log) /\ m.lastTerm = LastTerm(node[p].log)
    BY <1>3 DEF CommitStep, CommitInv, RequestsSound
  <2>3. CASE node'[p] = node[p]
    BY <2>2, <2>3
  <2>4. CASE p = i
    <3>1. node'[p].state = "Candidate" =>
             \/ node'[p].term = node[p].term + 1
             \/ /\ node[p].state = "Candidate" /\ node'[p].term = node[p].term
                /\ node'[p].log = node[p].log
      BY <2>4, CalmCases, Zenon DEF Stays, Stands, Wins, Grows, Counts, Learns, LeaderStays
    <3> QED
      BY SMTT(60), <1>1, <2>1, <2>2, <3>1
  <2> QED
    BY <2>3, <2>4, CalmCases
<1> QED
  BY <1>2, <1>3, Zenon DEF CommitStep, LogStep, Move, MailMoves

LEMMA MissedStays ==
  ASSUME NEW i \in Server, CommitStep(i), NEW k \in Nat, NEW t \in Nat, NEW u \in Int, NEW w \in Int, u =< w,
         Missed(elected, k, t, u)
  PROVE  Missed(elected', k, t, w)
<1>1. PICK e \in elected : t < e.term /\ e.term =< u /\ ~HasAt(e.log, k, t)
  BY DEF Missed
<1>2. e \in elected' /\ e.term \in Nat
  BY NewElection, StepTypes DEF CommitStep, Won
<1> QED
  BY SMTT(60), <1>1, <1>2 DEF Missed

LEMMA GrowKeeps ==
  ASSUME NEW i \in Server, CommitStep(i), Grows(i)
  PROVE  /\ Len(node'[i].log.entries) = Len(node[i].log.entries) + 1
         /\ \A o \in 1..Len(node[i].log.entries) : node'[i].log.entries[o] = node[i].log.entries[o]
         /\ \A o \in Nat, t \in Nat : HasAt(node[i].log, o, t) => HasAt(node'[i].log, o, t)
<1>1. PICK c \in Command : node'[i].log = Append1(node[i].log, [term |-> node[i].term, command |-> c])
  BY DEF Grows
<1>2. node[i].log \in Log /\ node[i].term \in Nat
  BY StepTypes, ServerFacts DEF CommitStep
<1> DEFINE x == [term |-> node[i].term, command |-> c]
           s == node[i].log.entries
<1>3. x \in Entry /\ s \in Seq(Entry) /\ Len(s) \in Nat
  BY <1>2, LogFacts, Zenon DEF Entry
<1>4. node'[i].log.entries = Append(s, x)
  BY <1>1, <1>2, Zenon DEF Append1, Log
<1> HIDE DEF x, s
<1>5. Len(Append(s, x)) = Len(s) + 1 /\ \A o \in 1..Len(s) : Append(s, x)[o] = s[o]
  BY SMTT(60), <1>3, AppendProperties
<1> QED
  BY SMTT(60), <1>3, <1>4, <1>5 DEF HasAt, s

(* An entry stays, unless the server follows a leader elected without it. *)
LEMMA HeldStays ==
  ASSUME NEW i \in Server, CommitStep(i), NEW v \in Server, NEW k \in Nat, NEW t \in Nat,
         node[v].term >= t, HasAt(node[v].log, k, t)
  PROVE  HasAt(node'[v].log, k, t) \/ Missed(elected', k, t, node'[v].term)
<1>1. CASE node'[v].log = node[v].log
  BY <1>1
<1>2. CASE v = i /\ Grows(i)
  BY <1>2, GrowKeeps, Zenon DEF HasAt
<1>3. CASE v = i /\ Learns(i)
  <2>1. PICK e \in elected :
           /\ e.term = node'[i].term
           /\ \A o \in Nat : HasAt(node[i].log, o, Under(e, o)) => HasAt(node'[i].log, o, Under(e, o))
    BY <1>3, LearnFacts
  <2>2. /\ e.term \in Nat /\ e.term >= t /\ node[i].log \in Log /\ Len(e.log.entries) \in Nat
        /\ Grown(Whole(node[i].log), elected) /\ e \in elected'
    <3>1. node'[i].term >= node[i].term /\ node[i].term \in Nat /\ node'[i].term \in Nat
      BY CalmCases, StepTypes, ServerFacts, Zenon DEF CommitStep
    <3> QED
      BY SMTT(60), <1>3, <2>1, <3>1, GroundFacts, NewElection DEF CommitStep
  <2>3. CASE e.term > t /\ ~HasAt(e.log, k, t)
    BY SMTT(60), <1>3, <2>1, <2>2, <2>3 DEF Missed
  <2>4. CASE HasAt(e.log, k, t)
    <3>1. Under(e, k) = t
      BY <2>4 DEF HasAt, Under
    <3> QED
      BY <1>3, <2>1, <3>1
  <2>5. CASE e.term = t
    <3>1. Has(Whole(node[i].log), k) /\ At(Whole(node[i].log), k).term = t
      BY <1>3, <2>2, WholeFacts DEF HasAt
    <3>2. PICK f \in elected : f.term = t /\ k > Len(f.log.entries)
      BY <2>2, <3>1 DEF Grown, Sits
    <3>3. f = e
      BY <2>5, <3>2, GroundFacts DEF CommitStep
    <3>4. Under(e, k) = t
      BY SMTT(60), <2>2, <2>5, <3>2, <3>3 DEF Under
    <3> QED
      BY <1>3, <2>1, <3>4
  <2> QED
    BY SMTT(60), <2>2, <2>3, <2>4, <2>5
<1> QED
  BY <1>1, <1>2, <1>3, CalmCases, Zenon DEF Stays, Stands, Wins, Counts

\* The votes given in a step.
LEMMA NewGrant ==
  ASSUME NEW i \in Server, CommitStep(i), NEW g \in granted' \ granted
  PROVE  \/ /\ g = SelfVote(i, node'[i].term) /\ node'[i].log = node[i].log
            /\ Stands(i) \/ (Wins(i) /\ node'[i].term = node[i].term + 1)
         \/ /\ Stays(i)
            /\ \E j \in Server : \E m \in Carries(net, j, i) :
                  /\ m.type = "RequestVote" /\ m.term = node'[i].term
                  /\ UpToDate(m, node[i].log)
                  /\ g = [voter |-> i, term |-> m.term, candidate |-> j]
<1>1. CASE Stays(i)
  BY <1>1 DEF Stays
<1>2. CASE Stands(i) \/ Wins(i)
  BY <1>2, Zenon DEF Stands, Wins
<1>3. CASE Grows(i) \/ Counts(i) \/ Learns(i)
  BY <1>3, Zenon DEF Grows, Counts, Learns, LeaderStays
<1> QED
  BY <1>1, <1>2, <1>3, CalmCases, Zenon

\* A server that was a candidate for a term before still is one, with its log.
LEMMA SameCandidate ==
  ASSUME NEW i \in Server, CommitStep(i), NEW c \in Server, node'[c].state = "Candidate",
         node'[c].term =< node[c].term
  PROVE  node[c].state = "Candidate" /\ node'[c].term = node[c].term /\ node'[c].log = node[c].log
<1>1. node[c].term \in Nat /\ node'[c].term \in Nat
  BY StepTypes, ServerFacts DEF CommitStep
<1>2. CASE c = i
  <2>1. ~Stands(i)
    BY SMTT(60), <1>1, <1>2 DEF Stands
  <2> QED
    BY <1>2, <2>1, CalmCases, Zenon DEF Stays, Wins, Grows, Counts, Learns, LeaderStays
<1> QED
  BY <1>2, CalmCases

\* A vote for a candidate that is up to date with the voter.
LEMMA VoteAhead ==
  ASSUME NEW l \in Log, NEW k \in Nat, NEW t \in Nat, Ahead(l, k, t), NEW m, m.lastTerm \in Nat,
         m.lastIndex \in Nat, UpToDate(m, l), NEW h \in Log,
         m.lastIndex = LastIndex(h), m.lastTerm = LastTerm(h)
  PROVE  Ahead(h, k, t)
<1>1. LastTerm(l) \in Nat /\ LastIndex(l) \in Nat
  BY LogFacts
<1> QED
  BY SMTT(60), <1>1 DEF Ahead, UpToDate

(* What a server has voted for, when it has an entry, is ahead of that entry. *)
LEMMA StoredGrants ==
  ASSUME NEW i \in Server, CommitStep(i), NEW v \in Server, NEW k \in Nat, NEW t \in Nat, Stored(v, k, t),
         NEW g \in granted', g.voter = v, g.term > t, ~Missed(elected', k, t, g.term),
         node'[g.candidate].state = "Candidate", node'[g.candidate].term = g.term
  PROVE  Ahead(node'[g.candidate].log, k, t)
<1> DEFINE c == g.candidate
<1>1. /\ c \in Server /\ g.term \in Nat
      /\ \A j \in Server : /\ node[j].term \in Nat /\ node'[j].term \in Nat
                           /\ node'[j].term >= node[j].term
  BY CalmCases, StepTypes, ServerFacts, Zenon DEF CommitStep, LogStep, TypeOK
<1>2. CASE g \in granted
  <2>1. g.term =< node[c].term
    BY <1>2 DEF CommitStep, CommitInv, GrantsSound
  <2>2. node[c].state = "Candidate" /\ node[c].term = g.term /\ node'[c].log = node[c].log
    BY <1>1, <2>1, SameCandidate
  <2>3. ~Missed(elected, k, t, g.term)
    <3>1. g.term \in Int /\ g.term =< g.term
      BY SMTT(60), <1>1
    <3> QED
      BY <3>1, MissedStays
  <2> QED
    BY <1>2, <2>2, <2>3, Zenon DEF Stored
<1>3. CASE g \notin granted
  <2>1. g.voter = i /\ g.term = node'[i].term
    BY SMTT(60), <1>3, NewGrant DEF SelfVote
  <2>2. ~Missed(elected, k, t, node[i].term)
    BY SMTT(60), <1>1, <2>1, MissedStays
  <2>3. HasAt(node[i].log, k, t)
    BY <2>1, <2>2 DEF Stored
  <2>4. node[i].log \in Log /\ Ahead(node[i].log, k, t)
    BY <2>3, GroundFacts, HasAhead DEF CommitStep
  <2>5. CASE g = SelfVote(i, node'[i].term) /\ node'[i].log = node[i].log
    BY <2>4, <2>5 DEF SelfVote
  <2>6. CASE \E j \in Server : \E m \in Carries(net, j, i) :
                  /\ m.type = "RequestVote" /\ m.term = node'[i].term
                  /\ UpToDate(m, node[i].log)
                  /\ g = [voter |-> i, term |-> m.term, candidate |-> j]
    <3>1. PICK m \in Carries(net, c, i) : m.type = "RequestVote" /\ m.term = g.term /\ UpToDate(m, node[i].log)
      BY SMTT(60), <2>6
    <3>2. m.term =< node[c].term
      BY <1>1, <3>1 DEF CommitStep, CommitInv, RequestsSound
    <3>3. node[c].state = "Candidate" /\ node[c].term = m.term /\ node'[c].log = node[c].log
      BY <1>1, <3>1, <3>2, SameCandidate
    <3>4. m.lastIndex = LastIndex(node[c].log) /\ m.lastTerm = LastTerm(node[c].log)
      BY <1>1, <3>1, <3>3, Zenon DEF CommitStep, CommitInv, RequestsSound
    <3>5. node[c].log \in Log /\ m.lastIndex \in Nat /\ m.lastTerm \in Nat
      BY <1>1, <3>4, GroundFacts, LogFacts, Zenon DEF CommitStep
    <3> QED
      BY <2>4, <3>1, <3>3, <3>4, <3>5, VoteAhead
  <2> QED
    BY <1>3, <2>5, <2>6, NewGrant
<1> QED
  BY <1>2, <1>3

(* ... and so is every leader it has helped to elect. *)
LEMMA StoredElects ==
  ASSUME NEW i \in Server, CommitStep(i), NEW v \in Server, NEW k \in Nat, NEW t \in Nat, Stored(v, k, t),
         NEW e \in elected', e.term > t, v \in e.votes
  PROVE  Missed(elected', k, t, e.term - 1) \/ Ahead(e.log, k, t)
<1>1. CASE e \in elected
  <2>1. e.term \in Nat
    BY <1>1, GroundFacts DEF CommitStep
  <2> QED
    BY SMTT(60), <1>1, <2>1, MissedStays DEF Stored
<1>2. CASE e \notin elected
  <2>1. /\ e.leader = i /\ e.log = node[i].log /\ e.term = node'[i].term /\ Wins(i)
        /\ \A f \in elected : f.term # e.term
    BY <1>2, NewElection DEF CommitStep
  <2>2. /\ e.term \in Nat /\ node[i].term \in Nat /\ node[i].log \in Log /\ node[i].log.offset = 0
        /\ Grown(Whole(node[i].log), elected)
    BY <2>1, StepTypes, ServerFacts, GroundFacts, Zenon DEF CommitStep, Won
  <2> DEFINE g == [voter |-> v, term |-> e.term, candidate |-> i]
  <2>3. g \in granted'
    BY <2>1 DEF CommitStep, Backers
  <2>4. CASE g \in granted
    <3>1. g.term =< node[i].term
      BY <2>4 DEF CommitStep, CommitInv, GrantsSound
    <3>2. node[i].state = "Candidate" /\ node[i].term = g.term
      BY SMTT(60), <2>1, <2>2, <3>1 DEF Wins
    <3>3. CASE Missed(elected, k, t, e.term)
      <4>1. Missed(elected, k, t, e.term - 1)
        <5>1. PICK f \in elected : t < f.term /\ f.term =< e.term /\ ~HasAt(f.log, k, t)
          BY <3>3 DEF Missed
        <5>2. f.term \in Nat /\ f.term # e.term
          BY <2>1, GroundFacts DEF CommitStep
        <5> QED
          BY SMTT(60), <2>2, <5>1, <5>2 DEF Missed
      <4> QED
        BY SMTT(60), <2>2, <4>1, MissedStays
    <3>4. g.voter = v /\ g.term = e.term /\ g.candidate = i
      OBVIOUS
    <3> QED
      BY <2>1, <2>4, <3>2, <3>3, <3>4 DEF Stored
  <2>5. CASE g \notin granted
    <3>1. g = SelfVote(i, node'[i].term) /\ node'[i].term = node[i].term + 1
      BY <2>1, <2>3, <2>5, NewGrant, Zenon DEF Stays, Stands, Wins
    <3>2. v = i
      BY <3>1 DEF SelfVote
    <3>3. CASE HasAt(node[i].log, k, t)
      BY <2>1, <2>2, <3>3, HasAhead, Zenon DEF CommitStep
    <3>4. CASE Missed(elected, k, t, node[i].term)
      <4>1. node[i].term = e.term - 1
        BY SMTT(60), <2>1, <2>2, <3>1
      <4> QED
        BY SMTT(60), <2>2, <3>4, <4>1, MissedStays
    <3> QED
      BY <3>2, <3>3, <3>4 DEF Stored
  <2> QED
    BY <2>4, <2>5
<1> QED
  BY <1>1, <1>2

LEMMA StoredStays ==
  ASSUME NEW i \in Server, CommitStep(i), NEW v \in Server, NEW k \in Nat, NEW t \in Nat, Stored(v, k, t)
  PROVE  Stored(v, k, t)'
<1>1. node[v].term \in Nat /\ node'[v].term \in Nat /\ node'[v].term >= node[v].term /\ node[v].term >= t
  BY CalmCases, StepTypes, ServerFacts, Zenon DEF CommitStep, Stored
<1>2. HasAt(node'[v].log, k, t) \/ Missed(elected', k, t, node'[v].term)
  BY SMTT(60), <1>1, HeldStays, MissedStays DEF Stored
<1> QED
  BY SMTT(60), <1>1, <1>2, StoredGrants, StoredElects DEF Stored

-----------------------------------------------------------------------------
(* What is chosen stays chosen                                             *)

LEMMA StoredUpToStays ==
  ASSUME NEW i \in Server, CommitStep(i), NEW v \in Server, NEW n, NEW e \in elected, StoredUpTo(v, n, e)
  PROVE  StoredUpTo(v, n, e)'
<1>1. e.term \in Nat
  BY GroundFacts DEF CommitStep
<1> QED
  BY <1>1, StoredStays DEF StoredUpTo

LEMMA ChosenStays ==
  ASSUME NEW i \in Server, CommitStep(i), NEW e \in elected, NEW k \in Nat, Chosen(k, e)
  PROVE  Chosen(k, e)' /\ e \in elected'
<1>1. e.term \in Nat
  BY GroundFacts DEF CommitStep
<1>2. PICK Q \in SUBSET Server : Cardinality(Q) >= Cardinality(Server) \div 2 + 1
                                 /\ \A v \in Q : Stored(v, k, e.term)
  BY DEF Chosen
<1>3. \A v \in Q : Stored(v, k, e.term)'
  BY <1>1, <1>2, StoredStays
<1> QED
  BY <1>2, <1>3, NewElection DEF Chosen, CommitStep

LEMMA SettledStays ==
  ASSUME NEW i \in Server, CommitStep(i), NEW e \in elected, NEW k \in Nat, NEW c \in Nat, NEW d \in Nat,
         NEW t \in Nat, NEW u \in Nat, Settled(c, t, e, k), d =< c, t =< u
  PROVE  Settled(d, u, e, k)' /\ e \in elected'
<1>1. e.term \in Nat
  BY GroundFacts DEF CommitStep
<1> QED
  BY SMTT(60), <1>1, ChosenStays DEF Settled

\* An entry of the server's own term is stored at once: it has not voted since.
LEMMA StoredNow ==
  ASSUME NEW i \in Server, CommitStep(i), NEW k \in Nat, HasAt(node'[i].log, k, node'[i].term)
  PROVE  Stored(i, k, node[i].term)'
<1>1. node'[i].term \in Nat
  BY StepTypes, ServerFacts DEF CommitStep
<1>2. \A g \in granted' : g.voter = i => g.term =< node'[i].term /\ g.term \in Nat
  BY GrantsStep, Zenon DEF GrantsSound, CommitStep, LogStep, TypeOK
<1>3. ASSUME NEW e \in elected', e.term > node'[i].term, i \in e.votes PROVE FALSE
  <2> DEFINE g == [voter |-> i, term |-> e.term, candidate |-> e.leader]
  <2>1. g \in granted' /\ g.voter = i /\ g.term = e.term
    BY <1>3 DEF CommitStep, Backers
  <2> QED
    BY SMTT(60), <1>1, <1>2, <1>3, <2>1
<1> QED
  BY SMTT(60), <1>1, <1>2, <1>3 DEF Stored

\* A follower's log after it took entries from a leader.
LEMMA StoredLearnt ==
  ASSUME NEW i \in Server, CommitStep(i), Learns(i)
  PROVE  \E e \in elected' : e.term = node'[i].term /\ StoredUpTo(i, LastIndex(node[i].log), e)'
<1>1. PICK e \in elected :
         /\ e.term = node'[i].term
         /\ \A o \in 1..Len(node'[i].log.entries) : node'[i].log.entries[o].term = Under(e, o)
  BY LearnFacts
<1>2. Len(node'[i].log.entries) \in Nat /\ node'[i].log.offset = 0
  BY StepTypes, ServerFacts DEF CommitStep, Uncompacted
<1>3. LastIndex(node'[i].log) = Len(node'[i].log.entries)
  BY SMTT(60), <1>2 DEF LastIndex
<1>4. e \in elected' /\ Len(e.log.entries) \in Nat
  BY NewElection, GroundFacts DEF CommitStep
<1>5. ASSUME NEW k \in Nat, Len(e.log.entries) < k, k =< LastIndex(node'[i].log)
      PROVE  Stored(i, k, e.term)'
  <2>1. HasAt(node'[i].log, k, node'[i].term)
    BY SMTT(60), <1>1, <1>2, <1>3, <1>4, <1>5 DEF HasAt, Under
  <2> QED
    BY <1>1, <2>1, StoredNow, Zenon
<1> QED
  BY <1>1, <1>4, <1>5 DEF StoredUpTo

-----------------------------------------------------------------------------
(* What a leader counts                                                    *)

\* The acknowledgements in acks are true.
Vouched(i, acks) ==
    /\ acks[i] = 0
    /\ \A p \in Server : /\ acks[p] \in Nat
                         /\ \A e \in elected : e.term = node[i].term => StoredUpTo(p, acks[p], e)

LEMMA LeaderLog ==
  ASSUME NEW i \in Server, CommitStep(i), Grows(i) \/ Counts(i)
  PROVE  \E e \in elected : /\ e.term = node'[i].term /\ e.term = node[i].term
                            /\ LedBy(node'[i].log, e)
<1>1. node[i].state = "Leader" /\ node'[i].term = node[i].term
  BY Zenon DEF Grows, Counts, LeaderStays
<1>2. PICK e \in elected : Leading(i, e)
  BY <1>1 DEF CommitStep, Grounds, LogInv, ServersSound
<1>3. CASE Grows(i)
  BY SMTT(60), <1>1, <1>2, <1>3, GrowsLed DEF CommitStep
<1>4. CASE Counts(i)
  BY <1>1, <1>2, <1>4, Zenon DEF Counts, Leading
<1> QED
  BY <1>3, <1>4

LEMMA LeaderCounts ==
  ASSUME NEW i \in Server, CommitStep(i), Grows(i) \/ Counts(i)
  PROVE  \E acks : Vouched(i, acks) /\ Commits(i, acks) /\ Remembers(i, acks)
<1>1. node[i].state = "Leader" /\ node'[i].term = node[i].term
  BY Zenon DEF Grows, Counts, LeaderStays
<1>2. node[i].match \in [Server -> Nat]
  BY StepTypes, ServerFacts DEF CommitStep, NodeState
<1>3. Vouched(i, node[i].match)
  BY <1>1, <1>2 DEF CommitStep, CommitInv, MatchSound, Vouched
<1>4. CASE Grows(i)
  BY <1>3, <1>4 DEF Grows
<1>5. CASE Counts(i)
  <2>1. PICK j \in Server \ {i} : \E m \in Carries(net, j, i) :
          LET acks == IF m.success THEN [node[i].match EXCEPT ![j] = m.match] ELSE node[i].match
          IN  /\ m.type = "AppendEntriesResponse"
              /\ m.success /\ m.term # node'[i].term => "stale ack" \in odd'
              /\ Commits(i, acks) /\ Remembers(i, acks)
    BY <1>5, Zenon DEF Counts
  <2>2. PICK m \in Carries(net, j, i) :
          LET acks == IF m.success THEN [node[i].match EXCEPT ![j] = m.match] ELSE node[i].match
          IN  /\ m.type = "AppendEntriesResponse"
              /\ m.success /\ m.term # node'[i].term => "stale ack" \in odd'
              /\ Commits(i, acks) /\ Remembers(i, acks)
    BY <2>1, Zenon
  <2> DEFINE acks == [node[i].match EXCEPT ![j] = m.match]
  <2>3. CASE m.success
    <3>1. m.term = node[i].term /\ Commits(i, acks) /\ Remembers(i, acks)
      BY <1>1, <2>2, <2>3, CalmCases, Zenon DEF Departures
    <3>2. m \in Message /\ m.type = "AppendEntriesResponse"
      BY <2>2, MailFacts, StepTypes, Zenon DEF CommitStep
    <3>3. m.match \in Nat
      BY <3>2 DEF Message
    <3>4. PICK f \in elected : f.term = m.term /\ StoredUpTo(j, m.match, f)
      BY <2>2, <2>3, Zenon DEF CommitStep, CommitInv, AcksSound
    <3>5. \A e \in elected : e.term = node[i].term => e = f
      BY <3>1, <3>4, GroundFacts DEF CommitStep
    <3>6. \A p \in Server : acks[p] = IF p = j THEN m.match ELSE node[i].match[p]
      BY <1>2
    <3> HIDE DEF acks
    <3>7. Vouched(i, acks)
      BY <1>3, <3>3, <3>4, <3>5, <3>6 DEF Vouched
    <3> QED
      BY <3>1, <3>7
  <2>4. CASE ~m.success
    <3>1. Commits(i, node[i].match) /\ Remembers(i, node[i].match)
      BY <2>2, <2>4, Zenon
    <3> QED
      BY <1>3, <3>1
  <2> QED
    BY <2>3, <2>4
<1> QED
  BY <1>4, <1>5

LEMMA MatchStep ==
  ASSUME NEW i \in Server, CommitStep(i)
  PROVE  MatchSound'
<1> SUFFICES ASSUME NEW j \in Server, node'[j].state = "Leader"
             PROVE  /\ node'[j].match[j] = 0
                    /\ \A p \in Server : \A e \in elected' :
                          e.term = node'[j].term => StoredUpTo(p, node[j].match[p], e)'
  BY DEF MatchSound
<1>1. CASE /\ node[j].state = "Leader" /\ node'[j].term = node[j].term
           /\ node'[j].match = node[j].match
  <2>1. PICK f \in elected : f.term = node[j].term
    BY <1>1 DEF CommitStep, Grounds, LogInv, ServersSound, Leading
  <2>2. f \in elected' /\ \A e \in elected' : e.term = node'[j].term => e = f
    BY SMTT(60), <1>1, <2>1, NewElection, GroundsStep, GroundFacts DEF CommitStep, LogInv, ElectionsSound
  <2>3. node[j].match[j] = 0 /\ \A p \in Server : StoredUpTo(p, node[j].match[p], f)
    BY <1>1, <2>1 DEF CommitStep, CommitInv, MatchSound
  <2> QED
    BY <1>1, <2>2, <2>3, StoredUpToStays
<1>2. CASE j = i /\ Wins(i)
  <2>1. \A p \in Server : node'[i].match[p] = 0
    BY <1>2 DEF Wins
  <2>2. \A e \in elected' : Len(e.log.entries) \in Nat
    BY StepTypes, LogFacts DEF CommitStep, Won
  <2> QED
    BY SMTT(60), <1>2, <2>1, <2>2 DEF StoredUpTo
<1>3. CASE j = i /\ (Grows(i) \/ Counts(i))
  <2>1. PICK acks : Vouched(i, acks) /\ Remembers(i, acks)
    BY <1>3, LeaderCounts
  <2>2. node'[i].term = node[i].term /\ elected' = elected
    BY <1>3, Zenon DEF Grows, Counts, LeaderStays
  <2>3. node'[i].match[i] = 0 /\ \A p \in Server : node'[i].match[p] \in {0, acks[p]}
    BY <2>1 DEF Vouched, Remembers
  <2>4. ASSUME NEW p \in Server, NEW e \in elected, e.term = node'[i].term
        PROVE  StoredUpTo(p, node[i].match[p], e)'
    <3>1. StoredUpTo(p, acks[p], e)'
      BY <2>1, <2>2, <2>4, StoredUpToStays DEF Vouched
    <3>2. Len(e.log.entries) \in Nat
      BY GroundFacts DEF CommitStep
    <3> QED
      BY SMTT(60), <2>3, <3>1, <3>2 DEF StoredUpTo
  <2> QED
    BY <1>3, <2>2, <2>3, <2>4
<1>4. CASE j = i /\ (Stays(i) \/ Stands(i) \/ Learns(i))
  BY <1>1, <1>4 DEF Stays, Stands, Learns
<1> QED
  BY <1>1, <1>2, <1>3, <1>4, CalmCases

-----------------------------------------------------------------------------
(* What is committed stays committed                                       *)

LEMMA AppendFacts ==
  ASSUME net \in [Server -> [Server -> Seq(Message)]], NEW m \in Appends(net)
  PROVE  m \in Message /\ m.type = "AppendEntries" /\ m.term \in Nat /\ m.commit \in Nat
<1>1. PICK p \in Server, q \in Server : m \in Carries(net, p, q)
  BY SMTT(60) DEF Appends, Mail
<1>2. m \in Message /\ m.type = "AppendEntries"
  BY <1>1, MailFacts DEF Appends
<1> QED
  BY <1>2, AppendMessage

\* What a server has committed, in terms of the leader it follows.
LEMMA CommittedUnder ==
  ASSUME Grounds, CommitsSound, NEW i \in Server, node[i].commit \in Nat, node[i].commit > 0,
         NEW e \in elected, e.term >= node[i].term
  PROVE  /\ HasAt(node[i].log, node[i].commit, Under(e, node[i].commit))
         /\ \A o \in 1..node[i].commit : node[i].log.entries[o].term = Under(e, o)
<1> DEFINE c == node[i].commit
           l == node[i].log
<1>1. PICK f \in elected : \E k \in Nat : Settled(c, node[i].term, f, k) /\ HasAt(l, c, Under(f, c))
  BY DEF CommitsSound
<1>2. PICK k \in Nat : Settled(c, node[i].term, f, k) /\ HasAt(l, c, Under(f, c))
  BY <1>1
<1>3. f.term =< e.term /\ Chosen(k, f) /\ c \in 1..k /\ l \in Log
  BY SMTT(60), <1>2, GroundFacts DEF Settled
<1>4. Under(e, c) = Under(f, c)
  BY <1>3, UnderChosen
<1>5. HasAt(l, c, Under(e, c))
  BY <1>2, <1>4
<1>6. Has(Whole(l), c) /\ l.entries[c].term = Under(e, c) /\ c \in Nat
  BY SMTT(60), <1>3, <1>5, HasAtFacts
<1>7. \A o \in 1..c : l.entries[o].term = Under(e, o)
  BY SMTT(60), <1>6, GroundFacts, UnderMatch
<1> QED
  BY <1>5, <1>7

LEMMA CommittedKept ==
  ASSUME NEW i \in Server, CommitStep(i)
  PROVE  /\ node[i].commit =< node'[i].commit
         /\ \A x \in 1..node[i].commit : /\ x =< Len(node[i].log.entries) /\ x =< Len(node'[i].log.entries)
                                         /\ node'[i].log.entries[x] = node[i].log.entries[x]
<1> DEFINE l == node[i].log
           h == node'[i].log
           c == node[i].commit
<1>1. /\ c \in Nat /\ node'[i].commit \in Nat /\ l \in Log /\ h \in Log /\ h.offset = 0
      /\ Len(l.entries) \in Nat /\ Len(h.entries) \in Nat
      /\ node[i].term \in Nat /\ node'[i].term \in Nat
  BY StepTypes, ServerFacts DEF CommitStep, Uncompacted
<1>2. c > 0 => c =< Len(l.entries)
  BY DEF CommitStep, CommitInv, CommitsSound, HasAt
<1>3. CASE h = l /\ node'[i].commit >= c
  BY SMTT(60), <1>1, <1>2, <1>3
<1>4. CASE Grows(i)
  <2>1. node'[i].commit >= c
    BY SMTT(60), <1>1, <1>4 DEF Grows, Commits
  <2> QED
    BY SMTT(60), <1>1, <1>2, <1>4, <2>1, GrowKeeps
<1>5. CASE Learns(i)
  <2>1. PICK m \in Appends(net), e \in elected :
           /\ e.term = node'[i].term
           /\ \A o \in 1..Len(h.entries) : h.entries[o].term = Under(e, o)
           /\ \A k \in Nat : HasAt(l, k, Under(e, k)) => HasAt(h, k, Under(e, k))
           /\ node'[i].commit = IF m.commit > c THEN Smaller(m.commit, LastIndex(h)) ELSE c
    BY <1>5, LearnFacts
  <2>2. e.term >= node[i].term /\ LastIndex(h) = Len(h.entries)
    BY SMTT(60), <1>1, <2>1, CalmCases DEF LastIndex
  <2>3. m.commit \in Nat
    BY AppendFacts, StepTypes DEF CommitStep
  <2>4. CASE c = 0
    BY SMTT(60), <1>1, <2>4
  <2>5. CASE c > 0
    <3>1. /\ HasAt(l, c, Under(e, c))
          /\ \A o \in 1..c : l.entries[o].term = Under(e, o)
      BY <1>1, <2>2, <2>5, CommittedUnder DEF CommitStep, CommitInv
    <3>2. c =< Len(h.entries)
      BY <1>1, <2>1, <3>1 DEF HasAt
    <3>3. c =< node'[i].commit
      BY SMTT(60), <1>1, <2>1, <2>2, <2>3, <3>2 DEF Smaller
    <3>4. ASSUME NEW x \in 1..c PROVE h.entries[x] = l.entries[x]
      <4>1. x \in Nat /\ Has(Whole(l), x) /\ Has(Whole(h), x)
            /\ At(Whole(l), x) = l.entries[x] /\ At(Whole(h), x) = h.entries[x]
        BY SMTT(60), <1>1, <1>2, <2>5, <3>2, WholeFacts
      <4>2. h.entries[x].term = l.entries[x].term
        <5>1. x \in 1..Len(h.entries)
          BY SMTT(60), <1>1, <3>2
        <5> QED
          BY <2>1, <3>1, <5>1
      <4>3. Same(Whole(h), Whole(l))
        BY NewLog DEF CommitStep, Pieces
      <4> QED
        BY <4>1, <4>2, <4>3 DEF Same
    <3> QED
      BY SMTT(60), <1>1, <1>2, <2>5, <3>2, <3>3, <3>4
  <2> QED
    BY SMTT(60), <1>1, <2>4, <2>5
<1>6. CASE Stays(i) \/ Stands(i) \/ Wins(i)
  BY SMTT(60), <1>1, <1>3, <1>6 DEF Stays, Stands, Wins
<1>7. CASE Counts(i)
  <2>1. PICK acks : Commits(i, acks)
    BY <1>7, LeaderCounts
  <2>2. node'[i].commit >= c
    BY SMTT(60), <1>1, <2>1 DEF Commits
  <2> QED
    BY <1>3, <1>7, <2>2, Zenon DEF Counts
<1> QED
  BY <1>4, <1>5, <1>6, <1>7, CalmCases

\* What a leader commits, a majority has stored.
LEMMA LeaderCommits ==
  ASSUME NEW i \in Server, CommitStep(i), Grows(i) \/ Counts(i), node'[i].commit # node[i].commit
  PROVE  \E e \in elected' :
            /\ Settled(node[i].commit, node[i].term, e, node[i].commit)'
            /\ HasAt(node'[i].log, node'[i].commit, Under(e, node'[i].commit))
<1> DEFINE h == node'[i].log
<1>0. PICK c \in Nat : c = node'[i].commit
  BY StepTypes, ServerFacts DEF CommitStep
<1>1. PICK e \in elected : e.term = node'[i].term /\ e.term = node[i].term /\ LedBy(h, e)
  BY LeaderLog
<1>2. PICK acks : Vouched(i, acks) /\ Commits(i, acks)
  BY LeaderCounts
<1> DEFINE A == {p \in Server : acks[p] >= c}
<1>3. /\ c \in Nat /\ c > node[i].commit /\ c =< LastIndex(h) /\ TermAt(h, c) = node'[i].term
      /\ 1 + Cardinality(A) >= Cardinality(node'[i].members) \div 2 + 1
      /\ node[i].commit \in Nat
  BY <1>0, <1>2, StepTypes, ServerFacts DEF Commits, CommitStep
<1>4. h \in Log /\ Len(h.entries) \in Nat /\ h.offset = 0
  BY StepTypes, ServerFacts DEF CommitStep, Uncompacted
<1>5. c \in 1..Len(h.entries) /\ h.entries[c].term = e.term
  <2>1. c \in 1..Len(h.entries)
    BY SMTT(60), <1>3, <1>4 DEF LastIndex
  <2>2. c - 0 = c
    BY SMTT(60), <1>3
  <2> QED
    BY SMTT(60), <1>1, <1>3, <1>4, <2>1, <2>2 DEF TermAt, Holds
<1>6. HasAt(h, c, e.term) /\ Under(e, c) = e.term
  BY SMTT(60), <1>1, <1>5 DEF HasAt, LedBy
<1>7. e \in elected' /\ e.term \in Nat /\ Len(e.log.entries) \in Nat
  BY NewElection, GroundFacts DEF CommitStep
<1>8. c > Len(e.log.entries)
  <2>1. CASE c =< Len(e.log.entries)
    <3>1. c \in 1..Len(e.log.entries)
      BY SMTT(60), <1>5, <1>7, <2>1
    <3>2. e.log.entries[c].term < e.term
      BY <3>1, GroundFacts DEF CommitStep
    <3> QED
      BY SMTT(60), <1>6, <1>7, <2>1, <3>2 DEF Under
  <2> QED
    BY SMTT(60), <1>3, <1>7, <2>1
<1>9. \A p \in A : Stored(p, c, e.term)'
  <2> SUFFICES ASSUME NEW p \in Server, acks[p] >= c PROVE Stored(p, c, e.term)'
    OBVIOUS
  <2>1. StoredUpTo(p, acks[p], e) /\ acks[p] \in Nat
    BY <1>1, <1>2 DEF Vouched
  <2>2. Stored(p, c, e.term)
    BY <1>3, <1>8, <2>1 DEF StoredUpTo
  <2> QED
    BY <1>3, <1>7, <2>2, StoredStays
<1>10. Stored(i, c, e.term)'
  BY <1>1, <1>3, <1>6, StoredNow, Zenon
<1> DEFINE Q == A \cup {i}
<1>11. Cardinality(Q) >= Cardinality(Server) \div 2 + 1
  <2>1. A \in SUBSET Server /\ i \in Server \ A
    BY SMTT(60), <1>2, <1>3 DEF Vouched
  <2>2. Cardinality(Q) = Cardinality(A) + 1 /\ Cardinality(A) \in Nat
    <3> HIDE DEF A
    <3> QED
      BY <2>1 DEF CommitStep, Grounds, Counting
  <2>3. node'[i].members = Server
    BY PlainStep DEF Plain
  <2> HIDE DEF Q, A
  <2> QED
    BY SMTT(60), <1>3, <2>2, <2>3
<1>12. Chosen(c, e)'
  <2>1. Q \in SUBSET Server /\ \A v \in Q : Stored(v, c, e.term)'
    BY <1>9, <1>10
  <2> HIDE DEF Q
  <2> QED
    BY <1>8, <1>11, <2>1 DEF Chosen
<1>13. Settled(node[i].commit, node[i].term, e, node[i].commit)'
  BY SMTT(60), <1>0, <1>1, <1>3, <1>7, <1>12 DEF Settled
<1> QED
  BY <1>0, <1>6, <1>7, <1>13

LEMMA CommitsStep ==
  ASSUME NEW i \in Server, CommitStep(i)
  PROVE  CommitsSound'
<1> SUFFICES ASSUME NEW j \in Server, node'[j].commit > 0
             PROVE  \E e \in elected' : \E k \in Nat :
                       /\ Settled(node[j].commit, node[j].term, e, k)'
                       /\ HasAt(node'[j].log, node'[j].commit, Under(e, node'[j].commit))
  BY DEF CommitsSound
<1>1. /\ node[j].commit \in Nat /\ node'[j].commit \in Nat /\ node[j].term \in Nat
      /\ node'[j].term \in Nat /\ node'[j].term >= node[j].term
  BY StepTypes, ServerFacts, CalmCases DEF CommitStep
<1>2. ASSUME node'[j].commit = node[j].commit,
             node[j].commit =< Len(node'[j].log.entries),
             node'[j].log.entries[node[j].commit] = node[j].log.entries[node[j].commit]
      PROVE  \E e \in elected' : \E k \in Nat :
                       /\ Settled(node[j].commit, node[j].term, e, k)'
                       /\ HasAt(node'[j].log, node'[j].commit, Under(e, node'[j].commit))
  <2>1. PICK e \in elected : \E k \in Nat :
            /\ Settled(node[j].commit, node[j].term, e, k)
            /\ HasAt(node[j].log, node[j].commit, Under(e, node[j].commit))
    BY <1>2 DEF CommitStep, CommitInv, CommitsSound
  <2>2. PICK k \in Nat :
            /\ Settled(node[j].commit, node[j].term, e, k)
            /\ HasAt(node[j].log, node[j].commit, Under(e, node[j].commit))
    BY <2>1
  <2>3. Settled(node[j].commit, node[j].term, e, k)' /\ e \in elected'
    BY SMTT(60), <1>1, <1>2, <2>2, SettledStays
  <2>4. HasAt(node'[j].log, node'[j].commit, Under(e, node'[j].commit))
    BY <1>2, <2>2 DEF HasAt
  <2> QED
    BY <2>3, <2>4
<1>3. CASE j # i
  <2>1. node'[j] = node[j] /\ node[j].commit =< Len(node[j].log.entries)
    BY <1>3, CalmCases DEF CommitStep, CommitInv, CommitsSound, HasAt
  <2> QED
    BY <1>2, <2>1
<1>4. CASE j = i /\ node'[i].commit = node[i].commit
  <2>1. node[i].commit \in 1..node[i].commit
    BY SMTT(60), <1>1, <1>4
  <2> QED
    BY <1>2, <1>4, <2>1, CommittedKept, Zenon
<1>5. CASE j = i /\ node'[i].commit # node[i].commit /\ (Grows(i) \/ Counts(i))
  BY <1>1, <1>5, LeaderCommits
<1>6. CASE j = i /\ node'[i].commit # node[i].commit /\ Learns(i)
  <2> DEFINE h == node'[i].log
             c == node'[i].commit
  <2>1. PICK m \in Appends(net), e \in elected :
           /\ e.term = node'[i].term /\ m.term = node'[i].term
           /\ \A o \in 1..Len(h.entries) : h.entries[o].term = Under(e, o)
           /\ node'[i].commit = IF m.commit > node[i].commit THEN Smaller(m.commit, LastIndex(h)) ELSE node[i].commit
    BY <1>6, LearnFacts
  <2>2. m.commit \in Nat /\ m.term \in Nat /\ Len(h.entries) \in Nat /\ h.offset = 0
    BY AppendFacts, StepTypes, ServerFacts DEF CommitStep, Uncompacted
  <2>3. LastIndex(h) = Len(h.entries)
    BY SMTT(60), <2>2 DEF LastIndex
  <2>4. c =< m.commit /\ c =< Len(h.entries) /\ m.commit > 0 /\ c \in Nat /\ c > 0
    BY SMTT(60), <1>1, <1>6, <2>1, <2>2, <2>3 DEF Smaller
  <2>5. PICK f \in elected : \E k \in Nat : Settled(m.commit, m.term, f, k)
    BY <2>4 DEF CommitStep, CommitInv, EntriesSound
  <2>6. PICK k \in Nat : Settled(m.commit, m.term, f, k)
    BY <2>5
  <2>7. Settled(node[i].commit, node[i].term, f, k)' /\ f \in elected'
    BY SMTT(60), <1>1, <1>6, <2>1, <2>2, <2>4, <2>6, SettledStays
  <2>8. Under(e, c) = Under(f, c)
    <3>1. c \in 1..k /\ f.term =< e.term /\ Chosen(k, f)
      BY SMTT(60), <2>1, <2>2, <2>4, <2>6 DEF Settled
    <3> QED
      BY <3>1, UnderChosen DEF CommitStep
  <2>9. HasAt(h, c, Under(f, c))
    <3>1. c \in 1..Len(h.entries)
      BY SMTT(60), <2>2, <2>4
    <3> HIDE DEF h, c
    <3>2. h.entries[c].term = Under(f, c)
      BY <2>1, <2>8, <3>1
    <3> QED
      BY SMTT(60), <2>4, <3>1, <3>2 DEF HasAt
  <2> QED
    BY <1>6, <2>7, <2>9
<1>7. CASE Stays(i) \/ Stands(i) \/ Wins(i)
  BY <1>3, <1>4, <1>7 DEF Stays, Stands, Wins
<1> QED
  BY <1>3, <1>4, <1>5, <1>6, <1>7, CalmCases

-----------------------------------------------------------------------------
(* What servers send                                                       *)

\* A part of a leader's log.
LEMMA PartOfLeader ==
  ASSUME NEW l \in Log, NEW M \in Piece, Part(M, Whole(l)), NEW e, LedBy(l, e)
  PROVE  PartUnder(M, e)
<1>1. Len(l.entries) \in Nat
  BY LogFacts
<1>2. \A k \in Nat : Has(Whole(l), k) => At(Whole(l), k).term = Under(e, k)
  BY SMTT(60), <1>1, WholeFacts DEF LedBy
<1> SUFFICES ASSUME NEW o \in Nat \ {0}, Knows(M, o), ~(o = M.prev /\ M.term = 0)
             PROVE  TermOf(M, o) = Under(e, o)
  BY DEF PartUnder
<1>3. CASE o = M.prev
  BY <1>2, <1>3 DEF Part, TermOf
<1>4. CASE o # M.prev
  <2>1. Has(M, o)
    BY <1>4 DEF Knows
  <2> QED
    BY <1>2, <1>4, <2>1 DEF Part, TermOf
<1> QED
  BY <1>3, <1>4

LEMMA EntriesStep ==
  ASSUME NEW i \in Server, CommitStep(i)
  PROVE  EntriesSound'
<1> SUFFICES ASSUME NEW m \in Appends(net')
             PROVE  /\ \E e \in elected' : e.term = m.term /\ PartUnder(Sent(m), e)
                    /\ m.commit > 0 => \E e \in elected' : \E k \in Nat : Settled(m.commit, m.term, e, k)'
  BY DEF EntriesSound
<1>1. PICK p \in Server, q \in Server : m \in Carries(net', p, q)
  BY SMTT(60) DEF Appends, Mail
<1>2. m.type = "AppendEntries"
  BY DEF Appends
<1>3. CASE m \in Carries(net, p, q)
  <2>1. m \in Appends(net)
    BY <1>2, <1>3, MailFacts, StepTypes DEF CommitStep, Appends
  <2>2. m.term \in Nat /\ m.commit \in Nat
    BY <2>1, AppendFacts, StepTypes DEF CommitStep
  <2>3. \E e \in elected' : e.term = m.term /\ PartUnder(Sent(m), e)
    BY <2>1, NewElection DEF CommitStep, CommitInv, EntriesSound
  <2>4. ASSUME m.commit > 0 PROVE \E e \in elected' : \E k \in Nat : Settled(m.commit, m.term, e, k)'
    <3>1. PICK e \in elected : \E k \in Nat : Settled(m.commit, m.term, e, k)
      BY <2>1, <2>4 DEF CommitStep, CommitInv, EntriesSound
    <3>2. PICK k \in Nat : Settled(m.commit, m.term, e, k)
      BY <3>1
    <3>3. Settled(m.commit, m.term, e, k)' /\ e \in elected'
      BY SMTT(60), <2>2, <3>2, SettledStays
    <3> QED
      BY <3>3
  <2> QED
    BY <2>3, <2>4
<1>4. CASE p = i /\ Posted(i, q, m)
  <2>1. /\ m \in Message /\ m.term = node'[i].term /\ Sent(m) \in Piece
        /\ Part(Sent(m), Whole(node'[i].log)) /\ m.commit =< node'[i].commit
        /\ node'[i].state = "Leader" \/ Grows(i)
    BY <1>2, <1>4 DEF Posted
  <2>2. m.term \in Nat /\ m.commit \in Nat
    BY <1>2, <2>1, AppendMessage
  <2>3. PICK e \in elected' : e.term = node'[i].term /\ LedBy(node'[i].log, e)
    <3>1. CASE Grows(i)
      BY <3>1, LeaderLog, NewElection DEF CommitStep
    <3>2. CASE node'[i].state = "Leader"
      BY <3>2 DEF CommitStep, LogInv, ServersSound, Leading
    <3> QED
      BY <2>1, <3>1, <3>2
  <2>4. PartUnder(Sent(m), e)
    BY <2>1, <2>3, PartOfLeader, StepTypes, ServerFacts, Zenon DEF CommitStep
  <2>5. ASSUME m.commit > 0 PROVE \E f \in elected' : \E k \in Nat : Settled(m.commit, m.term, f, k)'
    <3>1. node'[i].commit > 0 /\ node'[i].commit \in Nat
      <4>1. node'[i].commit \in Nat
        BY StepTypes, ServerFacts DEF CommitStep
      <4> QED
        BY SMTT(60), <2>1, <2>2, <2>5, <4>1
    <3>2. PICK f \in elected' : \E k \in Nat : Settled(node[i].commit, node[i].term, f, k)'
      BY <3>1, CommitsStep DEF CommitsSound
    <3>3. PICK k \in Nat : Settled(node[i].commit, node[i].term, f, k)'
      BY <3>2
    <3>4. Settled(m.commit, m.term, f, k)'
      BY SMTT(60), <2>1, <2>2, <3>1, <3>3 DEF Settled
    <3> QED
      BY <3>4
  <2> QED
    BY <2>1, <2>3, <2>4, <2>5
<1> QED
  BY <1>1, <1>3, <1>4 DEF CommitStep, LogStep, Move, MailMoves

LEMMA AcksStep ==
  ASSUME NEW i \in Server, CommitStep(i)
  PROVE  AcksSound'
<1> SUFFICES ASSUME NEW p \in Server, NEW q \in Server, NEW m \in Carries(net', p, q),
                    m.type = "AppendEntriesResponse", m.success
             PROVE  \E e \in elected' : e.term = m.term /\ StoredUpTo(p, m.match, e)'
  BY DEF AcksSound
<1>1. CASE m \in Carries(net, p, q)
  <2>1. PICK e \in elected : e.term = m.term /\ StoredUpTo(p, m.match, e)
    BY <1>1 DEF CommitStep, CommitInv, AcksSound
  <2> QED
    BY <2>1, StoredUpToStays, NewElection DEF CommitStep
<1>2. CASE m \notin Carries(net, p, q)
  <2>1. p = i /\ Posted(i, q, m)
    BY <1>2 DEF CommitStep, LogStep, Move, MailMoves
  <2>2. m.match = LastIndex(node'[i].log) /\ m.term = node'[i].term
    BY <2>1 DEF Posted
  <2>3. Learns(i)
    BY <1>2, <2>1 DEF CommitStep, LogStep, Move, Acknowledges
  <2> QED
    BY <2>1, <2>2, <2>3, StoredLearnt
<1> QED
  BY <1>1, <1>2

-----------------------------------------------------------------------------
(* What servers apply                                                      *)

Commands(es) == [k \in 1..Len(es) |-> es[k].command]

\* A state machine in state a takes the commands of s from c + 1 to d.
Took(a, s, c, d, b) == b = a \o Commands(SubSeq(s, c + 1, d))

LEMMA CommandsType ==
  ASSUME NEW es \in Seq(Entry)
  PROVE  /\ Commands(es) \in Seq(Command) /\ Len(Commands(es)) = Len(es)
         /\ \A k \in 1..Len(es) : Commands(es)[k] = es[k].command
<1>1. Len(es) \in Nat /\ \A k \in 1..Len(es) : es[k] \in Entry
  BY LenProperties, ElementOfSeq
<1>2. \A k \in 1..Len(es) : es[k].command \in Command
  BY <1>1 DEF Entry
<1>3. Commands(es) \in [1..Len(es) -> Command]
  BY <1>2 DEF Commands
<1>4. Commands(es) \in Seq(Command)
  BY <1>1, <1>3, ListLen
<1>5. Len(Commands(es)) = Len(es)
  BY SMTT(60), <1>1, <1>3, <1>4, LenProperties
<1> QED
  BY <1>4, <1>5 DEF Commands

LEMMA JoinFacts ==
  ASSUME NEW a \in Seq(Command), NEW t \in Seq(Command)
  PROVE  /\ Len(a \o t) = Len(a) + Len(t)
         /\ \A x \in 1..(Len(a) + Len(t)) : (a \o t)[x] = IF x =< Len(a) THEN a[x] ELSE t[x - Len(a)]
  BY ConcatProperties

LEMMA Taken ==
  ASSUME NEW s \in Seq(Entry), NEW a \in Seq(Command), NEW c \in Nat, NEW d \in Nat, Len(a) = c,
         c < d, d =< Len(s), NEW b, Took(a, s, c, d, b)
  PROVE  /\ Len(b) = d
         /\ \A x \in 1..c : b[x] = a[x]
         /\ \A x \in (c + 1)..d : b[x] = s[x].command
<1> DEFINE es == SubSeq(s, c + 1, d)
           t == Commands(es)
<1>1. \A k \in (c + 1)..d : s[k] \in Entry
  BY SMTT(60), LenProperties, ElementOfSeq
<1>2. /\ es \in Seq(Entry) /\ Len(es) = d - c
      /\ \A k \in 1..(d - c) : es[k] = s[c + k]
  <2>1. /\ es \in Seq(Entry)
        /\ Len(es) = IF c + 1 =< d THEN d - (c + 1) + 1 ELSE 0
        /\ \A k \in 1..(d - (c + 1) + 1) : es[k] = s[(c + 1) + k - 1]
    BY SMTT(60), <1>1, SubSeqProperties
  <2>2. d - (c + 1) + 1 = d - c /\ \A k \in 1..(d - c) : (c + 1) + k - 1 = c + k
    BY SMTT(60)
  <2> HIDE DEF es
  <2> QED
    BY SMTT(60), <2>1, <2>2
<1> HIDE DEF es
<1>3. /\ t \in Seq(Command) /\ Len(t) = d - c
      /\ \A k \in 1..(d - c) : t[k] = s[c + k].command
  <2>1. /\ t \in Seq(Command) /\ Len(t) = Len(es)
        /\ \A k \in 1..Len(es) : t[k] = es[k].command
    BY <1>2, CommandsType, Zenon
  <2> HIDE DEF t
  <2> QED
    BY <1>2, <2>1
<1>4. b = a \o t
  BY DEF Took, es
<1> HIDE DEF t
<1>5. /\ Len(a \o t) = Len(a) + Len(t)
      /\ \A x \in 1..(Len(a) + Len(t)) : (a \o t)[x] = IF x =< Len(a) THEN a[x] ELSE t[x - Len(a)]
  <2>1. t \in Seq(Command)
    BY <1>3
  <2> QED
    BY <2>1, JoinFacts, Zenon
<1>6. Len(a) + Len(t) = d
  BY SMTT(60), <1>3
<1>7. Len(b) = d /\ \A x \in 1..d : b[x] = IF x =< c THEN a[x] ELSE t[x - c]
  BY <1>4, <1>5, <1>6
<1>8. ASSUME NEW x \in (c + 1)..d PROVE b[x] = s[x].command
  <2>1. x - c \in 1..(d - c) /\ c + (x - c) = x /\ x \in 1..d /\ ~(x =< c)
    BY SMTT(60)
  <2> QED
    BY <1>3, <1>7, <2>1
<1>9. \A x \in 1..c : b[x] = a[x]
  BY SMTT(60), <1>7
<1> QED
  BY <1>7, <1>8, <1>9

LEMMA MachinesStep ==
  ASSUME NEW i \in Server, CommitStep(i)
  PROVE  MachinesSound'
<1> DEFINE n == node[i]
           v == node'[i]
           c == n.commit
           d == v.commit
           l == n.log.entries
           h == v.log.entries
<1>1. n.applied = c /\ Len(n.machine) = c /\ \A x \in 1..c : n.machine[x] = l[x].command
  BY DEF CommitStep, CommitInv, MachinesSound
<1>2. c =< d /\ \A x \in 1..c : h[x] = l[x]
  BY CommittedKept
<1>3. /\ c \in Nat /\ d \in Nat /\ n.machine \in Seq(Command) /\ h \in Seq(Entry) /\ Len(h) \in Nat
      /\ LastIndex(v.log) = Len(h)
  <2>1. node[i] \in NodeState /\ node'[i] \in NodeState /\ node'[i].log.offset = 0
    BY StepTypes DEF CommitStep, Uncompacted
  <2>2. LastIndex(v.log) = Len(h)
    BY SMTT(60), <2>1, ServerFacts DEF LastIndex
  <2> QED
    BY <2>1, <2>2, ServerFacts, LogFacts
<1>4. d > 0 => d =< Len(h)
  BY CommitsStep DEF CommitsSound, HasAt
<1>5. v.applied = d /\ Len(v.machine) = d /\ \A x \in 1..d : v.machine[x] = h[x].command
  <2>1. CASE node'[i] = node[i]
    BY <1>1, <2>1
  <2>2. CASE d =< n.applied /\ v.applied = n.applied /\ v.machine = n.machine
    <3>1. d = c
      BY SMTT(60), <1>1, <1>2, <1>3, <2>2
    <3> QED
      BY <1>1, <1>2, <2>2, <3>1
  <2>3. CASE /\ n.applied < d /\ v.applied = d
             /\ LET es == SubSeq(h, n.applied + 1, Smaller(d, LastIndex(v.log)))
                IN  v.machine = n.machine \o [k \in 1..Len(es) |-> es[k].command]
    <3>1. c < d /\ d =< Len(h) /\ Smaller(d, LastIndex(v.log)) = d
      <4>1. n.applied < d
        BY <2>3, Zenon
      <4> QED
        BY SMTT(60), <1>1, <1>3, <1>4, <4>1 DEF Smaller
    <3> DEFINE a == n.machine
               b == v.machine
    <3>2. Took(a, h, c, d, b)
      BY <1>1, <2>3, <3>1, Zenon DEF Took, Commands
    <3>3. a \in Seq(Command) /\ Len(a) = c
      BY <1>1, <1>3
    <3> HIDE DEF a, b, h, l, c, d
    <3>4. /\ Len(b) = d
          /\ \A x \in 1..c : b[x] = a[x]
          /\ \A x \in (c + 1)..d : b[x] = h[x].command
      <4>1. h \in Seq(Entry) /\ c \in Nat /\ d \in Nat /\ c < d /\ d =< Len(h)
        BY <1>3, <3>1
      <4> QED
        BY SMTT(60), <3>2, <3>3, <4>1, Taken
    <3>5. \A x \in 1..c : a[x] = h[x].command
      BY <1>1, <1>2 DEF a
    <3>6. \A x \in 1..d : b[x] = h[x].command
      BY SMTT(60), <1>3, <3>4, <3>5
    <3> QED
      BY <2>3, <3>4, <3>6, Zenon DEF b
  <2> QED
    BY <2>1, <2>2, <2>3, CalmCases, Zenon DEF Applies
<1> HIDE DEF n, v
<1>6. \A j \in Server \ {i} : node'[j] = node[j]
  BY CalmCases
<1>7. ASSUME NEW j \in Server
      PROVE  /\ node'[j].applied = node'[j].commit /\ Len(node'[j].machine) = node'[j].commit
             /\ \A x \in 1..node'[j].commit : node'[j].machine[x] = node'[j].log.entries[x].command
  <2>1. CASE j = i
    BY <1>5, <2>1 DEF v
  <2>2. CASE j # i
    BY SMTT(60), <1>6, <2>2 DEF CommitStep, CommitInv, MachinesSound
  <2> QED
    BY <2>1, <2>2
<1> QED
  BY <1>7 DEF MachinesSound

(* The invariant is kept. *)
LEMMA CommitInvStep ==
  ASSUME NEW i \in Server, CommitStep(i)
  PROVE  CommitInv'
  BY GrantsStep, RequestsStep, EntriesStep, AcksStep, MatchStep, CommitsStep, MachinesStep, PlainStep
     DEF CommitInv

LEMMA CommitInvInit ==
  ASSUME Fresh, \A i \in Server : Peers[i] \cup {i} = Server
  PROVE  CommitInv
<1>1. \A i \in Server : /\ node[i].log = EmptyLog /\ node[i].state = "Follower" /\ node[i].members = Server
                        /\ node[i].commit = 0 /\ node[i].applied = 0 /\ node[i].machine = <<>>
  BY Zenon DEF Fresh
<1>2. elected = {} /\ granted = {}
  BY DEF Fresh
<1>3. \A p, q \in Server : Carries(net, p, q) = {}
  BY DEF Fresh
<1>4. Appends(net) = {}
  BY SMTT(60), <1>3 DEF Appends, Mail
<1>5. MachinesSound
  BY SMTT(60), <1>1 DEF MachinesSound
<1>6. Plain
  BY SMTT(60), <1>1, <1>2 DEF Plain, EmptyLog
<1>7. MatchSound /\ CommitsSound
  BY SMTT(60), <1>1 DEF MatchSound, CommitsSound
<1>8. GrantsSound /\ RequestsSound /\ EntriesSound /\ AcksSound
  BY <1>2, <1>3, <1>4 DEF GrantsSound, RequestsSound, EntriesSound, AcksSound
<1> QED
  BY <1>5, <1>6, <1>7, <1>8 DEF CommitInv

-----------------------------------------------------------------------------
(* What the invariant says of the state machines                           *)

\* What a server has committed is the log of a leader whose entry was chosen.
Ground(i, f, k) ==
    /\ Chosen(k, f) /\ node[i].commit =< k
    /\ \A o \in 1..node[i].commit : /\ o =< Len(node[i].log.entries)
                                    /\ node[i].log.entries[o].term = Under(f, o)

LEMMA CommitGround ==
  ASSUME Grounds, CommitsSound, NEW i \in Server, node[i].commit \in Nat, node[i].commit > 0
  PROVE  \E f \in elected : \E k \in Nat : Ground(i, f, k)
<1> DEFINE c == node[i].commit
           l == node[i].log
<1>1. PICK f \in elected : \E k \in Nat : Settled(c, node[i].term, f, k) /\ HasAt(l, c, Under(f, c))
  BY DEF CommitsSound
<1>2. PICK k \in Nat : Settled(c, node[i].term, f, k) /\ HasAt(l, c, Under(f, c))
  BY <1>1
<1>3. l \in Log /\ Len(l.entries) \in Nat
  BY GroundFacts
<1>4. Has(Whole(l), c) /\ l.entries[c].term = Under(f, c) /\ c \in Nat /\ c =< Len(l.entries)
  BY <1>2, <1>3, WholeFacts DEF HasAt
<1>5. \A o \in 1..c : l.entries[o].term = Under(f, o)
  BY SMTT(60), <1>3, <1>4, GroundFacts, UnderMatch
<1>6. \A o \in 1..c : o =< Len(l.entries)
  BY SMTT(60), <1>3, <1>4
<1>7. Ground(i, f, k)
  BY <1>2, <1>5, <1>6 DEF Ground, Settled
<1> QED
  BY <1>7

LEMMA GroundsAgree ==
  ASSUME Grounds, NEW i \in Server, NEW j \in Server, node[i].commit \in Nat, node[j].commit \in Nat,
         NEW f \in elected, NEW g \in elected, f.term =< g.term, NEW x \in Nat, NEW y \in Nat,
         Ground(i, f, x), Ground(j, g, y), NEW k \in Nat, 1 =< k, k =< node[i].commit, k =< node[j].commit
  PROVE  node[i].log.entries[k] = node[j].log.entries[k]
<1> DEFINE a == node[i].log
           b == node[j].log
<1>1. k \in 1..x /\ k \in 1..node[i].commit /\ k \in 1..node[j].commit /\ Chosen(x, f)
  BY SMTT(60) DEF Ground
<1>2. Under(g, k) = Under(f, k)
  BY <1>1, UnderChosen
<1>3. /\ k =< Len(a.entries) /\ k =< Len(b.entries)
      /\ a.entries[k].term = b.entries[k].term
  BY <1>1, <1>2, Zenon DEF Ground
<1>4. a \in Log /\ b \in Log
  BY GroundFacts
<1>5. Has(Whole(a), k) /\ Has(Whole(b), k) /\ At(Whole(a), k) = a.entries[k] /\ At(Whole(b), k) = b.entries[k]
  BY <1>3, <1>4, WholeFacts
<1>6. Same(Whole(a), Whole(b))
  BY DEF Grounds, LogInv, PiecesSound, Pieces
<1> QED
  BY <1>3, <1>5, <1>6 DEF Same

LEMMA CommitsAgree ==
  ASSUME Grounds, CommitInv
  PROVE  MachinesAgree
<1> SUFFICES ASSUME NEW i \in Server, NEW j \in Server,
                    NEW k \in 1..Smaller(Len(node[i].machine), Len(node[j].machine))
             PROVE  node[i].machine[k] = node[j].machine[k]
  BY DEF MachinesAgree
<1>1. /\ node[i].commit \in Nat /\ node[j].commit \in Nat
      /\ Len(node[i].machine) = node[i].commit /\ Len(node[j].machine) = node[j].commit
  BY GroundFacts, ServerFacts DEF CommitInv, MachinesSound
<1>2. k \in Nat /\ 1 =< k /\ k =< node[i].commit /\ k =< node[j].commit
  BY SMTT(60), <1>1 DEF Smaller
<1>3. k \in 1..node[i].commit /\ k \in 1..node[j].commit
  BY SMTT(60), <1>1, <1>2
<1>4. node[i].machine[k] = node[i].log.entries[k].command /\ node[j].machine[k] = node[j].log.entries[k].command
  BY <1>3 DEF CommitInv, MachinesSound
<1>5. PICK f \in elected, x \in Nat : Ground(i, f, x)
  BY SMTT(60), <1>1, <1>2, CommitGround DEF CommitInv
<1>6. PICK g \in elected, y \in Nat : Ground(j, g, y)
  BY SMTT(60), <1>1, <1>2, CommitGround DEF CommitInv
<1>7. f.term \in Nat /\ g.term \in Nat
  BY GroundFacts
<1>8. node[i].log.entries[k] = node[j].log.entries[k]
  <2>1. CASE f.term =< g.term
    BY <1>1, <1>2, <1>5, <1>6, <2>1, GroundsAgree
  <2>2. CASE g.term =< f.term
    BY <1>1, <1>2, <1>5, <1>6, <2>2, GroundsAgree
  <2> QED
    BY SMTT(60), <1>7, <2>1, <2>2
<1> QED
  BY <1>4, <1>8

=============================================================================
