------------------------- MODULE RaftElectionProofs -------------------------
(***************************************************************************)
(* Theorems about RaftElection, for every number of nodes and every bound. *)
(***************************************************************************)
EXTENDS RaftElection, TLAPS, FiniteSetTheorems

-----------------------------------------------------------------------------
(***************************************************************************)
(* Type correctness.                                                       *)
(***************************************************************************)

(* refreshTerm keeps the types of the three fields it writes.              *)
LEMMA RefreshTermType ==
  ASSUME TypeOK, NEW j \in Node, NEW t \in Nat, RefreshTerm(j, t)
  PROVE  /\ currentTerm' \in [Node -> Nat]
         /\ votedFor' \in [Node -> Node \cup {None}]
         /\ role' \in [Node -> Role]
BY DEF TypeOK, RefreshTerm, Role

(* A call under way names a peer, a vote and a term.                       *)
LEMMA CallType ==
  ASSUME TypeOK, NEW i \in Node, call[i].phase \in CallPhase
  PROVE  /\ call[i].dest \in Node
         /\ call[i].granted \in BOOLEAN
         /\ call[i].term \in Nat
BY DEF TypeOK, Call, CallPhase, NoCall, VoteCall

(* Whether a vote is granted is a truth value.                             *)
LEMMA GrantIsBoolean ==
  ASSUME NEW j, NEW i PROVE RequirementsToGrantVote(j, i) \in BOOLEAN
BY DEF RequirementsToGrantVote

(* Every step of the thread that runs newElection keeps the types.         *)
LEMMA ElectionStepType ==
  ASSUME TypeOK, NEW i \in Node, ElectionStep(i)
  PROVE  TypeOK'
<1> USE DEF TypeOK, threadVars, beatVars, stateVars, Goto, ThreadPoint
<1>1. CASE IncrementTerm(i)
  BY <1>1 DEF IncrementTerm
<1>2. CASE VoteForSelf(i)
  BY <1>2 DEF VoteForSelf, Role
<1>3. CASE BuildRequest(i)
  BY <1>3 DEF BuildRequest, Request, Peers
<1>4. ASSUME NEW j \in unasked[i], CheckVoteRequest(i, j)
      PROVE  TypeOK'
  <2>1. j \in Node /\ request[i].term \in Nat
    BY DEF Request
  <2>2. RefreshTerm(j, request[i].term)
    BY <1>4 DEF CheckVoteRequest
  <2> QED
    BY <1>4, <2>1, <2>2, RefreshTermType
       DEF CheckVoteRequest, Call, VoteCall, CallPhase
<1>5. ASSUME NEW j \in unasked[i], LoseVoteRequest(i, j)
      PROVE  TypeOK'
  BY <1>5 DEF LoseVoteRequest
<1>6. ASSUME NEW j \in unasked[i], VoteRequestThrows(i, j)
      PROVE  TypeOK'
  BY <1>6 DEF VoteRequestThrows
<1>7. CASE DecideVote(i)
  <2>1. call[i].dest \in Node
    BY <1>7, CallType DEF DecideVote, CallPhase
  <2>2. RequirementsToGrantVote(call[i].dest, i) \in BOOLEAN
    BY GrantIsBoolean
  <2> QED
    BY <1>7, <2>1, <2>2 DEF DecideVote, Call, CallPhase, VoteCall
<1>8. CASE AnswerVote(i)
  <2>1. call[i].dest \in Node /\ call[i].granted \in BOOLEAN
    BY <1>8, CallType DEF AnswerVote, CallPhase
  <2> QED
    BY <1>8, <2>1 DEF AnswerVote, Call, CallPhase, VoteCall
<1>9. CASE ReceiveVoteReply(i)
  <2>1. call[i].dest \in Node /\ call[i].term \in Nat
    BY <1>9, CallType DEF ReceiveVoteReply, CallPhase
  <2>2. call' \in [Node -> Call]
    BY <1>9 DEF ReceiveVoteReply, Call
  <2>3. CASE call[i].term > currentTerm[i]
    BY <1>9, <2>1, <2>2, <2>3, RefreshTermType DEF ReceiveVoteReply
  <2>4. CASE ~(call[i].term > currentTerm[i])
    BY <1>9, <2>1, <2>2, <2>4 DEF ReceiveVoteReply
  <2> QED
    BY <2>3, <2>4
<1>10. CASE CountVotes(i)
  BY <1>10 DEF CountVotes
<1>11. CASE ToLeaderState(i)
  BY <1>11 DEF ToLeaderState, Role, BeatPhase
<1> QED
  BY <1>1, <1>2, <1>3, <1>4, <1>5, <1>6, <1>7, <1>8, <1>9, <1>10, <1>11
     DEF ElectionStep

(* The constructor gives every field its type.                             *)
LEMMA InitType == Init => TypeOK
BY NumPeersAssumption
   DEF Init, TypeOK, Role, ThreadPoint, BeatPhase, Entry, NoEntry,
       Request, NoRequest, Call

(* Every step keeps the types.                                             *)
LEMMA NextType == TypeOK /\ [Next]_vars => TypeOK'
<1> SUFFICES ASSUME TypeOK, [Next]_vars PROVE TypeOK'
  OBVIOUS
<1>1. CASE UNCHANGED vars
  BY <1>1 DEF TypeOK, vars
<1>2. ASSUME NEW i \in Node, ClearHeartBeat(i) PROVE TypeOK'
  BY <1>2 DEF ClearHeartBeat, TypeOK, threadVars, beatVars
<1>3. ASSUME NEW i \in Node, Timeout(i) PROVE TypeOK'
  BY <1>3 DEF Timeout, TypeOK, stateVars, beatVars, Goto, ThreadPoint
<1>4. ASSUME NEW i \in Node, ElectionStep(i) PROVE TypeOK'
  BY <1>4, ElectionStepType
<1>5. ASSUME NEW i \in Node, HeartBeatStep(i) PROVE TypeOK'
  BY <1>5 DEF HeartBeatStep, HeartBeatBegins, HeartBeatSends, HeartBeatThrows,
              TypeOK, stateVars, threadVars, BeatPhase
<1>6. ASSUME NEW i \in Node, NEW m \in announced, ReceiveAppendEntries(i, m)
      PROVE  TypeOK'
  <2>1. m[1] \in Node /\ m[2] \in Nat /\ currentTerm[i] \in Nat
    BY DEF TypeOK
  <2>2. CASE m[2] >= currentTerm[i]
    BY <1>6, <2>1, <2>2, RefreshTermType
       DEF ReceiveAppendEntries, TypeOK, threadVars
  <2>3. CASE ~(m[2] >= currentTerm[i])
    <3>1. <<m[1], currentTerm[i]>> \in Node \X Nat
      BY <2>1
    <3>2. refusals' = refusals \cup {<<m[1], currentTerm[i]>>}
      BY <1>6, <2>3 DEF ReceiveAppendEntries, ReplyTerm
    <3> QED
      BY <1>6, <2>3, <3>1, <3>2 DEF ReceiveAppendEntries, TypeOK, threadVars
  <2> QED
    BY <2>2, <2>3
<1>7. ASSUME NEW i \in Node, NEW m \in refusals, ReceiveAppendReply(i, m[2])
      PROVE  TypeOK'
  <2>1. m[2] \in Nat
    BY DEF TypeOK
  <2> QED
    BY <1>7, <2>1, RefreshTermType
       DEF ReceiveAppendReply, TypeOK, threadVars, beatVars
<1>8. ASSUME NEW i \in Node, LogChanges(i) PROVE TypeOK'
  <2>1. 1 .. currentTerm[i] \subseteq Nat /\ 1 .. MaxIndex \subseteq Nat
    BY BoundsAssumption DEF TypeOK
  <2> QED
    BY <1>8, <2>1 DEF LogChanges, TypeOK, Entry, NoEntry, threadVars, beatVars
<1> QED
  BY <1>1, <1>2, <1>3, <1>4, <1>5, <1>6, <1>7, <1>8 DEF Next

(* Every field of every node keeps its type in every behaviour.            *)
THEOREM TypeCorrect == Spec => []TypeOK
BY InitType, NextType, PTL DEF Spec

-----------------------------------------------------------------------------
(***************************************************************************)
(* What holds with every window of newElection open.                       *)
(***************************************************************************)

(* refreshTerm leaves a node alone or makes it a follower of a higher term *)
(* without a vote; it touches no other node.                               *)
LEMMA RefreshTermEffect ==
  ASSUME TypeOK, NEW j \in Node, NEW t \in Nat, RefreshTerm(j, t),
         NEW k \in Node
  PROVE  \/ /\ currentTerm'[k] = currentTerm[k]
            /\ votedFor'[k] = votedFor[k]
            /\ role'[k] = role[k]
            /\ k = j => t <= currentTerm[k]
         \/ /\ k = j /\ t > currentTerm[k]
            /\ currentTerm'[k] = t
            /\ votedFor'[k] = None
            /\ role'[k] = "FOLLOWER"
BY DEF TypeOK, RefreshTerm

(* A step that only refreshes the term of a node keeps OpenInv.            *)
LEMMA RefreshKeepsOpenInv ==
  ASSUME TypeOK, OpenInv, NEW j \in Node, NEW t \in Nat, RefreshTerm(j, t),
         UNCHANGED <<pc, call, request, unasked>>
  PROVE  OpenInv'
<1>1. ASSUME NEW k \in Node
      PROVE  /\ role'[k] = "LEADER" => pc'[k] = "idle"
             /\ role'[k] = "CANDIDATE" /\ pc'[k] = "collect"
                  => currentTerm'[k] = request'[k].term
  BY RefreshTermEffect DEF OpenInv, ThreadDiscipline, CandidateTermStable
<1> QED
  BY <1>1 DEF OpenInv, ThreadDiscipline, CandidateTermStable

(* No step of newElection breaks OpenInv, whatever the windows.            *)
LEMMA ElectionKeepsOpenInv ==
  ASSUME TypeOK, OpenInv, NEW i \in Node, ElectionStep(i)
  PROVE  OpenInv'
<1> USE DEF OpenInv, ThreadDiscipline, CandidateTermStable, TypeOK, Goto,
            stateVars, threadVars, beatVars
<1>1. CASE IncrementTerm(i)
  BY <1>1 DEF IncrementTerm
<1>2. CASE VoteForSelf(i)
  BY <1>2 DEF VoteForSelf
<1>3. CASE BuildRequest(i)
  BY <1>3 DEF BuildRequest, Peers
<1>4. ASSUME NEW j \in unasked[i], CheckVoteRequest(i, j)
      PROVE  OpenInv'
  <2>1. j \in Node /\ i # j /\ request[i].term \in Nat /\ pc[i] = "collect"
    BY <1>4 DEF Request, CheckVoteRequest, Reached
  <2>2. ASSUME NEW k \in Node
        PROVE  /\ role'[k] = "LEADER" => pc'[k] = "idle"
               /\ role'[k] = "CANDIDATE" /\ pc'[k] = "collect"
                    => currentTerm'[k] = request'[k].term
    BY <1>4, <2>1, RefreshTermEffect DEF CheckVoteRequest
  <2>3. ASSUME NEW k \in Node
        PROVE  /\ call'[k] # NoCall => pc'[k] = "collect"
               /\ k \notin unasked'[k] /\ call'[k].dest # k
    BY <1>4, <2>1 DEF CheckVoteRequest, VoteCall
  <2> QED
    BY <2>2, <2>3
<1>5. ASSUME NEW j \in unasked[i], LoseVoteRequest(i, j)
      PROVE  OpenInv'
  BY <1>5 DEF LoseVoteRequest
<1>6. ASSUME NEW j \in unasked[i], VoteRequestThrows(i, j)
      PROVE  OpenInv'
  BY <1>6 DEF VoteRequestThrows, Reached
<1>7. CASE DecideVote(i)
  <2>1. pc[i] = "collect"
    BY <1>7 DEF DecideVote, NoCall, VoteCall
  <2>2. /\ \A k \in Node : k # i => call'[k] = call[k]
        /\ call'[i].dest = call[i].dest
    BY <1>7 DEF DecideVote, VoteCall
  <2> QED
    BY <1>7, <2>1, <2>2 DEF DecideVote
<1>8. CASE AnswerVote(i)
  <2>1. pc[i] = "collect"
    BY <1>8 DEF AnswerVote, NoCall, VoteCall
  <2>2. /\ \A k \in Node : k # i => call'[k] = call[k]
        /\ call'[i].dest = call[i].dest
    BY <1>8 DEF AnswerVote, VoteCall
  <2> QED
    BY <1>8, <2>1, <2>2 DEF AnswerVote
<1>9. CASE ReceiveVoteReply(i)
  <2>1. call[i].term \in Nat /\ pc[i] = "collect"
    BY <1>9, CallType DEF ReceiveVoteReply, CallPhase, NoCall, VoteCall
  <2>2. ASSUME NEW k \in Node
        PROVE  /\ role'[k] = "LEADER" => pc'[k] = "idle"
               /\ role'[k] = "CANDIDATE" /\ pc'[k] = "collect"
                    => currentTerm'[k] = request'[k].term
    <3>1. CASE call[i].term > currentTerm[i]
      BY <1>9, <2>1, <3>1, RefreshTermEffect DEF ReceiveVoteReply
    <3>2. CASE ~(call[i].term > currentTerm[i])
      BY <1>9, <2>1, <3>2 DEF ReceiveVoteReply
    <3> QED
      BY <3>1, <3>2
  <2>3. ASSUME NEW k \in Node
        PROVE  /\ call'[k] # NoCall => pc'[k] = "collect"
               /\ k \notin unasked'[k] /\ call'[k].dest # k
    <3>1. None \notin Node
      BY NumPeersAssumption DEF None, Node
    <3> QED
      BY <1>9, <2>1, <3>1 DEF ReceiveVoteReply, VoteCall, NoCall
  <2> QED
    BY <2>2, <2>3
<1>10. CASE CountVotes(i)
  BY <1>10 DEF CountVotes
<1>11. CASE ToLeaderState(i)
  BY <1>11 DEF ToLeaderState
<1> QED
  BY <1>1, <1>2, <1>3, <1>4, <1>5, <1>6, <1>7, <1>8, <1>9, <1>10, <1>11
     DEF ElectionStep

(* OpenInv holds of the nodes as constructed.                              *)
LEMMA InitOpenInv == Init => OpenInv
BY NumPeersAssumption
   DEF Init, OpenInv, ThreadDiscipline, CandidateTermStable, NoCall, VoteCall,
       None, Node

(* Every step keeps OpenInv.                                               *)
LEMMA NextOpenInv == TypeOK /\ OpenInv /\ [Next]_vars => OpenInv'
<1> SUFFICES ASSUME TypeOK, OpenInv, [Next]_vars PROVE OpenInv'
  OBVIOUS
<1>1. CASE UNCHANGED vars
  BY <1>1 DEF OpenInv, ThreadDiscipline, CandidateTermStable, vars
<1>2. ASSUME NEW i \in Node, ClearHeartBeat(i) PROVE OpenInv'
  BY <1>2 DEF ClearHeartBeat, OpenInv, ThreadDiscipline, CandidateTermStable,
              threadVars
<1>3. ASSUME NEW i \in Node, Timeout(i) PROVE OpenInv'
  BY <1>3 DEF Timeout, OpenInv, ThreadDiscipline, CandidateTermStable, TypeOK,
              stateVars, Goto
<1>4. ASSUME NEW i \in Node, ElectionStep(i) PROVE OpenInv'
  BY <1>4, ElectionKeepsOpenInv
<1>5. ASSUME NEW i \in Node, HeartBeatStep(i) PROVE OpenInv'
  BY <1>5 DEF HeartBeatStep, HeartBeatBegins, HeartBeatSends, HeartBeatThrows,
              OpenInv, ThreadDiscipline, CandidateTermStable, stateVars,
              threadVars
<1>6. ASSUME NEW i \in Node, NEW m \in announced, ReceiveAppendEntries(i, m)
      PROVE  OpenInv'
  <2>1. m[2] \in Nat
    BY DEF TypeOK
  <2>2. UNCHANGED <<pc, call, request, unasked>>
    BY <1>6 DEF ReceiveAppendEntries, threadVars
  <2>3. RefreshTerm(i, m[2])
    BY <1>6, <2>1 DEF ReceiveAppendEntries, RefreshTerm, TypeOK
  <2> QED
    BY <2>1, <2>2, <2>3, RefreshKeepsOpenInv
<1>7. ASSUME NEW i \in Node, NEW m \in refusals, ReceiveAppendReply(i, m[2])
      PROVE  OpenInv'
  BY <1>7, RefreshKeepsOpenInv DEF ReceiveAppendReply, threadVars, TypeOK
<1>8. ASSUME NEW i \in Node, LogChanges(i) PROVE OpenInv'
  BY <1>8 DEF LogChanges, OpenInv, ThreadDiscipline, CandidateTermStable,
              threadVars
<1> QED
  BY <1>1, <1>2, <1>3, <1>4, <1>5, <1>6, <1>7, <1>8 DEF Next

(* The votes a candidate counts are those of its current term, whatever    *)
(* the other threads of its node do during the collection.                 *)
THEOREM CandidateTermIsStable == Spec => []CandidateTermStable
<1>1. Spec => [](TypeOK /\ OpenInv)
  BY InitType, NextType, InitOpenInv, NextOpenInv, PTL DEF Spec
<1>2. OpenInv => CandidateTermStable
  BY DEF OpenInv
<1> QED
  BY <1>1, <1>2, PTL

(* A leader leaves office for a higher term only, and keeps its term until *)
(* then, whatever the other threads of its node do.                        *)
LEMMA LeaderStep ==
  ASSUME TypeOK, OpenInv, Next, NEW k \in Node, role[k] = "LEADER"
  PROVE  \/ role'[k] = "LEADER" /\ currentTerm'[k] = currentTerm[k]
         \/ role'[k] = "FOLLOWER" /\ currentTerm'[k] > currentTerm[k]
<1> DEFINE Kept ==
      \/ role'[k] = "LEADER" /\ currentTerm'[k] = currentTerm[k]
      \/ role'[k] = "FOLLOWER" /\ currentTerm'[k] > currentTerm[k]
<1>1. /\ pc[k] = "idle" /\ currentTerm[k] \in Nat /\ call[k] = NoCall
      /\ role \in [Node -> Role] /\ currentTerm \in [Node -> Nat]
  BY DEF OpenInv, ThreadDiscipline, TypeOK
<1>2. ASSUME NEW j \in Node, NEW t \in Nat, RefreshTerm(j, t) PROVE Kept
  BY <1>1, <1>2, RefreshTermEffect
<1>3. ASSUME NEW i \in Node, ClearHeartBeat(i) \/ Timeout(i) \/ LogChanges(i)
      PROVE  Kept
  BY <1>1, <1>3 DEF ClearHeartBeat, Timeout, LogChanges, stateVars
<1>4. ASSUME NEW i \in Node, ElectionStep(i) PROVE Kept
  <2>1. CASE \/ BuildRequest(i) \/ AnswerVote(i) \/ CountVotes(i)
             \/ DecideVote(i)
             \/ \E j \in unasked[i] : \/ LoseVoteRequest(i, j)
                                     \/ VoteRequestThrows(i, j)
    BY <1>1, <2>1 DEF BuildRequest, AnswerVote, CountVotes, DecideVote,
                      LoseVoteRequest, VoteRequestThrows, stateVars
  <2>2. CASE IncrementTerm(i) \/ VoteForSelf(i) \/ ToLeaderState(i)
    BY <1>1, <2>2 DEF IncrementTerm, VoteForSelf, ToLeaderState
  <2>3. ASSUME NEW j \in unasked[i], CheckVoteRequest(i, j) PROVE Kept
    <3>1. j \in Node /\ request[i].term \in Nat
      BY DEF TypeOK, Request
    <3> QED
      BY <1>2, <2>3, <3>1 DEF CheckVoteRequest
  <2>4. CASE ReceiveVoteReply(i)
    <3>1. call[i].term \in Nat
      BY <2>4, CallType DEF ReceiveVoteReply, CallPhase
    <3>2. CASE call[i].term > currentTerm[i]
      BY <1>2, <2>4, <3>1, <3>2 DEF ReceiveVoteReply
    <3>3. CASE ~(call[i].term > currentTerm[i])
      BY <1>1, <2>4, <3>3 DEF ReceiveVoteReply
    <3> QED
      BY <3>2, <3>3
  <2> QED
    BY <1>4, <2>1, <2>2, <2>3, <2>4 DEF ElectionStep
<1>5. ASSUME NEW i \in Node, HeartBeatStep(i) PROVE Kept
  BY <1>1, <1>5 DEF HeartBeatStep, HeartBeatBegins, HeartBeatSends,
                    HeartBeatThrows, stateVars
<1>6. ASSUME NEW i \in Node, NEW m \in announced, ReceiveAppendEntries(i, m)
      PROVE  Kept
  <2>1. m[2] \in Nat
    BY DEF TypeOK
  <2>2. CASE m[2] >= currentTerm[i]
    BY <1>2, <1>6, <2>1, <2>2 DEF ReceiveAppendEntries
  <2>3. CASE ~(m[2] >= currentTerm[i])
    BY <1>1, <1>6, <2>3 DEF ReceiveAppendEntries
  <2> QED
    BY <2>2, <2>3
<1>7. ASSUME NEW i \in Node, NEW m \in refusals, ReceiveAppendReply(i, m[2])
      PROVE  Kept
  BY <1>2, <1>7 DEF ReceiveAppendReply, TypeOK
<1> QED
  BY <1>3, <1>4, <1>5, <1>6, <1>7 DEF Next

(* LeaderStep, of every behaviour.                                         *)
THEOREM LeaderKeepsItsTerm == Spec => LeaderKeepsTerm
<1>1. /\ Init => TypeOK /\ OpenInv
      /\ TypeOK /\ OpenInv /\ [Next]_vars => (TypeOK /\ OpenInv)'
  BY InitType, NextType, InitOpenInv, NextOpenInv
<1>2. TypeOK /\ OpenInv /\ [Next]_vars =>
        [\A i \in Node : role[i] = "LEADER" =>
           \/ role'[i] = "LEADER" /\ currentTerm'[i] = currentTerm[i]
           \/ role'[i] = "FOLLOWER" /\ currentTerm'[i] > currentTerm[i]]_vars
  BY LeaderStep
<1> QED
  BY <1>1, <1>2, PTL DEF Spec, LeaderKeepsTerm

-----------------------------------------------------------------------------
(***************************************************************************)
(* What holds when a lock closes the windows of newElection.               *)
(***************************************************************************)

(* The invariant is about eight fields.                                    *)
LEMMA FrameKeepsLockedInv ==
  ASSUME LockedInv,
         UNCHANGED <<currentTerm, votedFor, role, pc, readTerm, request,
                     votes, call>>
  PROVE  LockedInv'
BY DEF LockedInv, LocalsHold, CallsHold, BallotsBind, BallotsExclusive,
       Counting, HasVote, PendingVote, Bound

(* The ballots of the candidates shrink and stay bound: enough for the two *)
(* halves of the invariant that are about ballots.                         *)
LEMMA ShrinkingBallots ==
  ASSUME LockedInv,
         \A k \in Node : Counting(k)' =>
            /\ Counting(k) /\ request'[k].term = request[k].term
            /\ \A v \in Node : HasVote(k, v)' => HasVote(k, v)
            /\ \A v \in Node : HasVote(k, v) /\ Bound(k, v) => Bound(k, v)'
  PROVE  BallotsBind' /\ BallotsExclusive'
BY DEF LockedInv, BallotsBind, BallotsExclusive

(* refreshTerm on a node whose windows are closed, with or without a call  *)
(* that carries no vote, keeps the invariant but for the calls.            *)
LEMMA RefreshKeepsBallots ==
  ASSUME TypeOK, LockedInv,
         NEW j \in Node, NEW t \in Nat, RefreshTerm(j, t),
         pc[j] \notin RacePoints,
         UNCHANGED <<pc, readTerm, request, votes>>,
         \A k \in Node : call'[k] = call[k] \/ ~call'[k].granted
  PROVE  LocalsHold' /\ BallotsBind' /\ BallotsExclusive'
<1>1. ASSUME NEW k \in Node, Counting(k)'
      PROVE  Counting(k) /\ currentTerm'[k] = currentTerm[k]
  BY <1>1, RefreshTermEffect DEF Counting
<1>2. ASSUME NEW k \in Node, NEW v \in Node, HasVote(k, v)'
      PROVE  HasVote(k, v)
  <2>1. CASE v \in votes'[k]
    BY <2>1 DEF HasVote
  <2>2. CASE PendingVote(k, v)'
    <3>1. call'[k] = call[k] /\ call[k].dest = v /\ call[k].granted
      BY <2>2 DEF PendingVote
    <3>2. CASE call[k].phase = "decided"
      <4>1. currentTerm[v] >= request[k].term
        BY <3>1, <3>2 DEF LockedInv, CallsHold, CallPhase
      <4>2. currentTerm'[v] = request[k].term
        BY <2>2, <3>1, <3>2 DEF PendingVote
      <4>3. currentTerm[v] \in Nat /\ request[k].term \in Nat
        BY DEF TypeOK, Request
      <4>4. currentTerm[v] = request[k].term
        BY <4>1, <4>2, <4>3, RefreshTermEffect
      <4> QED
        BY <3>1, <3>2, <4>4 DEF HasVote, PendingVote
    <3>3. CASE call[k].phase = "answered"
      BY <2>2, <3>1, <3>3 DEF HasVote, PendingVote
    <3> QED
      BY <2>2, <3>1, <3>2, <3>3 DEF PendingVote
  <2> QED
    BY <1>2, <2>1, <2>2 DEF HasVote
<1>3. ASSUME NEW k \in Node, NEW v \in Node, Bound(k, v)
      PROVE  Bound(k, v)'
  <2>1. currentTerm[v] \in Nat /\ request[k].term \in Nat
    BY DEF TypeOK, Request
  <2> QED
    BY <1>3, <2>1, RefreshTermEffect DEF Bound
<1>4. BallotsBind' /\ BallotsExclusive'
  BY <1>1, <1>2, <1>3, ShrinkingBallots
<1>5. ASSUME NEW k \in Node
      PROVE  /\ pc'[k] = "increment" => readTerm'[k] = currentTerm'[k]
             /\ pc'[k] = "request" /\ role'[k] = "CANDIDATE"
                  => votedFor'[k] = k
             /\ pc'[k] = "promote" => role'[k] = "CANDIDATE"
             /\ pc'[k] = "promote" \/ role'[k] = "LEADER"
                  => IsMajority(votes'[k])
  BY RefreshTermEffect DEF LockedInv, LocalsHold, RacePoints
<1>6. ASSUME NEW k \in Node, Counting(k)'
      PROVE  currentTerm'[k] = request'[k].term
  BY <1>1, <1>6 DEF LockedInv, LocalsHold
<1> QED
  BY <1>4, <1>5, <1>6 DEF LocalsHold, IsMajority

(* ... and the calls, when it adds none.                                   *)
LEMMA RefreshKeepsLockedInv ==
  ASSUME TypeOK, LockedInv,
         NEW j \in Node, NEW t \in Nat, RefreshTerm(j, t),
         pc[j] \notin RacePoints,
         UNCHANGED <<pc, readTerm, request, votes>>,
         \A k \in Node : call'[k] = call[k] \/ call'[k] = NoCall
  PROVE  LockedInv'
<1>1. LocalsHold' /\ BallotsBind' /\ BallotsExclusive'
  BY RefreshKeepsBallots DEF NoCall, VoteCall
<1>2. ASSUME NEW k \in Node
      PROVE  /\ call'[k].phase \in CallPhase
                   => currentTerm'[call'[k].dest] >= request'[k].term
             /\ call'[k].phase = "checked" => ~call'[k].granted
             /\ call'[k].phase = "answered"
                   => call'[k].term >= request'[k].term
  <2>1. CASE call'[k] = NoCall
    BY <2>1 DEF NoCall, VoteCall, CallPhase
  <2>2. CASE call'[k] = call[k] /\ call[k].phase \in CallPhase
    <3>1. /\ call[k].dest \in Node
          /\ currentTerm[call[k].dest] \in Nat /\ request[k].term \in Nat
      BY <2>2, CallType DEF TypeOK, Request
    <3> QED
      BY <2>2, <3>1, RefreshTermEffect DEF LockedInv, CallsHold
  <2>3. CASE call'[k] = call[k] /\ call[k].phase \notin CallPhase
    BY <2>3 DEF CallPhase
  <2> QED
    BY <2>1, <2>2, <2>3
<1> QED
  BY <1>1, <1>2 DEF LockedInv, CallsHold

(* currentTerm++: the new term is above every vote the node has cast.      *)
LEMMA IncrementKeepsLockedInv ==
  ASSUME TypeOK, OpenInv, LockedInv, NEW i \in Node, IncrementTerm(i)
  PROVE  LockedInv'
<1>1. /\ pc[i] = "increment" /\ role[i] # "LEADER"
      /\ currentTerm[i] \in Nat /\ currentTerm'[i] = currentTerm[i] + 1
      /\ \A k \in Node : k # i => currentTerm'[k] = currentTerm[k]
      /\ UNCHANGED <<votedFor, role, request, votes, call>>
      /\ \A k \in Node : k # i => pc'[k] = pc[k] /\ readTerm'[k] = readTerm[k]
      /\ pc'[i] = "claim"
  BY DEF IncrementTerm, Goto, TypeOK, OpenInv, ThreadDiscipline, LockedInv,
         LocalsHold
<1>2. \A k \in Node : currentTerm[k] \in Nat /\ request[k].term \in Nat
  BY DEF TypeOK, Request
<1>3. \A k \in Node : Counting(k)' => Counting(k) /\ k # i
  BY <1>1 DEF Counting
<1>4. ASSUME NEW k \in Node, NEW v \in Node, HasVote(k, v)'
      PROVE  HasVote(k, v)
  BY <1>1, <1>2, <1>4
     DEF HasVote, PendingVote, LockedInv, CallsHold, CallPhase
<1>5. ASSUME NEW k \in Node, NEW v \in Node, Bound(k, v)
      PROVE  Bound(k, v)'
  BY <1>1, <1>2, <1>5 DEF Bound
<1>6. BallotsBind' /\ BallotsExclusive'
  BY <1>1, <1>3, <1>4, <1>5, ShrinkingBallots
<1>7. LocalsHold'
  BY <1>1, <1>3 DEF LockedInv, LocalsHold
<1>8. ASSUME NEW k \in Node, call[k].phase \in CallPhase
      PROVE  currentTerm'[call[k].dest] >= request[k].term
  <2>1. call[k].dest \in Node
    BY <1>8, CallType
  <2> QED
    BY <1>1, <1>2, <1>8, <2>1 DEF LockedInv, CallsHold
<1>9. CallsHold'
  BY <1>1, <1>8 DEF LockedInv, CallsHold
<1> QED
  BY <1>6, <1>7, <1>9 DEF LockedInv

(* The vote for itself is in a term in which the node has not voted.       *)
LEMMA VoteForSelfKeepsLockedInv ==
  ASSUME TypeOK, OpenInv, LockedInv, NEW i \in Node, VoteForSelf(i)
  PROVE  LockedInv'
<1>1. /\ pc[i] = "claim" /\ role[i] # "LEADER"
      /\ votedFor'[i] = i /\ role'[i] = "CANDIDATE" /\ pc'[i] = "request"
      /\ UNCHANGED <<currentTerm, readTerm, request, votes, call>>
      /\ \A k \in Node : k # i => /\ pc'[k] = pc[k] /\ role'[k] = role[k]
                                /\ votedFor'[k] = votedFor[k]
  BY DEF VoteForSelf, Goto, TypeOK, OpenInv, ThreadDiscipline
<1>2. \A k \in Node : Counting(k)' => Counting(k) /\ k # i
  BY <1>1 DEF Counting
<1>3. \A k, v \in Node : HasVote(k, v)' => HasVote(k, v)
  BY <1>1 DEF HasVote, PendingVote
<1>4. \A k, v \in Node : Bound(k, v) => Bound(k, v)'
  BY <1>1 DEF Bound
<1>5. BallotsBind' /\ BallotsExclusive'
  BY <1>1, <1>2, <1>3, <1>4, ShrinkingBallots
<1>6. LocalsHold'
  BY <1>1, <1>2 DEF LockedInv, LocalsHold
<1>7. CallsHold'
  BY <1>1 DEF LockedInv, CallsHold
<1> QED
  BY <1>5, <1>6, <1>7 DEF LockedInv

(* The new request starts with the node's own vote, which nobody else has. *)
LEMMA BuildRequestKeepsLockedInv ==
  ASSUME TypeOK, OpenInv, LockedInv, NEW i \in Node, BuildRequest(i)
  PROVE  LockedInv'
<1>1. /\ pc[i] = "request" /\ role[i] # "LEADER" /\ call[i] = NoCall
      /\ request'[i].term = currentTerm[i] /\ votes'[i] = {i}
      /\ pc'[i] = "collect"
      /\ UNCHANGED <<currentTerm, votedFor, role, readTerm, call>>
      /\ \A k \in Node : k # i => /\ pc'[k] = pc[k] /\ votes'[k] = votes[k]
                                /\ request'[k] = request[k]
  BY DEF BuildRequest, Goto, TypeOK, OpenInv, ThreadDiscipline, stateVars
<1>2. \A k \in Node : k # i => (Counting(k)' <=> Counting(k))
  BY <1>1 DEF Counting
<1>3. \A k, v \in Node : k # i => (HasVote(k, v)' <=> HasVote(k, v))
  BY <1>1 DEF HasVote, PendingVote
<1>4. \A v \in Node : HasVote(i, v)' => v = i
  BY <1>1 DEF HasVote, PendingVote, NoCall, VoteCall
<1>5. Counting(i)' => votedFor[i] = i
  BY <1>1 DEF Counting, LockedInv, LocalsHold
<1>6. \A k, v \in Node : k # i /\ Bound(k, v) => Bound(k, v)'
  BY <1>1 DEF Bound
<1>7. Counting(i)' => Bound(i, i)'
  BY <1>1, <1>5 DEF Bound
<1>8. BallotsBind'
  BY <1>2, <1>3, <1>4, <1>6, <1>7 DEF LockedInv, BallotsBind
<1>9. ASSUME NEW k \in Node, k # i, Counting(k), HasVote(k, i), Counting(i)'
      PROVE  request[k].term # currentTerm[i]
  <2>1. Bound(k, i)
    BY <1>9 DEF LockedInv, BallotsBind
  <2>2. currentTerm[i] \in Nat /\ votedFor[i] # k
    BY <1>5, <1>9 DEF TypeOK
  <2> QED
    BY <2>1, <2>2 DEF Bound
<1>10. BallotsExclusive'
  BY <1>1, <1>2, <1>3, <1>4, <1>9 DEF LockedInv, BallotsExclusive
<1>11. LocalsHold'
  BY <1>1, <1>2 DEF LockedInv, LocalsHold
<1>12. CallsHold'
  BY <1>1 DEF LockedInv, CallsHold, NoCall, VoteCall, CallPhase
<1> QED
  BY <1>8, <1>10, <1>11, <1>12 DEF LockedInv

(* The request reaches a peer, whose term becomes at least the request's.  *)
LEMMA CheckKeepsLockedInv ==
  ASSUME Races = {}, TypeOK, OpenInv, LockedInv,
         NEW i \in Node, NEW j \in unasked[i], CheckVoteRequest(i, j)
  PROVE  LockedInv'
<1>1. /\ j \in Node /\ request[i].term \in Nat /\ currentTerm[j] \in Nat
      /\ call \in [Node -> Call]
  BY DEF TypeOK, Request
<1>2. /\ RefreshTerm(j, request[i].term) /\ pc[j] \notin RacePoints
      /\ UNCHANGED <<pc, readTerm, request, votes>>
  BY DEF CheckVoteRequest, Undisturbed
<1>3. /\ \A k \in Node : k # i => call'[k] = call[k]
      /\ call'[i].dest = j /\ ~call'[i].granted
      /\ call'[i].phase \in {"checked", "decided"}
  BY <1>1 DEF CheckVoteRequest, VoteCall
<1>4. LocalsHold' /\ BallotsBind' /\ BallotsExclusive'
  BY <1>1, <1>2, <1>3, RefreshKeepsBallots
<1>5. currentTerm'[j] >= request[i].term
  BY <1>1, <1>2, RefreshTermEffect
<1>6. ASSUME NEW k \in Node, k # i
      PROVE  /\ call'[k].phase \in CallPhase
                   => currentTerm'[call'[k].dest] >= request'[k].term
             /\ call'[k].phase = "checked" => ~call'[k].granted
             /\ call'[k].phase = "answered"
                   => call'[k].term >= request'[k].term
  <2>1. CASE call[k].phase \in CallPhase
    <3>1. /\ call[k].dest \in Node
          /\ currentTerm[call[k].dest] \in Nat /\ request[k].term \in Nat
      BY <2>1, CallType DEF TypeOK, Request
    <3> QED
      BY <1>1, <1>2, <1>3, <1>6, <2>1, <3>1, RefreshTermEffect
         DEF LockedInv, CallsHold
  <2>2. CASE call[k].phase \notin CallPhase
    BY <1>3, <1>6, <2>2 DEF CallPhase
  <2> QED
    BY <2>1, <2>2
<1>7. CallsHold'
  BY <1>2, <1>3, <1>5, <1>6 DEF CallsHold
<1> QED
  BY <1>4, <1>7 DEF LockedInv

(* The vote: a node that is bound to one candidate of the term grants no   *)
(* other its vote.                                                         *)
LEMMA DecideKeepsLockedInv ==
  ASSUME Races = {}, TypeOK, OpenInv, LockedInv, NEW i \in Node, DecideVote(i)
  PROVE  LockedInv'
<1> DEFINE j == call[i].dest
           granted == RequirementsToGrantVote(j, i)
<1>1. /\ j \in Node /\ j # i /\ pc[j] \notin RacePoints
      /\ pc[i] = "collect" /\ call[i].phase = "checked" /\ ~call[i].granted
  BY CallType DEF DecideVote, CallPhase, Undisturbed, OpenInv,
                  ThreadDiscipline, NoCall, VoteCall, LockedInv, CallsHold
<1>2. /\ UNCHANGED <<currentTerm, role, pc, readTerm, request, votes>>
      /\ \A k \in Node : k # i => call'[k] = call[k]
      /\ call'[i].phase = "decided" /\ call'[i].dest = j
      /\ call'[i].granted = granted
      /\ \A v \in Node : v # j => votedFor'[v] = votedFor[v]
      /\ votedFor'[j] = IF granted THEN i ELSE votedFor[j]
  BY <1>1 DEF DecideVote, VoteCall, TypeOK
<1>3. granted => votedFor[j] = None \/ votedFor[j] = i
  BY DEF RequirementsToGrantVote
<1>4. \A k \in Node : k # None
  BY NumPeersAssumption DEF Node, None
<1>5. \A k \in Node : Counting(k)' <=> Counting(k)
  BY <1>2 DEF Counting
<1>6. \A k, v \in Node : k # i => (HasVote(k, v)' <=> HasVote(k, v))
  BY <1>2 DEF HasVote, PendingVote
<1>7. ASSUME NEW v \in Node, HasVote(i, v)'
      PROVE  \/ HasVote(i, v)
             \/ v = j /\ granted /\ currentTerm[j] = request[i].term
  BY <1>2, <1>7 DEF HasVote, PendingVote
<1>8. ASSUME NEW k \in Node, NEW v \in Node, Bound(k, v)
      PROVE  Bound(k, v)'
  <2>1. CASE v # j \/ ~granted
    BY <1>2, <1>8, <2>1 DEF Bound
  <2>2. CASE v = j /\ granted /\ votedFor[j] = i
    BY <1>2, <1>8, <2>2 DEF Bound
  <2>3. CASE v = j /\ granted /\ votedFor[j] = None
    BY <1>2, <1>4, <1>8, <2>3 DEF Bound
  <2> QED
    BY <1>3, <2>1, <2>2, <2>3
<1>9. granted /\ currentTerm[j] = request[i].term => Bound(i, j)'
  BY <1>1, <1>2 DEF Bound, RacePoints
<1>10. BallotsBind'
  <2> SUFFICES ASSUME NEW k \in Node, NEW v \in Node,
                      Counting(k)', HasVote(k, v)'
               PROVE  Bound(k, v)'
    BY DEF BallotsBind
  <2>1. CASE HasVote(k, v)
    <3>1. Counting(k)
      BY <1>5
    <3>2. Bound(k, v)
      BY <2>1, <3>1 DEF LockedInv, BallotsBind
    <3> QED
      BY <1>8, <3>2
  <2>2. CASE ~HasVote(k, v)
    <3>1. k = i
      BY <1>6, <2>2
    <3> QED
      <4>1. HasVote(i, v)' /\ ~HasVote(i, v)
        BY <2>2, <3>1 DEF HasVote, PendingVote
      <4>2. v = j /\ granted /\ currentTerm[j] = request[i].term
        BY <1>7, <4>1
      <4>3. Bound(i, j)'
        BY <1>9, <4>2
      <4> QED
        BY <1>2, <3>1, <4>2, <4>3 DEF Bound
  <2> QED
    BY <2>1, <2>2
<1>11. ASSUME NEW k \in Node, k # i, Counting(k), HasVote(k, j), granted,
              currentTerm[j] = request[i].term
       PROVE  request[k].term # request[i].term
  <2>1. Bound(k, j)
    BY <1>1, <1>11 DEF LockedInv, BallotsBind
  <2>2. currentTerm[j] \in Nat
    BY <1>1 DEF TypeOK
  <2> QED
    BY <1>3, <1>4, <1>11, <2>1, <2>2 DEF Bound
<1>12. BallotsExclusive'
  BY <1>2, <1>5, <1>6, <1>7, <1>11 DEF LockedInv, BallotsExclusive
<1>13. LocalsHold'
  <2>1. pc[j] = "request" /\ role[j] = "CANDIDATE" => ~granted
    BY <1>1, <1>3, <1>4 DEF LockedInv, LocalsHold
  <2> QED
    BY <1>1, <1>2, <1>5, <2>1 DEF LockedInv, LocalsHold
<1>14. CallsHold'
  BY <1>1, <1>2 DEF LockedInv, CallsHold, CallPhase
<1> QED
  BY <1>10, <1>12, <1>13, <1>14 DEF LockedInv

(* The answer carries the term of the voter, at least the request's.       *)
LEMMA AnswerKeepsLockedInv ==
  ASSUME TypeOK, OpenInv, LockedInv, NEW i \in Node, AnswerVote(i)
  PROVE  LockedInv'
<1> DEFINE j == call[i].dest
<1>1. /\ j \in Node /\ call[i].phase = "decided" /\ pc[i] = "collect"
      /\ currentTerm[j] >= request[i].term
  BY CallType DEF AnswerVote, CallPhase, OpenInv, ThreadDiscipline, NoCall,
                  VoteCall, LockedInv, CallsHold
<1>2. /\ UNCHANGED <<currentTerm, votedFor, role, pc, readTerm, request, votes>>
      /\ \A k \in Node : k # i => call'[k] = call[k]
      /\ call'[i].phase = "answered" /\ call'[i].dest = j
      /\ call'[i].granted = call[i].granted /\ call'[i].term = currentTerm[j]
  BY <1>1 DEF AnswerVote, VoteCall, TypeOK, stateVars
<1>3. \A k \in Node : Counting(k)' => Counting(k)
  BY <1>2 DEF Counting
<1>4. \A k, v \in Node : HasVote(k, v)' => HasVote(k, v)
  BY <1>1, <1>2 DEF HasVote, PendingVote
<1>5. \A k, v \in Node : Bound(k, v) => Bound(k, v)'
  BY <1>2 DEF Bound
<1>6. BallotsBind' /\ BallotsExclusive'
  BY <1>2, <1>3, <1>4, <1>5, ShrinkingBallots
<1>7. LocalsHold'
  BY <1>2, <1>3 DEF LockedInv, LocalsHold
<1>8. CallsHold'
  BY <1>1, <1>2 DEF LockedInv, CallsHold, CallPhase
<1> QED
  BY <1>6, <1>7, <1>8 DEF LockedInv

(* A counted vote is the pending one; a reply of a higher term ends the    *)
(* candidacy.                                                              *)
LEMMA ReceiveKeepsLockedInv ==
  ASSUME TypeOK, OpenInv, LockedInv, NEW i \in Node, ReceiveVoteReply(i)
  PROVE  LockedInv'
<1> DEFINE j == call[i].dest
<1>1. /\ j \in Node /\ call[i].phase = "answered" /\ pc[i] = "collect"
      /\ call[i].term \in Nat /\ currentTerm[i] \in Nat
      /\ request[i].term \in Nat /\ call[i].term >= request[i].term
  BY CallType DEF ReceiveVoteReply, CallPhase, OpenInv, ThreadDiscipline,
                  NoCall, VoteCall, LockedInv, CallsHold, TypeOK, Request
<1>2. /\ \A k \in Node : k # i => call'[k] = call[k]
      /\ call'[i] = NoCall
      /\ UNCHANGED <<pc, readTerm, request>>
  BY DEF ReceiveVoteReply, TypeOK
<1>3. CASE call[i].term > currentTerm[i]
  <2>1. RefreshTerm(i, call[i].term) /\ UNCHANGED votes
    BY <1>3 DEF ReceiveVoteReply
  <2>2. pc[i] \notin RacePoints
    BY <1>1 DEF RacePoints
  <2> QED
    BY <1>1, <1>2, <2>1, <2>2, RefreshKeepsLockedInv
<1>4. CASE ~(call[i].term > currentTerm[i])
  <2>1. /\ UNCHANGED <<currentTerm, votedFor, role>>
        /\ \A k \in Node : k # i => votes'[k] = votes[k]
        /\ votes'[i] = IF call[i].granted THEN votes[i] \cup {j} ELSE votes[i]
    BY <1>4 DEF ReceiveVoteReply, TypeOK
  <2>2. \A k \in Node : Counting(k)' <=> Counting(k)
    BY <1>2, <2>1 DEF Counting
  <2>3. \A k, v \in Node : k # i => (HasVote(k, v)' <=> HasVote(k, v))
    BY <1>2, <2>1 DEF HasVote, PendingVote
  <2>4. ASSUME Counting(i), NEW v \in Node, HasVote(i, v)'
        PROVE  HasVote(i, v)
    <3>1. currentTerm[i] = request[i].term
      BY <2>4 DEF LockedInv, LocalsHold
    <3>2. call[i].term = request[i].term
      BY <1>1, <1>4, <3>1
    <3>3. v \in votes'[i]
      BY <1>2, <2>4 DEF HasVote, PendingVote, NoCall, VoteCall
    <3> QED
      BY <1>1, <2>1, <3>2, <3>3 DEF HasVote, PendingVote
  <2>5. \A k, v \in Node : Bound(k, v) => Bound(k, v)'
    BY <1>2, <2>1 DEF Bound
  <2>6. BallotsBind' /\ BallotsExclusive'
    BY <1>2, <2>2, <2>3, <2>4, <2>5, ShrinkingBallots
  <2>7. LocalsHold'
    <3>1. role[i] # "LEADER"
      BY <1>1 DEF OpenInv, ThreadDiscipline
    <3> QED
      BY <1>1, <1>2, <2>1, <2>2, <3>1 DEF LockedInv, LocalsHold
  <2>8. CallsHold'
    BY <1>2, <2>1 DEF LockedInv, CallsHold, NoCall, VoteCall, CallPhase
  <2> QED
    BY <2>6, <2>7, <2>8 DEF LockedInv
<1> QED
  BY <1>3, <1>4

(* The test that ends newElection, and toLeaderState after it.             *)
LEMMA OutcomeKeepsLockedInv ==
  ASSUME TypeOK, OpenInv, LockedInv, NEW i \in Node,
         CountVotes(i) \/ ToLeaderState(i)
  PROVE  LockedInv'
<1>1. /\ UNCHANGED <<currentTerm, votedFor, readTerm, request, votes, call>>
      /\ \A k \in Node : k # i => pc'[k] = pc[k] /\ role'[k] = role[k]
      /\ pc'[i] # "claim" /\ pc[i] # "claim" /\ pc'[i] # "request"
      /\ pc'[i] # "increment" /\ pc'[i] # "collect"
      /\ pc'[i] = "promote" =>
            pc[i] = "collect" /\ role'[i] = "CANDIDATE" /\ IsMajority(votes[i])
      /\ role'[i] = "LEADER" => pc[i] = "promote" \/ role[i] = "LEADER"
      /\ role'[i] # "LEADER" => role'[i] = role[i]
  BY DEF CountVotes, ToLeaderState, Goto, TypeOK, stateVars
<1>2. \A k \in Node : Counting(k)' => Counting(k)
  BY <1>1 DEF Counting, LockedInv, LocalsHold
<1>3. \A k, v \in Node : HasVote(k, v)' => HasVote(k, v)
  BY <1>1 DEF HasVote, PendingVote
<1>4. \A k, v \in Node : Bound(k, v) => Bound(k, v)'
  BY <1>1 DEF Bound
<1>5. BallotsBind' /\ BallotsExclusive'
  BY <1>1, <1>2, <1>3, <1>4, ShrinkingBallots
<1>6. LocalsHold'
  BY <1>1, <1>2 DEF LockedInv, LocalsHold, IsMajority
<1>7. CallsHold'
  BY <1>1 DEF LockedInv, CallsHold
<1> QED
  BY <1>5, <1>6, <1>7 DEF LockedInv

(* The steps that only move the program counter, out of every window or    *)
(* into the first one.                                                     *)
LEMMA MovesKeepLockedInv ==
  ASSUME TypeOK, OpenInv, LockedInv, NEW i \in Node,
         \/ Timeout(i)
         \/ \E j \in unasked[i] : \/ LoseVoteRequest(i, j)
                                 \/ VoteRequestThrows(i, j)
  PROVE  LockedInv'
<1>1. /\ UNCHANGED <<currentTerm, votedFor, role, request, votes, call>>
      /\ \A k \in Node : k # i => pc'[k] = pc[k] /\ readTerm'[k] = readTerm[k]
      /\ \/ pc'[i] = "increment" /\ readTerm'[i] = currentTerm[i]
            /\ pc[i] = "idle" /\ role[i] # "LEADER"
         \/ pc'[i] \in {"collect", "dead"} /\ pc[i] = "collect"
  BY DEF Timeout, LoseVoteRequest, VoteRequestThrows, Reached, Goto, TypeOK,
         stateVars
<1>2. \A k \in Node : Counting(k)' => Counting(k)
  BY <1>1 DEF Counting
<1>3. \A k, v \in Node : HasVote(k, v)' => HasVote(k, v)
  BY <1>1 DEF HasVote, PendingVote
<1>4. \A k, v \in Node : Bound(k, v) => Bound(k, v)'
  BY <1>1 DEF Bound
<1>5. BallotsBind' /\ BallotsExclusive'
  BY <1>1, <1>2, <1>3, <1>4, ShrinkingBallots
<1>6. LocalsHold'
  BY <1>1, <1>2 DEF LockedInv, LocalsHold, IsMajority
<1>7. CallsHold'
  BY <1>1 DEF LockedInv, CallsHold
<1> QED
  BY <1>5, <1>6, <1>7 DEF LockedInv

(* LockedInv holds of the nodes as constructed.                            *)
LEMMA InitLockedInv == Init => LockedInv
BY NumPeersAssumption
   DEF Init, LockedInv, LocalsHold, CallsHold, BallotsBind, BallotsExclusive,
       Counting, HasVote, PendingVote, NoCall, VoteCall, CallPhase

(* Every step of the program with its windows closed keeps LockedInv.      *)
LEMMA NextLockedInv ==
  ASSUME Races = {}, TypeOK, OpenInv, LockedInv, [Next]_vars
  PROVE  LockedInv'
<1>1. CASE UNCHANGED vars
  BY <1>1, FrameKeepsLockedInv DEF vars
<1>2. ASSUME NEW i \in Node,
             ClearHeartBeat(i) \/ HeartBeatStep(i) \/ LogChanges(i)
      PROVE  LockedInv'
  BY <1>2, FrameKeepsLockedInv
     DEF ClearHeartBeat, HeartBeatStep, HeartBeatBegins, HeartBeatSends,
         HeartBeatThrows, LogChanges, stateVars, threadVars
<1>3. ASSUME NEW i \in Node, Timeout(i) PROVE LockedInv'
  BY <1>3, MovesKeepLockedInv
<1>4. ASSUME NEW i \in Node, ElectionStep(i) PROVE LockedInv'
  BY <1>4, IncrementKeepsLockedInv, VoteForSelfKeepsLockedInv,
     BuildRequestKeepsLockedInv, CheckKeepsLockedInv, DecideKeepsLockedInv,
     AnswerKeepsLockedInv, ReceiveKeepsLockedInv, OutcomeKeepsLockedInv,
     MovesKeepLockedInv
     DEF ElectionStep
<1>5. ASSUME NEW i \in Node, NEW m \in announced, ReceiveAppendEntries(i, m)
      PROVE  LockedInv'
  <2>1. m[2] \in Nat /\ currentTerm[i] \in Nat
    BY DEF TypeOK
  <2>2. /\ UNCHANGED <<pc, readTerm, request, votes, call>>
        /\ pc[i] \notin RacePoints
    BY <1>5 DEF ReceiveAppendEntries, threadVars, Undisturbed
  <2>3. RefreshTerm(i, m[2])
    BY <1>5, <2>1 DEF ReceiveAppendEntries, RefreshTerm
  <2> QED
    BY <2>1, <2>2, <2>3, RefreshKeepsLockedInv
<1>6. ASSUME NEW i \in Node, NEW m \in refusals, ReceiveAppendReply(i, m[2])
      PROVE  LockedInv'
  <2>1. /\ UNCHANGED <<pc, readTerm, request, votes, call>>
        /\ pc[i] \notin RacePoints /\ RefreshTerm(i, m[2]) /\ m[2] \in Nat
    BY <1>6 DEF ReceiveAppendReply, threadVars, Undisturbed, TypeOK
  <2> QED
    BY <2>1, RefreshKeepsLockedInv
<1> QED
  BY <1>1, <1>2, <1>3, <1>4, <1>5, <1>6 DEF Next

-----------------------------------------------------------------------------
(***************************************************************************)
(* Election safety.                                                        *)
(***************************************************************************)

(* Two majorities of the nodes share a node.                               *)
LEMMA MajoritiesMeet ==
  ASSUME NEW S \in SUBSET Node, NEW T \in SUBSET Node,
         IsMajority(S), IsMajority(T)
  PROVE  \E v \in Node : v \in S /\ v \in T
<1>1. IsFiniteSet(Node) /\ Cardinality(Node) = NumPeers
  BY NumPeersAssumption, FS_Interval DEF Node
<1>2. IsFiniteSet(S) /\ IsFiniteSet(T)
  BY <1>1, FS_Subset
<1>3. Cardinality(S) \in Nat /\ Cardinality(T) \in Nat
  BY <1>2, FS_CardinalityType
<1>4. Cardinality(S) + Cardinality(T) > Cardinality(Node)
  BY <1>1, <1>3, NumPeersAssumption DEF IsMajority
<1>5. S \cap T # {}
  BY <1>1, <1>4, FS_MajoritiesIntersect
<1> QED
  BY <1>5

(* Two leaders of one term were elected by votes of one node.              *)
LEMMA LockedInvSafe == TypeOK /\ LockedInv => ElectionSafety
<1> SUFFICES ASSUME TypeOK, LockedInv, NEW i \in Node, NEW j \in Node,
                    role[i] = "LEADER", role[j] = "LEADER",
                    currentTerm[i] = currentTerm[j]
             PROVE  i = j
  BY DEF ElectionSafety
<1>1. /\ Counting(i) /\ Counting(j) /\ request[i].term = request[j].term
      /\ IsMajority(votes[i]) /\ IsMajority(votes[j])
  BY DEF Counting, LockedInv, LocalsHold
<1>2. PICK v \in Node : v \in votes[i] /\ v \in votes[j]
  BY <1>1, MajoritiesMeet DEF TypeOK
<1> QED
  BY <1>1, <1>2 DEF LockedInv, BallotsExclusive, HasVote

(* The windows of newElection closed, every reachable state satisfies the  *)
(* three invariants.                                                       *)
LEMMA LockedInvariants ==
  ASSUME Races = {}
  PROVE  Spec => [](TypeOK /\ OpenInv /\ LockedInv)
<1>1. Init => TypeOK /\ OpenInv /\ LockedInv
  BY InitType, InitOpenInv, InitLockedInv
<1>2. TypeOK /\ OpenInv /\ LockedInv /\ [Next]_vars
        => (TypeOK /\ OpenInv /\ LockedInv)'
  BY NextType, NextOpenInv, NextLockedInv
<1> QED
  BY <1>1, <1>2, PTL DEF Spec

(* With the windows of newElection closed no two nodes ever lead one term, *)
(* for every number of nodes, whatever is lost, delayed or thrown.         *)
THEOREM OneLeaderPerTerm == (Races = {}) => (Spec => []ElectionSafety)
<1> SUFFICES ASSUME Races = {} PROVE Spec => []ElectionSafety
  OBVIOUS
<1>1. Spec => [](TypeOK /\ OpenInv /\ LockedInv)
  BY LockedInvariants
<1> QED
  BY <1>1, LockedInvSafe, PTL

(* With them closed a counted vote binds the voter.                        *)
THEOREM VotesAreSafe == (Races = {}) => (Spec => []VotesBind)
<1> SUFFICES ASSUME Races = {} PROVE Spec => []VotesBind
  OBVIOUS
<1>1. Spec => [](TypeOK /\ OpenInv /\ LockedInv)
  BY LockedInvariants
<1>2. TypeOK /\ LockedInv => VotesBind
  BY DEF TypeOK, LockedInv, BallotsBind, HasVote, Bound, VotesBind
<1> QED
  BY <1>1, <1>2, PTL

(* With them closed no vote is counted by two candidates of one term.      *)
THEOREM NoVoteCountsTwice == (Races = {}) => (Spec => []VotesExclusive)
<1> SUFFICES ASSUME Races = {} PROVE Spec => []VotesExclusive
  OBVIOUS
<1>1. Spec => [](TypeOK /\ OpenInv /\ LockedInv)
  BY LockedInvariants
<1>2. TypeOK /\ LockedInv => VotesExclusive
  BY DEF TypeOK, LockedInv, BallotsExclusive, HasVote, VotesExclusive
<1> QED
  BY <1>1, <1>2, PTL

(* With the windows closed, a step of any thread leaves no node in a lower *)
(* term.                                                                   *)
LEMMA TermStep ==
  ASSUME TypeOK, LockedInv, Next, NEW k \in Node
  PROVE  currentTerm'[k] >= currentTerm[k]
<1>1. \A n \in Node : currentTerm[n] \in Nat
  BY DEF TypeOK
<1>2. ASSUME NEW j \in Node, NEW t \in Nat, RefreshTerm(j, t)
      PROVE  currentTerm'[k] >= currentTerm[k]
  BY <1>1, <1>2, RefreshTermEffect
<1>3. ASSUME UNCHANGED currentTerm
      PROVE  currentTerm'[k] >= currentTerm[k]
  BY <1>1, <1>3
<1>4. ASSUME NEW i \in Node, ElectionStep(i)
      PROVE  currentTerm'[k] >= currentTerm[k]
  <2>1. CASE IncrementTerm(i)
    <3>1. readTerm[i] = currentTerm[i]
      BY <2>1 DEF IncrementTerm, LockedInv, LocalsHold
    <3> QED
      BY <1>1, <2>1, <3>1 DEF IncrementTerm, TypeOK
  <2>2. ASSUME NEW j \in unasked[i], CheckVoteRequest(i, j)
        PROVE  currentTerm'[k] >= currentTerm[k]
    BY <1>2, <2>2 DEF CheckVoteRequest, TypeOK, Request
  <2>3. CASE ReceiveVoteReply(i)
    <3>1. call[i].term \in Nat
      BY <2>3, CallType DEF ReceiveVoteReply, CallPhase
    <3> QED
      BY <1>2, <1>3, <2>3, <3>1 DEF ReceiveVoteReply
  <2>4. CASE \/ VoteForSelf(i) \/ BuildRequest(i) \/ DecideVote(i)
             \/ AnswerVote(i) \/ CountVotes(i) \/ ToLeaderState(i)
             \/ \E j \in unasked[i] : \/ LoseVoteRequest(i, j)
                                     \/ VoteRequestThrows(i, j)
    BY <1>3, <2>4 DEF VoteForSelf, BuildRequest, DecideVote, AnswerVote,
       CountVotes, ToLeaderState, LoseVoteRequest, VoteRequestThrows, stateVars
  <2> QED
    BY <1>4, <2>1, <2>2, <2>3, <2>4 DEF ElectionStep
<1>5. ASSUME NEW i \in Node, \/ ClearHeartBeat(i) \/ Timeout(i)
                             \/ HeartBeatStep(i) \/ LogChanges(i)
      PROVE  currentTerm'[k] >= currentTerm[k]
  BY <1>3, <1>5 DEF ClearHeartBeat, Timeout, HeartBeatStep, HeartBeatBegins,
                    HeartBeatSends, HeartBeatThrows, LogChanges, stateVars
<1>6. ASSUME NEW i \in Node, NEW m \in announced, ReceiveAppendEntries(i, m)
      PROVE  currentTerm'[k] >= currentTerm[k]
  <2>1. m[2] \in Nat
    BY DEF TypeOK
  <2> QED
    BY <1>2, <1>3, <1>6, <2>1 DEF ReceiveAppendEntries
<1>7. ASSUME NEW i \in Node, NEW m \in refusals, ReceiveAppendReply(i, m[2])
      PROVE  currentTerm'[k] >= currentTerm[k]
  BY <1>2, <1>7 DEF ReceiveAppendReply, TypeOK
<1> QED
  BY <1>4, <1>5, <1>6, <1>7 DEF Next

(* With the windows of newElection closed, terms never decrease.           *)
THEOREM TermsGrow == (Races = {}) => (Spec => TermNeverDecreases)
<1> SUFFICES ASSUME Races = {} PROVE Spec => TermNeverDecreases
  OBVIOUS
<1>1. Spec => [](TypeOK /\ OpenInv /\ LockedInv)
  BY LockedInvariants
<1>2. TypeOK /\ LockedInv /\ [Next]_vars
        => [\A i \in Node : currentTerm'[i] >= currentTerm[i]]_vars
  BY TermStep
<1> QED
  BY <1>1, <1>2, PTL DEF Spec, TermNeverDecreases
=============================================================================
