---------------------------- MODULE RaftElection ----------------------------
(***************************************************************************)
(* Leader election as RaftNode.java runs it.                               *)
(*                                                                         *)
(* Three kinds of thread touch the state of a node:                        *)
(*   - its scheduler thread (checkHeartBeat), which runs newElection and   *)
(*     whose program counter is pc;                                        *)
(*   - RMI threads, which run deliverMessage for the requests of the other *)
(*     nodes (the actions named after the receiver's handlers);            *)
(*   - the heart beat timer and the append threads, which send             *)
(*     AppendEntries and refresh the term from the replies.                *)
(* Steps that one lock covers, or that touch one field, are one action.    *)
(*                                                                         *)
(* newElection leaves its node unlocked in three places where another      *)
(* thread may write the fields it is working on:                           *)
(*   "increment"  between the read and the write of currentTerm++ (147);   *)
(*   "claim"      between currentTerm++ and the lock of 156;               *)
(*   "promote"    between the test of 218 and the body of toLeaderState.   *)
(* Races is the set of these places that are open.  The code is            *)
(* Races = {"increment", "claim", "promote"}; a smaller set is the program *)
(* with those windows closed by a lock, and shows what they cost.          *)
(***************************************************************************)
EXTENDS Integers, FiniteSets

CONSTANTS NumPeers,  \* the nodes are 0 .. NumPeers - 1
          MaxTerm,   \* bound: no election starts from this term on
          MaxIndex,  \* bound on the index of the last log entry
          Races,     \* the windows of newElection open to other threads
          Reliable   \* Controller.reliable

RacePoints == {"increment", "claim", "promote"}

ASSUME NumPeersAssumption == NumPeers \in Nat \ {0}
ASSUME BoundsAssumption   == MaxTerm \in Nat /\ MaxIndex \in Nat
ASSUME RacesAssumption    == Races \subseteq RacePoints
ASSUME ReliableAssumption == Reliable \in BOOLEAN

Node == 0 .. NumPeers - 1
None == -1                       \* Integer.MIN_VALUE as votedFor

Entry == [term : Nat, index : Nat]
NoEntry == [term |-> 0, index |-> 0]

VARIABLES
  currentTerm,     \* PersistentState.currentTerm
  votedFor,        \* PersistentState.votedFor
  role,            \* nodeRole
  isHeartBeating,  \* an AppendEntries arrived since the last tick
  last,            \* PersistentState.getLastEntry(), as election sees the log
  pc,              \* where the scheduler thread of the node is
  readTerm,        \* the value currentTerm++ has read
  request,         \* the RequestVoteArgs of the node's latest election
  unasked,         \* peers the loop of newElection has still to ask
  votes,           \* the nodes counted by votesCounter, the node included
  call,            \* the RequestVote call the node is blocked in
  beat,            \* the heart beat timer of the node
  announced,       \* <<leader, term>> of the AppendEntries sent so far
  refusals         \* <<leader, term>>: a reply carries term back to leader

stateVars == <<currentTerm, votedFor, role, isHeartBeating, last>>
threadVars == <<pc, readTerm, request, unasked, votes, call>>
beatVars == <<beat, announced, refusals>>
vars == <<currentTerm, votedFor, role, isHeartBeating, last,
          pc, readTerm, request, unasked, votes, call,
          beat, announced, refusals>>

BeatPhase == {"waiting", "sending", "dead"}
Role == {"FOLLOWER", "CANDIDATE", "LEADER"}
ThreadPoint == {"idle", "increment", "claim", "request", "collect",
                "promote", "dead"}
Request == [term : Nat, last : Entry]
NoRequest == [term |-> 0, last |-> NoEntry]
CallPhase == {"checked", "decided", "answered"}
VoteCall(phase, dest, granted, term) ==
  [phase |-> phase, dest |-> dest, granted |-> granted, term |-> term]
NoCall == VoteCall("none", None, FALSE, 0)
Call == {NoCall} \cup
        [phase : CallPhase, dest : Node, granted : BOOLEAN, term : Nat]

(* The constructor of every node.                                          *)
Init ==
  /\ currentTerm = [i \in Node |-> 0]
  /\ votedFor = [i \in Node |-> None]
  /\ role = [i \in Node |-> "FOLLOWER"]
  /\ isHeartBeating = [i \in Node |-> FALSE]
  /\ last = [i \in Node |-> NoEntry]
  /\ pc = [i \in Node |-> "idle"]
  /\ readTerm = [i \in Node |-> 0]
  /\ request = [i \in Node |-> NoRequest]
  /\ unasked = [i \in Node |-> {}]
  /\ votes = [i \in Node |-> {}]
  /\ call = [i \in Node |-> NoCall]
  /\ beat = [i \in Node |-> "waiting"]
  /\ announced = {}
  /\ refusals = {}

-----------------------------------------------------------------------------
(***************************************************************************)
(* Helpers shared by the handlers.                                         *)
(***************************************************************************)

(* Slip: newElection holds one lock from its start to its end.             *)
UndisturbedByElection(j) == pc[j] = "idle"

(* Another thread may write the election fields of node j now.             *)
Undisturbed(j) == pc[j] \in RacePoints => pc[j] \in Races

(* Slips in refreshTerm: no test; >= for >; the role is kept.              *)
RefreshTermUntested(j, t) ==
  /\ currentTerm' = [currentTerm EXCEPT ![j] = t]
  /\ votedFor' = [votedFor EXCEPT ![j] = None]
  /\ role' = [role EXCEPT ![j] = "FOLLOWER"]

RefreshTermAgain(j, t) ==
  IF t >= currentTerm[j]
  THEN RefreshTermUntested(j, t)
  ELSE UNCHANGED <<currentTerm, votedFor, role>>

RefreshTermInOffice(j, t) ==
  /\ currentTerm' = [currentTerm EXCEPT ![j] = IF t > @ THEN t ELSE @]
  /\ votedFor' = [votedFor EXCEPT ![j] =
                    IF t > currentTerm[j] THEN None ELSE @]
  /\ UNCHANGED role

(* refreshTerm: adopt a higher term as a follower that has not voted.      *)
RefreshTerm(j, t) ==
  IF t > currentTerm[j]
  THEN /\ currentTerm' = [currentTerm EXCEPT ![j] = t]
       /\ votedFor' = [votedFor EXCEPT ![j] = None]
       /\ role' = [role EXCEPT ![j] = "FOLLOWER"]
  ELSE UNCHANGED <<currentTerm, votedFor, role>>

AtLeastAsUpToDate(mine, theirs) ==
  \/ theirs.term = mine.term /\ theirs.index >= mine.index
  \/ theirs.term > mine.term

RequirementsToGrantVote(j, candidate) ==
  /\ votedFor[j] \in {None, candidate}
  /\ AtLeastAsUpToDate(last[j], request[candidate].last)

(* Slip: votesCounter >= num_peers / 2.                                    *)
IsHalf(S) == Cardinality(S) >= NumPeers \div 2

IsMajority(S) == Cardinality(S) > NumPeers \div 2

(* Slip: i <= num_peers in the loop of newElection.                        *)
PeersAndOneMore(i) == (0 .. NumPeers) \ {i}

Peers(i) == Node \ {i}

(* Slip: the reply echoes the term of the request.                         *)
RequestTerm(j, m) == m[2]

(* The term in the reply of node j to the AppendEntries m.                 *)
ReplyTerm(j, m) == currentTerm[j]

(* The loop of newElection has reached peer j, and sends it the request.   *)
Reached(i, j) ==
  /\ pc[i] = "collect" /\ call[i] = NoCall
  /\ j \in unasked[i]
  /\ \A k \in unasked[i] : j <= k

Goto(i, point) == pc' = [pc EXCEPT ![i] = point]

-----------------------------------------------------------------------------
(***************************************************************************)
(* checkHeartBeat: the periodic task of the scheduler thread.              *)
(***************************************************************************)

(* A leader, or a node that heard from one, clears the flag until the next *)
(* tick.                                                                   *)
ClearHeartBeat(i) ==
  /\ pc[i] = "idle"
  /\ isHeartBeating[i]
  /\ isHeartBeating' = [isHeartBeating EXCEPT ![i] = FALSE]
  /\ UNCHANGED <<currentTerm, votedFor, role, last, threadVars, beatVars>>

(* Otherwise newElection starts: the read half of currentTerm++.           *)
Timeout(i) ==
  /\ pc[i] = "idle"
  /\ role[i] # "LEADER"
  /\ ~isHeartBeating[i]
  /\ currentTerm[i] < MaxTerm
  /\ readTerm' = [readTerm EXCEPT ![i] = currentTerm[i]]
  /\ Goto(i, "increment")
  /\ UNCHANGED <<stateVars, request, unasked, votes, call, beatVars>>

(* The write half of currentTerm++, without a lock.                        *)
IncrementTerm(i) ==
  /\ pc[i] = "increment"
  /\ currentTerm' = [currentTerm EXCEPT ![i] = readTerm[i] + 1]
  /\ readTerm' = [readTerm EXCEPT ![i] = 0]
  /\ Goto(i, "claim")
  /\ UNCHANGED <<votedFor, role, isHeartBeating, last,
                 request, unasked, votes, call, beatVars>>

(* The block of 156: vote for itself, as a candidate.                      *)
VoteForSelf(i) ==
  /\ pc[i] = "claim"
  /\ votedFor' = [votedFor EXCEPT ![i] = i]
  /\ role' = [role EXCEPT ![i] = "CANDIDATE"]
  /\ Goto(i, "request")
  /\ UNCHANGED <<currentTerm, isHeartBeating, last,
                 readTerm, request, unasked, votes, call, beatVars>>

(* The request is built from the term and the log of now; only a node that *)
(* is still a candidate asks its peers.                                    *)
BuildRequest(i) ==
  /\ pc[i] = "request"
  /\ request' = [request EXCEPT ![i] = [term |-> currentTerm[i],
                                        last |-> last[i]]]
  /\ votes' = [votes EXCEPT ![i] = {i}]
  /\ unasked' = [unasked EXCEPT ![i] =
                   IF role[i] = "CANDIDATE" THEN Peers(i) ELSE {}]
  /\ Goto(i, "collect")
  /\ UNCHANGED <<stateVars, readTerm, call, beatVars>>

(* The peer in turn receives the request: the test of the term and the     *)
(* refreshTerm that follows it.                                            *)
CheckVoteRequest(i, j) ==
  /\ Reached(i, j) /\ Undisturbed(j)
  /\ RefreshTerm(j, request[i].term)
  /\ LET accepted == request[i].term >= currentTerm[j]
     IN call' = [call EXCEPT ![i] =
           VoteCall(IF accepted THEN "checked" ELSE "decided", j, FALSE, 0)]
  /\ unasked' = [unasked EXCEPT ![i] = @ \ {j}]
  /\ UNCHANGED <<isHeartBeating, last, pc, readTerm, request, votes, beatVars>>

(* Controller.send returns null: an end is disconnected, or the message is *)
(* dropped.  The request is lost before it is delivered.                   *)
LoseVoteRequest(i, j) ==
  /\ Reached(i, j)
  /\ unasked' = [unasked EXCEPT ![i] = @ \ {j}]
  /\ UNCHANGED <<stateVars, pc, readTerm, request, votes, call, beatVars>>

(* On an unreliable network makeDecision sleeps for nextInt() % 27, which  *)
(* may be negative: the exception leaves newElection and the scheduler     *)
(* never runs the task again.                                              *)
VoteRequestThrows(i, j) ==
  /\ ~Reliable
  /\ Reached(i, j)
  /\ unasked' = [unasked EXCEPT ![i] = {}]
  /\ Goto(i, "dead")
  /\ UNCHANGED <<stateVars, readTerm, request, votes, call, beatVars>>

(* The locked block of replyToReqVoteArgs; the term is not tested again.   *)
DecideVote(i) ==
  /\ call[i].phase = "checked"
  /\ LET j == call[i].dest
         granted == RequirementsToGrantVote(j, i)
     IN /\ Undisturbed(j)
        /\ votedFor' = [votedFor EXCEPT ![j] = IF granted THEN i ELSE @]
        /\ call' = [call EXCEPT ![i] = VoteCall("decided", j, granted, 0)]
  /\ UNCHANGED <<currentTerm, role, isHeartBeating, last,
                 pc, readTerm, request, unasked, votes, beatVars>>

(* The reply reads the term of the peer after the lock is released.        *)
AnswerVote(i) ==
  /\ call[i].phase = "decided"
  /\ LET j == call[i].dest
     IN call' = [call EXCEPT ![i] =
                   VoteCall("answered", j, call[i].granted, currentTerm[j])]
  /\ UNCHANGED <<stateVars, pc, readTerm, request, unasked, votes, beatVars>>

(* The candidate reads the reply: a higher term ends the election,         *)
(* otherwise a granted vote is counted.                                    *)
ReceiveVoteReply(i) ==
  /\ call[i].phase = "answered"
  /\ call' = [call EXCEPT ![i] = NoCall]
  /\ IF call[i].term > currentTerm[i]
     THEN /\ RefreshTerm(i, call[i].term)
          /\ unasked' = [unasked EXCEPT ![i] = {}]
          /\ UNCHANGED votes
     ELSE /\ votes' = [votes EXCEPT ![i] =
                         IF call[i].granted THEN @ \cup {call[i].dest} ELSE @]
          /\ UNCHANGED <<currentTerm, votedFor, role, unasked>>
  /\ UNCHANGED <<isHeartBeating, last, pc, readTerm, request, beatVars>>

(* The test that ends newElection.                                         *)
CountVotes(i) ==
  /\ pc[i] = "collect" /\ call[i] = NoCall /\ unasked[i] = {}
  /\ Goto(i, IF role[i] = "CANDIDATE" /\ IsMajority(votes[i])
             THEN "promote" ELSE "idle")
  /\ UNCHANGED <<stateVars, readTerm, request, unasked, votes, call, beatVars>>

(* toLeaderState: the role is not tested again.                            *)
ToLeaderState(i) ==
  /\ pc[i] = "promote"
  /\ role' = [role EXCEPT ![i] = "LEADER"]
  /\ beat' = [beat EXCEPT ![i] = IF @ = "sending" THEN @ ELSE "waiting"]
  /\ Goto(i, "idle")
  /\ UNCHANGED <<currentTerm, votedFor, isHeartBeating, last,
                 readTerm, request, unasked, votes, call, announced, refusals>>

-----------------------------------------------------------------------------
(***************************************************************************)
(* AppendEntries, heart beats included, as election sees them.             *)
(***************************************************************************)

(* The timer of a leader starts heartBeatTimerTask.run, which waits for    *)
(* the log.  toFollowerState cancels the timer, not a run under way.       *)
HeartBeatBegins(i) ==
  /\ role[i] = "LEADER" /\ beat[i] = "waiting"
  /\ beat' = [beat EXCEPT ![i] = "sending"]
  /\ UNCHANGED <<stateVars, threadVars, announced, refusals>>

(* The run reads currentTerm, whatever the role has become, and sends.     *)
HeartBeatSends(i) ==
  /\ beat[i] = "sending"
  /\ beat' = [beat EXCEPT ![i] = "waiting"]
  /\ announced' = announced \cup {<<i, currentTerm[i]>>}
  /\ UNCHANGED <<stateVars, threadVars, refusals>>

(* The exception of VoteRequestThrows, in the timer: the Timer dies.       *)
HeartBeatThrows(i) ==
  /\ ~Reliable
  /\ role[i] = "LEADER" /\ beat[i] = "waiting"
  /\ beat' = [beat EXCEPT ![i] = "dead"]
  /\ UNCHANGED <<stateVars, threadVars, announced, refusals>>

(* replyToApdEntriesArgs, under the lock.  A sent message may arrive late, *)
(* and a leader repeats it, so it stays in announced.                      *)
ReceiveAppendEntries(j, m) ==
  /\ m \in announced /\ m[1] # j
  /\ Undisturbed(j)
  /\ IF m[2] >= currentTerm[j]
     THEN /\ isHeartBeating' = [isHeartBeating EXCEPT ![j] = TRUE]
          /\ RefreshTerm(j, m[2])
          /\ UNCHANGED refusals
     ELSE /\ refusals' = refusals \cup {<<m[1], ReplyTerm(j, m)>>}
          /\ UNCHANGED <<currentTerm, votedFor, role, isHeartBeating>>
  /\ UNCHANGED <<last, threadVars, beat, announced>>

(* The sender of an AppendEntries refreshes its term from a refusal.       *)
ReceiveAppendReply(i, t) ==
  /\ <<i, t>> \in refusals
  /\ t > currentTerm[i]
  /\ Undisturbed(i)
  /\ RefreshTerm(i, t)
  /\ UNCHANGED <<isHeartBeating, last, threadVars, beatVars>>

(* The log changes: a leader appends to it, a follower copies, truncates   *)
(* or replaces its tail.                                                   *)
LogChanges(i) ==
  /\ \E e \in [term : 1 .. currentTerm[i], index : 1 .. MaxIndex]
                 \cup {NoEntry} :
       /\ e # last[i]
       /\ last' = [last EXCEPT ![i] = e]
  /\ UNCHANGED <<currentTerm, votedFor, role, isHeartBeating,
                 threadVars, beatVars>>

-----------------------------------------------------------------------------
ElectionStep(i) ==
  \/ IncrementTerm(i)
  \/ VoteForSelf(i)
  \/ BuildRequest(i)
  \/ \E j \in unasked[i] : \/ CheckVoteRequest(i, j)
                         \/ LoseVoteRequest(i, j)
                         \/ VoteRequestThrows(i, j)
  \/ DecideVote(i)
  \/ AnswerVote(i)
  \/ ReceiveVoteReply(i)
  \/ CountVotes(i)
  \/ ToLeaderState(i)

HeartBeatStep(i) ==
  \/ HeartBeatBegins(i)
  \/ HeartBeatSends(i)
  \/ HeartBeatThrows(i)

Next ==
  \E i \in Node :
    \/ ClearHeartBeat(i)
    \/ Timeout(i)
    \/ ElectionStep(i)
    \/ HeartBeatStep(i)
    \/ \E m \in announced : ReceiveAppendEntries(i, m)
    \/ \E m \in refusals : m[1] = i /\ ReceiveAppendReply(i, m[2])
    \/ LogChanges(i)

Spec == Init /\ [][Next]_vars

(***************************************************************************)
(* A thread that can run does run; a request that is not lost is handled,  *)
(* and an AppendEntries that was sent arrives unless the network is cut    *)
(* for ever: the network and the users may lose calls, never must.         *)
(***************************************************************************)
ThreadRuns(i) ==
  \/ IncrementTerm(i) \/ VoteForSelf(i) \/ BuildRequest(i)
  \/ \E j \in unasked[i] : CheckVoteRequest(i, j)
  \/ DecideVote(i) \/ AnswerVote(i)
  \/ ReceiveVoteReply(i) \/ CountVotes(i) \/ ToLeaderState(i)

Fairness ==
  \A i \in Node :
    /\ WF_vars(ThreadRuns(i))
    /\ WF_vars(HeartBeatBegins(i))
    /\ WF_vars(HeartBeatSends(i))
    /\ \A j \in Node, t \in 0 .. MaxTerm :
         /\ WF_vars(ReceiveAppendEntries(i, <<j, t>>))
         /\ WF_vars(ReceiveAppendReply(i, t))

FairSpec == Spec /\ Fairness

-----------------------------------------------------------------------------
(***************************************************************************)
(* Properties.                                                             *)
(***************************************************************************)

(* Every field has the type its Java declaration and its use give it.      *)
TypeOK ==
  /\ currentTerm \in [Node -> Nat]
  /\ votedFor \in [Node -> Node \cup {None}]
  /\ role \in [Node -> Role]
  /\ isHeartBeating \in [Node -> BOOLEAN]
  /\ last \in [Node -> Entry]
  /\ pc \in [Node -> ThreadPoint]
  /\ readTerm \in [Node -> Nat]
  /\ request \in [Node -> Request]
  /\ unasked \in [Node -> SUBSET Node]
  /\ votes \in [Node -> SUBSET Node]
  /\ call \in [Node -> Call]
  /\ beat \in [Node -> BeatPhase]
  /\ announced \subseteq Node \X Nat
  /\ refusals \subseteq Node \X Nat

(* At most one node believes to be the leader of a term: what              *)
(* Config.checkOneLeader asks of the nodes it can reach.                   *)
ElectionSafety ==
  \A i, j \in Node :
    role[i] = "LEADER" /\ role[j] = "LEADER" /\ currentTerm[i] = currentTerm[j]
      => i = j

(* Node i runs for, or holds, the office its latest request asked for.     *)
Counting(i) ==
  \/ role[i] = "LEADER"
  \/ role[i] = "CANDIDATE" /\ pc[i] \in {"collect", "promote"}

(* A vote that newElection has counted still binds the voter, across the   *)
(* unlocked reads of the handler and the candidate: the voter remembers it *)
(* or has left the term, so nobody else can have it counted.               *)
VotesBind ==
  \A i \in Node : Counting(i) =>
    \A v \in votes[i] :
      \/ currentTerm[v] > request[i].term
      \/ currentTerm[v] = request[i].term /\ votedFor[v] = i

(* No voter is counted by two candidates of one term.                      *)
VotesExclusive ==
  \A i, j \in Node :
    Counting(i) /\ Counting(j) /\ i # j /\ request[i].term = request[j].term
      => votes[i] \cap votes[j] = {}

(* The term of a node never decreases, although currentTerm++ is a read    *)
(* and a write.                                                            *)
TermNeverDecreases ==
  [][\A i \in Node : currentTerm'[i] >= currentTerm[i]]_vars

(* A leader leads one term: it gives the office up for a higher term only, *)
(* and no election or reply moves its term while it holds it.  This holds  *)
(* with every window open.                                                 *)
LeaderKeepsTerm ==
  [][\A i \in Node : role[i] = "LEADER" =>
       \/ role'[i] = "LEADER" /\ currentTerm'[i] = currentTerm[i]
       \/ role'[i] = "FOLLOWER" /\ currentTerm'[i] > currentTerm[i]]_vars

(* While a candidate collects votes its term is the one it asked them for, *)
(* so that the final test of newElection, which compares no terms, does    *)
(* not count the votes of an earlier term.  This holds with every window   *)
(* open.                                                                   *)
CandidateTermStable ==
  \A i \in Node :
    role[i] = "CANDIDATE" /\ pc[i] = "collect"
      => currentTerm[i] = request[i].term

(* Every election ends, won or lost: the candidates, each of them blocked  *)
(* in a call to another, never wait for each other.                        *)
ElectionEnds == \A i \in Node : pc[i] # "idle" ~> pc[i] = "idle"

(* A leader left behind, which some node has passed, learns of the higher  *)
(* term from the replies to its heart beats and gives its term up.         *)
LeaderYields ==
  \A i \in Node, t \in 0 .. MaxTerm :
    (/\ role[i] = "LEADER" /\ currentTerm[i] = t
     /\ \E j \in Node : currentTerm[j] > t)
      ~> currentTerm[i] > t

-----------------------------------------------------------------------------
(***************************************************************************)
(* What makes the properties inductive.                                    *)
(***************************************************************************)

(* Whatever the windows: a leader has no election under way, and a call is *)
(* made while collecting, to another node.                                 *)
ThreadDiscipline ==
  \A i \in Node :
    /\ role[i] = "LEADER" => pc[i] = "idle"
    /\ call[i] # NoCall => pc[i] = "collect"
    /\ i \notin unasked[i] /\ call[i].dest # i

OpenInv == ThreadDiscipline /\ CandidateTermStable

(* The vote node v has granted in the call of i, if i will still count it. *)
PendingVote(i, v) ==
  /\ call[i].granted /\ call[i].dest = v
  /\ \/ call[i].phase = "decided" /\ currentTerm[v] = request[i].term
     \/ call[i].phase = "answered" /\ call[i].term = request[i].term

HasVote(i, v) == v \in votes[i] \/ PendingVote(i, v)

(* With the windows closed: what the locals of newElection still say.      *)
LocalsHold ==
  \A i \in Node :
    /\ pc[i] = "increment" => readTerm[i] = currentTerm[i]
    /\ pc[i] = "request" /\ role[i] = "CANDIDATE" => votedFor[i] = i
    /\ pc[i] = "promote" => role[i] = "CANDIDATE"
    /\ pc[i] = "promote" \/ role[i] = "LEADER" => IsMajority(votes[i])
    /\ Counting(i) => currentTerm[i] = request[i].term

CallsHold ==
  \A i \in Node :
    /\ call[i].phase \in CallPhase
         => currentTerm[call[i].dest] >= request[i].term
    /\ call[i].phase = "checked" => ~call[i].granted
    /\ call[i].phase = "answered" => call[i].term >= request[i].term

Bound(i, v) ==
  \/ currentTerm[v] > request[i].term
  \/ /\ currentTerm[v] = request[i].term
     /\ votedFor[v] = i /\ pc[v] # "claim"

BallotsBind ==
  \A i, v \in Node : Counting(i) /\ HasVote(i, v) => Bound(i, v)

BallotsExclusive ==
  \A i, j, v \in Node :
    /\ Counting(i) /\ Counting(j) /\ request[i].term = request[j].term
    /\ HasVote(i, v) /\ HasVote(j, v)
    => i = j

LockedInv == LocalsHold /\ CallsHold /\ BallotsBind /\ BallotsExclusive
=============================================================================
