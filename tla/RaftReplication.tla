--------------------------- MODULE RaftReplication ---------------------------
(***************************************************************************)
(* Log replication as RaftNode.java runs it: start, the append threads it  *)
(* leaves behind, the heart beats, replyToApdEntriesArgs, and what the     *)
(* nodes hand to the tester (Config.listenRaftPeer).                       *)
(*                                                                         *)
(* Elections are those of RaftElection with its windows closed, one action *)
(* per vote call, so that what goes wrong here is replication's own doing. *)
(* A lost vote is that of a candidate which never counts its votes.        *)
(*                                                                         *)
(* start holds both locks of its node until it returns.  The append        *)
(* threads it has started outlive it, and a call of theirs may take any    *)
(* time.  Races says which orders of events the model has:                 *)
(*   "overtake"  a call may still be under way when its node starts the    *)
(*               next command                                              *)
(*   "commit"    commitLog and the handler apply entry by entry from the   *)
(*               log of now, and share lastApplied and commitIndex with    *)
(*               no lock that they all respect                             *)
(*   "beat"      a heart beat reads the last entry, and later, of what may *)
(*               be another leadership, the term and the commit index      *)
(*   "stop"      a thread that start has stopped ends, and sorts           *)
(*               matchIndex, while its node still leads                    *)
(*   "return"    a node leads again while threads of its last leadership   *)
(*               are still under way                                       *)
(* The code has them all; without "commit" or "beat" the steps of such a   *)
(* window run before any other step.                                       *)
(***************************************************************************)
EXTENDS Integers, Sequences, FiniteSets

CONSTANTS NumPeers,    \* the nodes are 0 .. NumPeers - 1
          Candidates,  \* bound: the nodes that may stand for each term
          Beating,     \* bound: the nodes whose heart beats run
          MaxTerm,     \* bound: no election starts from this term on
          MaxCommand,  \* bound: the commands are 1 .. MaxCommand, in order
          MinNext,     \* bound: nextIndex is not decremented below it
          Lossy,       \* bound: calls fail; otherwise they may only last
          Races        \* the races that are possible

ASSUME NumPeersAssumption == NumPeers \in Nat /\ NumPeers > 1
ASSUME BoundsAssumption ==
  /\ Candidates \in [1 .. MaxTerm -> SUBSET (0 .. NumPeers - 1)]
  /\ Beating \subseteq 0 .. NumPeers - 1
  /\ MaxTerm \in Nat /\ MaxCommand \in Nat /\ MinNext \in Int
ASSUME LossyAssumption == Lossy \in BOOLEAN
ASSUME RacesAssumption ==
  Races \subseteq {"overtake", "commit", "beat", "stop", "return"}

Node == 0 .. NumPeers - 1
Command == 1 .. MaxCommand
None == -1
Idle == 0                        \* no start is in progress

VARIABLES
  currentTerm, votedFor, role,   \* as in RaftElection
  votes,        \* the votes newElection has counted
  log,          \* PersistentState.logEntries
  commitIndex, lastApplied,
  nextIndex, matchIndex,
  starting,     \* the command whose start() holds the locks of the node
  handler,      \* where replyToApdEntriesArgs applies, or None
  operator,     \* the AppendEntryReceiveOperator of each command
  thread,       \* the AppendEntrySendThread of each command and follower
  beat,         \* the heart beat run of each node
  logs          \* Config.logs: what each node has applied, by index

electionVars == <<currentTerm, votedFor, role, votes>>
commitVars == <<commitIndex, lastApplied, logs>>
indexVars == <<nextIndex, matchIndex>>
lockVars == <<starting, handler>>
sendVars == <<operator, thread>>
vars == <<currentTerm, votedFor, role, votes, log, commitIndex, lastApplied,
          nextIndex, matchIndex, starting, handler, operator, thread, beat,
          logs>>

Smaller(a, b) == IF a < b THEN a ELSE b
Larger(a, b) == IF a > b THEN a ELSE b

Last(s) == IF s = <<>> THEN [term |-> 0, index |-> 0]
           ELSE [term |-> s[Len(s)].term, index |-> Len(s)]

(* removeEntriesFrom                                                       *)
Truncate(s, n) == SubSeq(s, 1, Smaller(n, Len(s)))

(* Slip: successCounter >= num_peers / 2.                                  *)
IsHalf(n) == n >= NumPeers \div 2

IsMajority(n) == n > NumPeers \div 2

NoOperator == [leader |-> None, index |-> 0, count |-> 0, committed |-> FALSE]
NoMessage == [from |-> None, term |-> 0, prev |-> 0, prevTerm |-> 0,
              entries |-> <<>>, commit |-> 0]
NoThread == [phase |-> "none", term |-> 0, copy |-> <<>>, stopped |-> FALSE,
             message |-> NoMessage, replyTerm |-> 0, success |-> FALSE,
             applied |-> 0]
NoBeat == [phase |-> "waiting", to |-> 0, message |-> NoMessage,
           replyTerm |-> 0]

Init ==
  /\ currentTerm = [i \in Node |-> 0]
  /\ votedFor = [i \in Node |-> None]
  /\ role = [i \in Node |-> "FOLLOWER"]
  /\ votes = [i \in Node |-> {}]
  /\ log = [i \in Node |-> <<>>]
  /\ commitIndex = [i \in Node |-> 0]
  /\ lastApplied = [i \in Node |-> 0]
  /\ nextIndex = [i \in Node |-> [j \in Node |-> 1]]
  /\ matchIndex = [i \in Node |-> [j \in Node |-> 0]]
  /\ starting = [i \in Node |-> Idle]
  /\ handler = [i \in Node |-> None]
  /\ operator = [c \in Command |-> NoOperator]
  /\ thread = [c \in Command |-> [j \in Node |-> NoThread]]
  /\ beat = [i \in Node |-> NoBeat]
  /\ logs = [i \in Node |-> [n \in Command |-> 0]]

-----------------------------------------------------------------------------
(***************************************************************************)
(* Shared steps.                                                           *)
(***************************************************************************)

(* No start and no handler holds the lock of the state of node j.          *)
Unlocked(j) == starting[j] = Idle /\ handler[j] = None

RefreshTerm(j, t) ==
  IF t > currentTerm[j]
  THEN /\ currentTerm' = [currentTerm EXCEPT ![j] = t]
       /\ votedFor' = [votedFor EXCEPT ![j] = None]
       /\ role' = [role EXCEPT ![j] = "FOLLOWER"]
       /\ votes' = [votes EXCEPT ![j] = {}]
  ELSE UNCHANGED electionVars

(* Node i hands the entries of s from index a + 1 to index b to the        *)
(* tester, which keeps the last command it got for an index.               *)
Apply(i, s, a, b) ==
  logs' = [logs EXCEPT ![i] =
             [n \in Command |-> IF a < n /\ n <= b THEN s[n].command ELSE @[n]]]

-----------------------------------------------------------------------------
(***************************************************************************)
(* Elections.                                                              *)
(***************************************************************************)

(* newElection up to its loop.  Its node holds no start.                   *)
BecomeCandidate(i) ==
  /\ role[i] # "LEADER" /\ Unlocked(i)
  /\ currentTerm[i] < MaxTerm /\ i \in Candidates[currentTerm[i] + 1]
  /\ currentTerm' = [currentTerm EXCEPT ![i] = @ + 1]
  /\ votedFor' = [votedFor EXCEPT ![i] = i]
  /\ role' = [role EXCEPT ![i] = "CANDIDATE"]
  /\ votes' = [votes EXCEPT ![i] = {i}]
  /\ UNCHANGED <<log, commitVars, indexVars, lockVars, sendVars, beat>>

(* Slip: the two entries are compared the wrong way round.                 *)
AtMostAsUpToDate(mine, theirs) ==
  \/ mine.term = theirs.term /\ mine.index >= theirs.index
  \/ mine.term > theirs.term

AtLeastAsUpToDate(mine, theirs) ==
  \/ theirs.term = mine.term /\ theirs.index >= mine.index
  \/ theirs.term > mine.term

(* One call of the loop: replyToReqVoteArgs at j and the reply at i.       *)
RequestVote(i, j) ==
  /\ role[i] = "CANDIDATE" /\ j \notin votes[i] /\ Unlocked(j)
  /\ currentTerm[i] >= currentTerm[j]
  /\ LET asked == IF currentTerm[i] > currentTerm[j] THEN None ELSE votedFor[j]
         granted == /\ asked \in {None, i}
                    /\ AtLeastAsUpToDate(Last(log[j]), Last(log[i]))
     IN /\ granted \/ currentTerm[i] > currentTerm[j]
        /\ currentTerm' = [currentTerm EXCEPT ![j] = currentTerm[i]]
        /\ role' = [role EXCEPT ![j] =
                      IF currentTerm[i] > currentTerm[j] THEN "FOLLOWER" ELSE @]
        /\ votedFor' = [votedFor EXCEPT ![j] = IF granted THEN i ELSE asked]
        /\ votes' = [votes EXCEPT
             ![i] = IF granted THEN @ \cup {j} ELSE @,
             ![j] = IF currentTerm[i] > currentTerm[j] THEN {} ELSE @]
  /\ UNCHANGED <<log, commitVars, indexVars, lockVars, sendVars, beat>>

(* A call to a peer of a higher term.                                      *)
VoteRefused(i, j) ==
  /\ role[i] = "CANDIDATE" /\ Unlocked(i) /\ currentTerm[j] > currentTerm[i]
  /\ RefreshTerm(i, currentTerm[j])
  /\ UNCHANGED <<log, commitVars, indexVars, lockVars, sendVars, beat>>

UnderWay(t) == t # NoThread

(* Threads that node i has started are still under way.                    *)
Sending(i) ==
  \E c \in Command, j \in Node : operator[c].leader = i /\ UnderWay(thread[c][j])

(* toLeaderState                                                           *)
BecomeLeader(i) ==
  /\ role[i] = "CANDIDATE" /\ Unlocked(i) /\ IsMajority(Cardinality(votes[i]))
  /\ "return" \in Races \/ ~Sending(i)
  /\ role' = [role EXCEPT ![i] = "LEADER"]
  /\ nextIndex' = [nextIndex EXCEPT ![i] = [j \in Node |-> Len(log[i]) + 1]]
  /\ matchIndex' = [matchIndex EXCEPT ![i] = [j \in Node |-> 0]]
  /\ votes' = [votes EXCEPT ![i] = {}]
  /\ UNCHANGED <<currentTerm, votedFor, log, commitVars, lockVars, sendVars,
                 beat>>

-----------------------------------------------------------------------------
(***************************************************************************)
(* start and the append threads.                                           *)
(***************************************************************************)

End(c, j) == [thread EXCEPT ![c][j] = NoThread]

(* start, leaderSendAppendEntry up to the wait.  The node keeps its locks. *)
Start(i, c) ==
  /\ role[i] = "LEADER" /\ Unlocked(i)
  /\ operator[c] = NoOperator
  /\ \A d \in Command : d < c => operator[d] # NoOperator
  /\ "overtake" \in Races \/ ~Sending(i)
  /\ log' = [log EXCEPT ![i] =
               Append(@, [term |-> currentTerm[i], command |-> c])]
  /\ lastApplied' = [lastApplied EXCEPT ![i] = commitIndex[i]]
  /\ operator' = [operator EXCEPT ![c] =
       [leader |-> i, index |-> Len(log'[i]), count |-> 1, committed |-> FALSE]]
  /\ thread' = [thread EXCEPT ![c] = [j \in Node |->
       IF j = i THEN NoThread
       ELSE [NoThread EXCEPT !.phase = "new", !.term = currentTerm[i],
                             !.copy = log'[i]]]]
  /\ starting' = [starting EXCEPT ![i] = c]
  /\ UNCHANGED <<electionVars, commitIndex, logs, indexVars, handler, beat>>

(* The thread of the last follower, the only one start stops.              *)
LastPeer(i) == CHOOSE j \in Node \ {i} : \A k \in Node \ {i} : k <= j

(* waitForCommit ends, by agreement or after its timeout, and start        *)
(* returns.                                                                *)
StartReturns(i) ==
  /\ starting[i] # Idle
  /\ thread' = [thread EXCEPT ![starting[i]][LastPeer(i)] =
                  IF UnderWay(@) THEN [@ EXCEPT !.stopped = TRUE] ELSE @]
  /\ starting' = [starting EXCEPT ![i] = Idle]
  /\ UNCHANGED <<electionVars, log, commitVars, indexVars, handler, operator,
                 beat>>

(* Where a thread's loop starts: the roll-back that opens run().           *)
NextToSend(i, j, t) ==
  IF t.phase = "new" THEN Smaller(nextIndex[i][j], matchIndex[i][j] + 1)
  ELSE nextIndex[i][j]

(* One turn of the loop of run(), up to the call.  The prefix term is      *)
(* looked up in the thread's copy, the entries in the log of now: a get or *)
(* subList out of range ends the thread.                                   *)
SendAppend(c, j) ==
  LET i == operator[c].leader
      t == thread[c][j]
      next == NextToSend(i, j, t)
      first == Larger(next - 1, 0)
      prevPosition == Larger(next - 2, 0) + 1
      upto == operator[c].index
      inRange == /\ prevPosition <= Len(t.copy)
                 /\ first <= Len(log[i]) =>
                      first <= upto /\ upto <= Len(log[i])
      entries == IF first <= Len(log[i]) THEN SubSeq(log[i], first + 1, upto)
                 ELSE <<>>
  IN /\ t.phase \in {"new", "again"}
     /\ ~t.stopped /\ role[i] = "LEADER"
     /\ nextIndex' = [nextIndex EXCEPT ![i][j] = next]
     /\ thread' = [thread EXCEPT ![c][j] =
          IF inRange
          THEN [t EXCEPT !.phase = "sent", !.message =
                 [from |-> i, term |-> t.term, prev |-> first,
                  prevTerm |-> t.copy[prevPosition].term,
                  entries |-> entries, commit |-> commitIndex[i]]]
          ELSE NoThread]
     /\ UNCHANGED <<electionVars, log, commitVars, matchIndex, lockVars,
                    operator, beat>>

(* The orders of f: its values, sorted.                                    *)
Sorted(f) ==
  {g \in [Node -> {f[j] : j \in Node}] :
     /\ \A a, b \in Node : a < b => g[a] <= g[b]
     /\ \E p \in [Node -> Node] : /\ \A a, b \in Node : p[a] = p[b] => a = b
                                 /\ \A a \in Node : g[a] = f[p[a]]}

(* The position probNSituation reads in the sorted array.                  *)
Middle == IF NumPeers % 2 = 1 THEN (NumPeers - 1) \div 2
          ELSE NumPeers \div 2 - 1

(* The loop ends because the thread was stopped or its node has stepped    *)
(* down: probNSituation, which sorts matchIndex in place, reads the log    *)
(* one entry too far, and applies nothing.                                 *)
ThreadEnds(c, j) ==
  LET i == operator[c].leader
      t == thread[c][j]
  IN /\ t.phase \in {"new", "again"}
     /\ role[i] # "LEADER" \/ (t.stopped /\ "stop" \in Races)
     /\ starting[i] = Idle
     /\ nextIndex' = [nextIndex EXCEPT ![i][j] = NextToSend(i, j, t)]
     /\ \E sorted \in Sorted(matchIndex[i]) :
          LET N == sorted[Middle]
          IN /\ matchIndex' = [matchIndex EXCEPT ![i] = sorted]
             /\ commitIndex' = [commitIndex EXCEPT ![i] =
                  IF /\ N > commitIndex[i] /\ N + 1 <= Len(log[i])
                     /\ log[i][N + 1].term = currentTerm[i]
                  THEN N ELSE @]
     /\ thread' = End(c, j)
     /\ UNCHANGED <<electionVars, log, lastApplied, logs, lockVars,
                    operator, beat>>

(* No answer comes back, or it does when the node has stepped down: the    *)
(* thread returns.                                                         *)
CallFails(c, j) ==
  /\ Lossy /\ thread[c][j].phase \in {"sent", "replied"}
  /\ thread' = End(c, j)
  /\ UNCHANGED <<electionVars, log, commitVars, indexVars, lockVars, operator,
                 beat>>

-----------------------------------------------------------------------------
(***************************************************************************)
(* replyToApdEntriesArgs at node j, under its lock.                        *)
(***************************************************************************)

IsLegal(j, m) ==
  /\ Len(log[j]) >= m.prev
  /\ m.prev > 0 => log[j][m.prev].term = m.prevTerm

Accepts(j, m) == m.term >= currentTerm[j] /\ IsLegal(j, m)

(* Slip: nothing is removed before the entries are added.                  *)
LogLengthened(j, m) ==
  IF Accepts(j, m) THEN log[j] \o m.entries ELSE log[j]

(* removeEntriesFrom and addAllLogEntries: entries replace everything      *)
(* behind prev, and a refused message removes it.                          *)
LogAfter(j, m) ==
  IF m.term < currentTerm[j] \/ (IsLegal(j, m) /\ m.entries = <<>>)
  THEN log[j]
  ELSE Truncate(log[j], m.prev) \o (IF IsLegal(j, m) THEN m.entries ELSE <<>>)

(* Slip: the commit index of the leader is taken over untested.            *)
CommitOfLeader(j, m) ==
  IF Accepts(j, m) THEN Smaller(m.commit, Len(LogAfter(j, m)))
  ELSE commitIndex[j]

CommitAfter(j, m) ==
  IF Accepts(j, m) /\ m.commit > commitIndex[j]
  THEN Smaller(m.commit, Len(LogAfter(j, m)))
  ELSE commitIndex[j]

Advances(j, m) == Accepts(j, m) /\ m.commit > commitIndex[j]

(* The handler up to its loop, which keeps the lock.                       *)
ReplyToAppend(j, m) ==
  /\ Unlocked(j)
  /\ RefreshTerm(j, m.term)
  /\ log' = [log EXCEPT ![j] = LogAfter(j, m)]
  /\ commitIndex' = [commitIndex EXCEPT ![j] = CommitAfter(j, m)]
  /\ lastApplied' = [lastApplied EXCEPT ![j] =
        IF Advances(j, m) THEN commitIndex[j] ELSE @]
  /\ handler' = [handler EXCEPT ![j] =
        IF Advances(j, m) THEN commitIndex[j] ELSE None]
  /\ UNCHANGED logs

ReplyTerm(j, m) == Larger(m.term, currentTerm[j])

DeliverAppend(c, j) ==
  LET m == thread[c][j].message
  IN /\ thread[c][j].phase = "sent"
     /\ ReplyToAppend(j, m)
     /\ thread' = [thread EXCEPT ![c][j] = [@ EXCEPT
          !.phase = IF Advances(j, m) THEN "handled" ELSE "replied",
          !.message = NoMessage,
          !.replyTerm = ReplyTerm(j, m),
          !.success = Accepts(j, m)]]
     /\ UNCHANGED <<indexVars, starting, operator, beat>>

-----------------------------------------------------------------------------
(***************************************************************************)
(* The thread reads the reply.                                             *)
(***************************************************************************)

(* increaseNextIndex, updateMatchIndex                                     *)
MoveIndexes(i, j) ==
  /\ nextIndex' = [nextIndex EXCEPT ![i][j] = @ + 1]
  /\ matchIndex' = [matchIndex EXCEPT ![i][j] = nextIndex[i][j]]

(* Slip: the loop starts behind its first entry.                           *)
StartsBehind(i) == lastApplied[i] + 1

(* Where the loop of commitLog starts.                                     *)
AppliesFrom(i) == lastApplied[i]

(* A success, whatever the term of the node is by now: commitLog, alone    *)
(* with its operator, counts it.  A majority makes the thread apply.       *)
ReceiveSuccess(c, j) ==
  LET o == operator[c]
      i == o.leader
      decides == ~o.committed /\ IsMajority(o.count + 1)
  IN /\ thread[c][j].phase = "replied" /\ thread[c][j].success
     /\ role[i] = "LEADER"
     /\ \A k \in Node : thread[c][k].phase # "applying"
     /\ operator' = [operator EXCEPT ![c].count =
                        IF o.committed THEN @ ELSE @ + 1]
     /\ IF decides
        THEN /\ thread' = [thread EXCEPT ![c][j] = [@ EXCEPT
                  !.phase = "applying", !.applied = AppliesFrom(i)]]
             /\ UNCHANGED indexVars
        ELSE MoveIndexes(i, j) /\ thread' = End(c, j)
     /\ UNCHANGED <<electionVars, log, commitVars, lockVars, beat>>

(* One turn of the loop of commitLog, on the log of now.  An entry that is *)
(* gone ends the thread with an exception.                                 *)
ApplyNext(c, j) ==
  LET i == operator[c].leader
      n == thread[c][j].applied + 1
  IN /\ thread[c][j].phase = "applying" /\ n <= operator[c].index
     /\ IF n <= Len(log[i])
        THEN /\ Apply(i, log[i], n - 1, n)
             /\ thread' = [thread EXCEPT ![c][j] = [@ EXCEPT !.applied = n]]
        ELSE thread' = End(c, j) /\ UNCHANGED logs
     /\ UNCHANGED <<electionVars, log, commitIndex, lastApplied, indexVars,
                    lockVars, operator, beat>>

(* The loop is done: the command is committed.                             *)
FinishCommit(c, j) ==
  LET i == operator[c].leader
  IN /\ thread[c][j].phase = "applying"
     /\ thread[c][j].applied >= operator[c].index
     /\ operator' = [operator EXCEPT ![c].committed = TRUE]
     /\ commitIndex' = [commitIndex EXCEPT ![i] = operator[c].index]
     /\ lastApplied' = [lastApplied EXCEPT ![i] = operator[c].index]
     /\ MoveIndexes(i, j)
     /\ thread' = End(c, j)
     /\ UNCHANGED <<electionVars, log, logs, lockVars, beat>>

(* A refusal may end the leadership; the thread goes back one entry.       *)
ReceiveRefusal(c, j) ==
  LET i == operator[c].leader
      t == thread[c][j]
  IN /\ t.phase = "replied" /\ ~t.success
     /\ role[i] = "LEADER"
     /\ nextIndex[i][j] > MinNext
     /\ IF t.replyTerm > t.term
        THEN Unlocked(i) /\ RefreshTerm(i, t.replyTerm)
        ELSE UNCHANGED electionVars
     /\ nextIndex' = [nextIndex EXCEPT ![i][j] = @ - 1]
     /\ thread' = [thread EXCEPT ![c][j] = [@ EXCEPT !.phase = "again",
                                                    !.replyTerm = 0]]
     /\ UNCHANGED <<log, commitVars, matchIndex, lockVars, operator,
                    beat>>

-----------------------------------------------------------------------------
(***************************************************************************)
(* Heart beats.                                                            *)
(***************************************************************************)

(* The loop of a run has come to peer n: it passes over its own node.      *)
BeatTo(i, n) == IF n = i THEN n + 1 ELSE n

(* A run of the timer task reads the last entry ...                        *)
BeatBegins(i) ==
  /\ i \in Beating /\ role[i] = "LEADER" /\ Unlocked(i)
  /\ beat[i] = NoBeat
  /\ beat' = [beat EXCEPT ![i] = [NoBeat EXCEPT !.phase = "begun", !.message =
       [NoMessage EXCEPT !.from = i, !.prev = Last(log[i]).index,
                         !.prevTerm = Last(log[i]).term]]]
  /\ UNCHANGED <<electionVars, log, commitVars, indexVars, lockVars,
                 sendVars>>

(* ... then the term and the commit index, which need not be those of a    *)
(* leader any more.                                                        *)
BeatSends(i) ==
  /\ beat[i].phase = "begun"
  /\ LET m == [beat[i].message EXCEPT !.term = currentTerm[i],
                                      !.commit = commitIndex[i]]
     IN beat' = [beat EXCEPT ![i] = [@ EXCEPT
          !.phase = "sent", !.to = BeatTo(i, 0), !.message = m]]
  /\ UNCHANGED <<electionVars, log, commitVars, indexVars, lockVars, sendVars>>

(* Slip: i <= num_peers in the loop of the run.                            *)
NextBeatPastEnd(i) ==
  LET next == BeatTo(i, beat[i].to + 1)
  IN IF next > NumPeers THEN NoBeat
     ELSE [beat[i] EXCEPT !.phase = "sent", !.to = next, !.replyTerm = 0]

(* The run is done with its peer.                                          *)
NextBeat(i) ==
  LET next == BeatTo(i, beat[i].to + 1)
  IN IF next >= NumPeers THEN NoBeat
     ELSE [beat[i] EXCEPT !.phase = "sent", !.to = next, !.replyTerm = 0]

BeatDelivers(i) ==
  LET j == beat[i].to
      m == beat[i].message
  IN /\ beat[i].phase = "sent"
     /\ ReplyToAppend(j, m)
     /\ \/ /\ Advances(j, m)
           /\ beat' = [beat EXCEPT ![i] = [@ EXCEPT !.phase = "handled"]]
        \/ /\ ~Advances(j, m)
           /\ beat' = [beat EXCEPT ![i] = NextBeat(i)]
        \/ /\ ~Accepts(j, m)
           /\ beat' = [beat EXCEPT ![i] = [@ EXCEPT
                !.phase = "refused", !.replyTerm = ReplyTerm(j, m)]]
     /\ UNCHANGED <<indexVars, starting, sendVars>>

BeatFails(i) ==
  /\ beat[i].phase = "sent"
  /\ beat' = [beat EXCEPT ![i] = NextBeat(i)]
  /\ UNCHANGED <<electionVars, log, commitVars, indexVars, lockVars, sendVars>>

(* A refusal is learned from, once no start holds the lock.                *)
BeatRefused(i) ==
  /\ beat[i].phase = "refused" /\ Unlocked(i)
  /\ RefreshTerm(i, beat[i].replyTerm)
  /\ beat' = [beat EXCEPT ![i] = NextBeat(i)]
  /\ UNCHANGED <<log, commitVars, indexVars, lockVars, sendVars>>

-----------------------------------------------------------------------------
(***************************************************************************)
(* The loop of replyToApdEntriesArgs, whoever called it.                   *)
(***************************************************************************)

(* The thread or the heart beat run that waits for node j reads the answer *)
(* or, without one, ends with the exception.                               *)
CallersGoOn(j, answered) ==
  /\ thread' = [c \in Command |-> [k \in Node |->
       IF k # j \/ thread[c][k].phase # "handled" THEN thread[c][k]
       ELSE IF answered THEN [thread[c][k] EXCEPT !.phase = "replied"]
       ELSE NoThread]]
  /\ beat' = [i \in Node |->
       IF beat[i].phase # "handled" \/ beat[i].to # j THEN beat[i]
       ELSE IF answered THEN NextBeat(i)
       ELSE NoBeat]

(* One turn, up to the commit index of now.  An entry that is gone throws. *)
HandlerApplies(j) ==
  LET n == handler[j] + 1
  IN /\ handler[j] # None /\ n <= commitIndex[j]
     /\ IF n <= Len(log[j])
        THEN /\ Apply(j, log[j], n - 1, n)
             /\ handler' = [handler EXCEPT ![j] = n]
             /\ UNCHANGED <<thread, beat>>
        ELSE /\ handler' = [handler EXCEPT ![j] = None]
             /\ CallersGoOn(j, FALSE)
             /\ UNCHANGED logs
     /\ UNCHANGED <<electionVars, log, commitIndex, lastApplied, indexVars,
                    starting, operator>>

HandlerReturns(j) ==
  /\ handler[j] # None /\ handler[j] >= commitIndex[j]
  /\ lastApplied' = [lastApplied EXCEPT ![j] = commitIndex[j]]
  /\ handler' = [handler EXCEPT ![j] = None]
  /\ CallersGoOn(j, TRUE)
  /\ UNCHANGED <<electionVars, log, commitIndex, logs, indexVars, starting,
                 operator>>

-----------------------------------------------------------------------------
NodeStep(i) ==
  \/ BecomeCandidate(i) \/ BecomeLeader(i)
  \/ StartReturns(i)
  \/ BeatBegins(i) \/ BeatDelivers(i) \/ BeatFails(i) \/ BeatRefused(i)
  \/ \E c \in Command : Start(i, c)
  \/ \E j \in Node : \/ RequestVote(i, j) \/ VoteRefused(i, j)

ThreadStep(c, j) ==
  \/ SendAppend(c, j) \/ ThreadEnds(c, j) \/ CallFails(c, j)
  \/ DeliverAppend(c, j)
  \/ ReceiveSuccess(c, j) \/ ReceiveRefusal(c, j)

CommitStep(c, j) == ApplyNext(c, j) \/ FinishCommit(c, j)

HandlerStep(j) == HandlerApplies(j) \/ HandlerReturns(j)

(* Nobody is in a window that Races keeps closed.                          *)
Undisturbed ==
  /\ "beat" \in Races \/ \A i \in Node : beat[i].phase # "begun"
  /\ \/ "commit" \in Races
     \/ \A j \in Node : /\ handler[j] = None
                        /\ \A c \in Command : thread[c][j].phase # "applying"

Next ==
  \/ \E i \in Node : BeatSends(i) \/ HandlerStep(i)
  \/ \E c \in Command, j \in Node : CommitStep(c, j)
  \/ Undisturbed /\ \E i \in Node : NodeStep(i)
  \/ Undisturbed /\ \E c \in Command, j \in Node : ThreadStep(c, j)

Spec == Init /\ [][Next]_vars

-----------------------------------------------------------------------------
(***************************************************************************)
(* Properties.                                                             *)
(***************************************************************************)

Entry == [term : Nat, command : Command]
Message == [from : Node \cup {None}, term : Nat, prev : Nat, prevTerm : Nat,
            entries : Seq(Entry), commit : Nat]
Operator == [leader : Node \cup {None}, index : Nat, count : Nat,
             committed : BOOLEAN]
Thread == [phase : {"none", "new", "again", "sent", "handled", "replied",
                    "applying"},
           term : Nat, copy : Seq(Entry), stopped : BOOLEAN,
           message : Message, replyTerm : Nat, success : BOOLEAN,
           applied : Nat]
Beat == [phase : {"waiting", "begun", "sent", "handled", "refused"},
         to : Node, message : Message, replyTerm : Nat]

(* Every field has the type its Java declaration and its use give it; a    *)
(* heart beat is on its way to a node.                                     *)
TypeOK ==
  /\ currentTerm \in [Node -> Nat]
  /\ votedFor \in [Node -> Node \cup {None}]
  /\ role \in [Node -> {"FOLLOWER", "CANDIDATE", "LEADER"}]
  /\ votes \in [Node -> SUBSET Node]
  /\ log \in [Node -> Seq(Entry)]
  /\ commitIndex \in [Node -> Nat] /\ lastApplied \in [Node -> Nat]
  /\ nextIndex \in [Node -> [Node -> Int]]
  /\ matchIndex \in [Node -> [Node -> Int]]
  /\ starting \in [Node -> Command \cup {Idle}]
  /\ handler \in [Node -> Nat \cup {None}]
  /\ operator \in [Command -> Operator]
  /\ thread \in [Command -> [Node -> Thread]]
  /\ beat \in [Node -> Beat]
  /\ logs \in [Node -> [Command -> Command \cup {Idle}]]

(* Two logs with an entry of one term at one index agree up to it, however *)
(* replyToApdEntriesArgs cuts and rewrites them.                           *)
LogMatching ==
  \A i, j \in Node : \A n \in 1 .. Smaller(Len(log[i]), Len(log[j])) :
    log[i][n].term = log[j][n].term
      => SubSeq(log[i], 1, n) = SubSeq(log[j], 1, n)

(* No two nodes hand different commands to applyChannel for one index:     *)
(* the error Config.listenRaftPeer reports as "some server has already     *)
(* committed a different value for this entry!".                           *)
StateMachineSafety ==
  \A i, j \in Node, n \in Command :
    logs[i][n] # 0 /\ logs[j][n] # 0 => logs[i][n] = logs[j][n]

(* A node hands no entry to applyChannel before the one ahead of it, nor   *)
(* skips one: Config.listenRaftPeer reports "apply out of order".  The     *)
(* start of a command and both loops that apply share lastApplied.         *)
AppliedInOrder ==
  \A i \in Node, n \in Command : n > 1 /\ logs[i][n] # 0 => logs[i][n - 1] # 0

(* What any node has applied stays in the log of a majority, at its index: *)
(* no later AppendEntries, heart beat or election removes it.              *)
AppliedEntriesStay ==
  \A i \in Node, n \in Command : logs[i][n] # 0 =>
    IsMajority(Cardinality({j \in Node :
      n <= Len(log[j]) /\ log[j][n].command = logs[i][n]}))

(* The commit index of a node never goes back, whichever of commitLog,     *)
(* probNSituation and replyToApdEntriesArgs sets it.                       *)
CommitNeverRetreats ==
  [][\A i \in Node : commitIndex'[i] >= commitIndex[i]]_commitIndex

(* What has been agreed on is what the node that has applied most of all   *)
(* has applied.                                                            *)
Decided ==
  logs[CHOOSE i \in Node : \A j \in Node, n \in Command :
         logs[j][n] # 0 => logs[i][n] # 0]

Service == INSTANCE Agreement WITH
  Nothing <- 0,
  started <- {c \in Command : operator[c] # NoOperator},
  chosen <- Decided,
  applied <- logs

(* Through elections, rewritten logs and lost answers, what the nodes      *)
(* apply is one sequence: each entry applied for the first time is a       *)
(* started command that was not there before, directly behind all others,  *)
(* and no node ever applies anything else again.                           *)
AgreesOnOneSequence == Service!Spec
=============================================================================
