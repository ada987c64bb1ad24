--------------------------- MODULE RaftLogProofs ---------------------------
(***************************************************************************)
(* The types of RaftReplication, whichever races are open, and log         *)
(* matching, for every number of nodes and every bound.                    *)
(***************************************************************************)
EXTENDS RaftReplication, TLAPS, FiniteSetTheorems, SequenceTheorems

-----------------------------------------------------------------------------
(***************************************************************************)
(* Type correctness.                                                       *)
(***************************************************************************)

(* A thread that is under way knows its node, which is not its follower.   *)
LeadersKnown ==
  \A c \in Command, j \in Node :
    UnderWay(thread[c][j]) => operator[c].leader \in Node \ {j}

TypeInv == TypeOK /\ LeadersKnown

LEMMA NodesAreNumbers == Node \subseteq Int /\ 0 \in Node /\ 1 \in Node /\ None \notin Node
BY NumPeersAssumption DEF Node, None

LEMMA CommandsAreNumbers == Command \subseteq Nat \ {0} /\ Idle \notin Command
BY BoundsAssumption DEF Command, Idle

LEMMA EmptyRecordsTyped ==
  NoMessage \in Message /\ NoThread \in Thread /\ NoBeat \in Beat /\ NoOperator \in Operator
<1>1. <<>> \in Seq(Entry) /\ 0 \in Node
  BY NodesAreNumbers
<1>2. NoMessage \in Message
  BY <1>1 DEF NoMessage, Message
<1> HIDE DEF NoMessage, Message
<1>3. NoThread \in Thread
  BY <1>1, <1>2 DEF NoThread, Thread
<1>4. NoBeat \in Beat
  BY <1>1, <1>2 DEF NoBeat, Beat
<1> QED
  BY <1>2, <1>3, <1>4 DEF NoOperator, Operator

(* A cut of a log is a log.                                                *)
LEMMA CutIsLog ==
  ASSUME NEW s \in Seq(Entry), NEW a \in Nat, NEW b \in Nat, b <= Len(s)
  PROVE  SubSeq(s, a + 1, b) \in Seq(Entry)
BY SubSeqProperties

LEMMA TruncateIsLog ==
  ASSUME NEW s \in Seq(Entry), NEW n \in Nat
  PROVE  Truncate(s, n) \in Seq(Entry)
<1>1. Len(s) \in Nat
  BY LenProperties
<1>2. Smaller(n, Len(s)) \in Nat /\ Smaller(n, Len(s)) <= Len(s)
  BY <1>1 DEF Smaller
<1> QED
  BY <1>2, CutIsLog DEF Truncate

(* What a message makes of a log is a log.                                 *)
LEMMA LogAfterIsLog ==
  ASSUME log \in [Node -> Seq(Entry)], NEW j \in Node, NEW m \in Message
  PROVE  LogAfter(j, m) \in Seq(Entry)
<1>1. log[j] \in Seq(Entry) /\ m.prev \in Nat /\ m.entries \in Seq(Entry)
  BY DEF Message
<1>2. Truncate(log[j], m.prev) \in Seq(Entry)
  BY <1>1, TruncateIsLog
<1>3. <<>> \in Seq(Entry)
  OBVIOUS
<1> DEFINE behind == IF IsLegal(j, m) THEN m.entries ELSE <<>>
<1>4. behind \in Seq(Entry)
  BY <1>1, <1>3
<1>5. Truncate(log[j], m.prev) \o behind \in Seq(Entry)
  BY <1>2, <1>4, ConcatProperties
<1> QED
  BY <1>1, <1>5 DEF LogAfter

(* refreshTerm keeps the types of what it writes.                          *)
LEMMA RefreshTermType ==
  ASSUME TypeOK, NEW j \in Node, NEW t \in Nat, RefreshTerm(j, t)
  PROVE  /\ currentTerm' \in [Node -> Nat]
         /\ votedFor' \in [Node -> Node \cup {None}]
         /\ role' \in [Node -> {"FOLLOWER", "CANDIDATE", "LEADER"}]
         /\ votes' \in [Node -> SUBSET Node]
BY DEF TypeOK, RefreshTerm, electionVars

(* So does the tester's record when a node applies one entry of its log.   *)
LEMMA ApplyType ==
  ASSUME TypeOK, NEW i \in Node, NEW n \in Nat, n > 0, n <= Len(log[i]),
         Apply(i, log[i], n - 1, n)
  PROVE  logs' \in [Node -> [Command -> Command \cup {Idle}]]
<1>1. log[i][n].command \in Command
  <2>1. log[i] \in Seq(Entry)
    BY DEF TypeOK
  <2>2. log[i][n] \in Entry
    BY <2>1, ElementOfSeq
  <2> QED
    BY <2>2 DEF Entry
<1>2. \A k \in Command : n - 1 < k /\ k <= n => k = n
  BY CommandsAreNumbers
<1> QED
  BY <1>1, <1>2 DEF Apply, TypeOK

(* replyToApdEntriesArgs keeps the types.                                  *)
LEMMA ReplyToAppendType ==
  ASSUME TypeOK, NEW j \in Node, NEW m \in Message, ReplyToAppend(j, m)
  PROVE  /\ currentTerm' \in [Node -> Nat]
         /\ votedFor' \in [Node -> Node \cup {None}]
         /\ role' \in [Node -> {"FOLLOWER", "CANDIDATE", "LEADER"}]
         /\ votes' \in [Node -> SUBSET Node]
         /\ log' \in [Node -> Seq(Entry)]
         /\ commitIndex' \in [Node -> Nat] /\ lastApplied' \in [Node -> Nat]
         /\ handler' \in [Node -> Nat \cup {None}]
         /\ logs' = logs
<1>1. m.term \in Nat /\ m.commit \in Nat
  BY DEF Message
<1>2. LogAfter(j, m) \in Seq(Entry)
  BY LogAfterIsLog DEF TypeOK
<1>3. Len(LogAfter(j, m)) \in Nat
  BY <1>2, LenProperties
<1>4. CommitAfter(j, m) \in Nat
  BY <1>1, <1>3 DEF CommitAfter, Smaller, TypeOK
<1>5. log' \in [Node -> Seq(Entry)]
  BY <1>2 DEF ReplyToAppend, TypeOK
<1>6. /\ commitIndex' \in [Node -> Nat] /\ lastApplied' \in [Node -> Nat]
      /\ handler' \in [Node -> Nat \cup {None}] /\ logs' = logs
  BY <1>4 DEF ReplyToAppend, TypeOK
<1> QED
  BY <1>1, <1>5, <1>6, RefreshTermType DEF ReplyToAppend

(* The run of a heart beat goes on to a node, or it is over.               *)
LEMMA NextBeatType ==
  ASSUME TypeOK, NEW i \in Node
  PROVE  NextBeat(i) \in Beat
<1>1. beat[i] \in Beat
  BY DEF TypeOK
<1>2. BeatTo(i, beat[i].to + 1) < NumPeers
        => BeatTo(i, beat[i].to + 1) \in Node
  BY <1>1, NumPeersAssumption DEF Beat, BeatTo, Node
<1>3. BeatTo(i, beat[i].to + 1) \in Int
  BY <1>1, NumPeersAssumption DEF Beat, BeatTo, Node
<1>4. ASSUME NEW n \in Node
      PROVE  [beat[i] EXCEPT !.phase = "sent", !.to = n, !.replyTerm = 0]
               \in Beat
  BY <1>1 DEF Beat
<1>5. CASE BeatTo(i, beat[i].to + 1) >= NumPeers
  <2>1. NextBeat(i) = NoBeat
    BY <1>5 DEF NextBeat
  <2> QED
    BY <2>1, EmptyRecordsTyped
<1>6. CASE ~(BeatTo(i, beat[i].to + 1) >= NumPeers)
  <2>1. BeatTo(i, beat[i].to + 1) \in Node
    BY <1>2, <1>3, <1>6, NumPeersAssumption
  <2>2. NextBeat(i) = [beat[i] EXCEPT !.phase = "sent", !.replyTerm = 0,
                         !.to = BeatTo(i, beat[i].to + 1)]
    BY <1>6 DEF NextBeat
  <2> QED
    BY <1>4, <2>1, <2>2
<1> QED
  BY <1>5, <1>6

(* Whoever waited for the handler goes on with a thread of the same types. *)
LEMMA CallersGoOnType ==
  ASSUME TypeInv, NEW j \in Node, NEW answered \in BOOLEAN,
         CallersGoOn(j, answered), UNCHANGED operator
  PROVE  /\ thread' \in [Command -> [Node -> Thread]]
         /\ beat' \in [Node -> Beat]
         /\ LeadersKnown'
<1> USE EmptyRecordsTyped
<1>1. \A i \in Node : NextBeat(i) \in Beat
  BY NextBeatType DEF TypeInv
<1>2. ASSUME NEW c \in Command, NEW k \in Node
      PROVE  /\ thread'[c][k] \in Thread
             /\ UnderWay(thread'[c][k]) => UnderWay(thread[c][k])
  <2>1. thread[c][k] \in Thread
    BY DEF TypeInv, TypeOK
  <2>2. /\ [thread[c][k] EXCEPT !.phase = "replied"] \in Thread
    BY <2>1 DEF Thread
  <2>3. NoThread.phase # "handled"
    BY DEF NoThread
  <2> DEFINE waiting == [thread[c][k] EXCEPT !.phase = "replied"]
  <2>4. thread'[c][k] =
          IF k # j \/ thread[c][k].phase # "handled" THEN thread[c][k]
          ELSE IF answered THEN waiting
          ELSE NoThread
    BY DEF CallersGoOn
  <2> HIDE DEF waiting
  <2>5. CASE k # j \/ thread[c][k].phase # "handled"
    <3>1. thread'[c][k] = thread[c][k]
      BY <2>4, <2>5
    <3> QED
      BY <2>1, <3>1
  <2>6. CASE ~(k # j \/ thread[c][k].phase # "handled")
    <3>1. UnderWay(thread[c][k])
      BY <2>3, <2>6 DEF UnderWay
    <3>2. thread'[c][k] = IF answered THEN waiting ELSE NoThread
      BY <2>4, <2>6
    <3>3. thread'[c][k] \in Thread
      BY <2>2, <3>2 DEF waiting
    <3> QED
      BY <3>1, <3>3
  <2> QED
    BY <2>5, <2>6
<1>3. thread' \in [Command -> [Node -> Thread]]
  BY <1>2 DEF CallersGoOn
<1>4. beat' \in [Node -> Beat]
  BY <1>1 DEF CallersGoOn, TypeInv, TypeOK
<1>5. LeadersKnown'
  BY <1>2 DEF LeadersKnown, TypeInv
<1> QED
  BY <1>3, <1>4, <1>5

(* Nothing is under way in the initial state.                              *)
LEMMA InitTyped == Init => TypeInv
<1> SUFFICES ASSUME Init PROVE TypeInv
  OBVIOUS
<1> USE EmptyRecordsTyped, NodesAreNumbers
<1>1. <<>> \in Seq(Entry)
  OBVIOUS
<1>2. TypeOK
  BY <1>1 DEF Init, TypeOK, None, Idle
<1>3. LeadersKnown
  BY DEF Init, LeadersKnown, UnderWay
<1> QED
  BY <1>2, <1>3 DEF TypeInv

(* The actions of an election.                                             *)
LEMMA ElectionTyped ==
  ASSUME TypeInv, NEW i \in Node, NEW j \in Node,
         \/ BecomeCandidate(i) \/ RequestVote(i, j) \/ VoteRefused(i, j)
         \/ BecomeLeader(i)
  PROVE  TypeInv'
<1> USE DEF TypeInv, commitVars, indexVars, lockVars, sendVars
<1>1. TypeOK
  OBVIOUS
<1>2. CASE BecomeCandidate(i)
  <2>1. currentTerm' \in [Node -> Nat]
    <3>1. /\ currentTerm \in [Node -> Nat]
          /\ currentTerm' = [currentTerm EXCEPT ![i] = @ + 1]
      BY <1>1, <1>2 DEF BecomeCandidate, TypeOK
    <3> QED
      BY <3>1
  <2>2. votedFor' \in [Node -> Node \cup {None}]
    BY <1>1, <1>2 DEF BecomeCandidate, TypeOK
  <2>3. role' \in [Node -> {"FOLLOWER", "CANDIDATE", "LEADER"}]
    BY <1>1, <1>2 DEF BecomeCandidate, TypeOK
  <2>4. votes' \in [Node -> SUBSET Node]
    BY <1>1, <1>2 DEF BecomeCandidate, TypeOK
  <2>5. UNCHANGED <<log, commitVars, indexVars, lockVars, sendVars, beat>>
    BY <1>2 DEF BecomeCandidate
  <2> QED
    BY <1>1, <2>1, <2>2, <2>3, <2>4, <2>5 DEF TypeOK, LeadersKnown
<1>3. CASE RequestVote(i, j)
  <2>1. currentTerm' \in [Node -> Nat]
    BY <1>1, <1>3 DEF RequestVote, TypeOK
  <2>2. role' \in [Node -> {"FOLLOWER", "CANDIDATE", "LEADER"}]
    BY <1>1, <1>3 DEF RequestVote, TypeOK
  <2>3. votedFor' \in [Node -> Node \cup {None}]
    BY <1>1, <1>3 DEF RequestVote, TypeOK
  <2>4. votes' \in [Node -> SUBSET Node]
    BY <1>1, <1>3 DEF RequestVote, TypeOK
  <2>5. UNCHANGED <<log, commitVars, indexVars, lockVars, sendVars, beat>>
    BY <1>3 DEF RequestVote
  <2> QED
    BY <1>1, <2>1, <2>2, <2>3, <2>4, <2>5 DEF TypeOK, LeadersKnown
<1>4. CASE VoteRefused(i, j)
  <2>1. RefreshTerm(i, currentTerm[j]) /\ currentTerm[j] \in Nat
    BY <1>1, <1>4 DEF VoteRefused, TypeOK
  <2> QED
    BY <1>1, <1>4, <2>1, RefreshTermType
       DEF VoteRefused, TypeOK, LeadersKnown
<1>5. CASE BecomeLeader(i)
  <2>1. Len(log[i]) \in Nat
    BY <1>1, LenProperties DEF TypeOK
  <2>2. /\ role' \in [Node -> {"FOLLOWER", "CANDIDATE", "LEADER"}]
        /\ votes' \in [Node -> SUBSET Node]
    BY <1>1, <1>5 DEF BecomeLeader, TypeOK
  <2>3. /\ nextIndex' \in [Node -> [Node -> Int]]
        /\ matchIndex' \in [Node -> [Node -> Int]]
    BY <1>1, <1>5, <2>1 DEF BecomeLeader, TypeOK
  <2>4. UNCHANGED <<currentTerm, votedFor, log, commitVars, lockVars,
                    sendVars, beat>>
    BY <1>5 DEF BecomeLeader
  <2> QED
    BY <1>1, <2>2, <2>3, <2>4 DEF TypeOK, LeadersKnown
<1> QED
  BY <1>2, <1>3, <1>4, <1>5

(* start.                                                                  *)
LEMMA StartTyped ==
  ASSUME TypeInv, NEW i \in Node, NEW c \in Command, Start(i, c)
  PROVE  TypeInv'
<1> USE DEF electionVars, commitVars, indexVars, lockVars, sendVars
<1>1. TypeOK /\ LeadersKnown
  BY DEF TypeInv
<1>2. [term |-> currentTerm[i], command |-> c] \in Entry
  BY <1>1 DEF TypeOK, Entry
<1> DEFINE longer == Append(log[i], [term |-> currentTerm[i], command |-> c])
<1>3. longer \in Seq(Entry) /\ Len(longer) \in Nat
  BY <1>1, <1>2, AppendProperties, LenProperties DEF TypeOK
<1>4. log' = [log EXCEPT ![i] = longer] /\ log'[i] = longer
  BY <1>1 DEF Start, TypeOK
<1> HIDE DEF longer
<1>5. [leader |-> i, index |-> Len(longer), count |-> 1, committed |-> FALSE]
        \in Operator
  BY <1>3 DEF Operator
<1> DEFINE new == [NoThread EXCEPT !.phase = "new", !.term = currentTerm[i],
                                   !.copy = longer]
<1>6. new \in Thread
  BY <1>1, <1>3, EmptyRecordsTyped DEF Thread, TypeOK
<1>7. thread' = [thread EXCEPT ![c] =
                   [j \in Node |-> IF j = i THEN NoThread ELSE new]]
  BY <1>4 DEF Start
<1> HIDE DEF new
<1>8. operator' = [operator EXCEPT ![c] =
        [leader |-> i, index |-> Len(longer), count |-> 1,
         committed |-> FALSE]]
  BY <1>4 DEF Start
<1>9. thread' \in [Command -> [Node -> Thread]]
  BY <1>1, <1>6, <1>7, EmptyRecordsTyped DEF TypeOK
<1>10. operator' \in [Command -> Operator]
  BY <1>1, <1>5, <1>8 DEF TypeOK
<1>11. TypeOK'
  BY <1>1, <1>3, <1>4, <1>9, <1>10 DEF Start, TypeOK
<1>12. LeadersKnown'
  BY <1>1, <1>7, <1>8 DEF LeadersKnown, UnderWay, TypeOK
<1> QED
  BY <1>11, <1>12 DEF TypeInv

(* One thread becomes t.                                                   *)
LEMMA OneThreadMoves ==
  ASSUME TypeInv, NEW c \in Command, NEW j \in Node, NEW t \in Thread,
         thread' = [thread EXCEPT ![c][j] = t],
         UnderWay(t) => UnderWay(thread[c][j]),
         \A d \in Command : operator'[d].leader = operator[d].leader
  PROVE  /\ thread' \in [Command -> [Node -> Thread]]
         /\ LeadersKnown'
<1>1. thread \in [Command -> [Node -> Thread]]
  BY DEF TypeInv, TypeOK
<1>2. thread' \in [Command -> [Node -> Thread]]
  BY <1>1
<1>3. LeadersKnown'
  <2>1. LeadersKnown
    BY DEF TypeInv
  <2> SUFFICES ASSUME NEW d \in Command, NEW k \in Node,
                      UnderWay(thread'[d][k])
               PROVE  operator'[d].leader \in Node \ {k}
    BY DEF LeadersKnown, UnderWay
  <2>2. UnderWay(thread[d][k])
    BY <1>1
  <2> QED
    BY <2>1, <2>2 DEF LeadersKnown
<1> QED
  BY <1>2, <1>3

(* A thread in any phase is under way, and its node is known.              *)
LEMMA PhaseUnderWay ==
  ASSUME TypeInv, NEW c \in Command, NEW j \in Node,
         thread[c][j].phase # "none"
  PROVE  /\ thread[c][j] \in Thread
         /\ UnderWay(thread[c][j])
         /\ operator[c] \in Operator
         /\ operator[c].leader \in Node /\ operator[c].leader # j
<1>1. thread[c][j] \in Thread /\ operator[c] \in Operator
  BY DEF TypeInv, TypeOK
<1>2. UnderWay(thread[c][j])
  BY DEF UnderWay, NoThread
<1> QED
  BY <1>1, <1>2 DEF TypeInv, LeadersKnown

LEMMA ThreadEnded == ~UnderWay(NoThread) /\ NoThread.phase = "none"
BY DEF UnderWay, NoThread

(* The follower of the thread that start stops.                            *)
LEMMA LastPeerIsNode ==
  ASSUME NEW i \in Node
  PROVE  LastPeer(i) \in Node \ {i}
<1> DEFINE last == IF i = NumPeers - 1 THEN NumPeers - 2 ELSE NumPeers - 1
<1>1. last \in Node \ {i} /\ \A k \in Node \ {i} : k <= last
  BY NumPeersAssumption DEF Node
<1> QED
  BY <1>1 DEF LastPeer

LEMMA StartReturnsTyped ==
  ASSUME TypeInv, NEW i \in Node, StartReturns(i)
  PROVE  TypeInv'
<1> USE DEF electionVars, commitVars, indexVars
<1>1. TypeOK
  BY DEF TypeInv
<1>2. starting[i] \in Command
  BY <1>1 DEF StartReturns, TypeOK
<1>3. LastPeer(i) \in Node
  BY LastPeerIsNode
<1> DEFINE c == starting[i]
           t == IF UnderWay(thread[c][LastPeer(i)])
                THEN [thread[c][LastPeer(i)] EXCEPT !.stopped = TRUE]
                ELSE thread[c][LastPeer(i)]
<1>4. thread[c][LastPeer(i)] \in Thread
  BY <1>1, <1>2, <1>3 DEF TypeOK
<1>5. t \in Thread
  <2>1. [thread[c][LastPeer(i)] EXCEPT !.stopped = TRUE] \in Thread
    BY <1>4 DEF Thread
  <2> QED
    BY <1>4, <2>1
<1>6. UnderWay(t) => UnderWay(thread[c][LastPeer(i)])
  OBVIOUS
<1>7. thread' = [thread EXCEPT ![c][LastPeer(i)] = t]
  BY <1>1, <1>2, <1>3 DEF StartReturns, TypeOK
<1>8. UNCHANGED operator
  BY DEF StartReturns
<1> HIDE DEF t, c
<1>9. thread' \in [Command -> [Node -> Thread]] /\ LeadersKnown'
  BY <1>2, <1>3, <1>5, <1>6, <1>7, <1>8, OneThreadMoves DEF c
<1>10. starting' \in [Node -> Command \cup {Idle}]
  BY <1>1 DEF StartReturns, TypeOK
<1> QED
  BY <1>1, <1>8, <1>9, <1>10 DEF StartReturns, TypeInv, TypeOK

(* A turn of the loop of an append thread.                                 *)
LEMMA SendAppendTyped ==
  ASSUME TypeInv, NEW c \in Command, NEW j \in Node, SendAppend(c, j)
  PROVE  TypeInv'
<1> USE DEF electionVars, commitVars, lockVars
<1>1. TypeOK
  BY DEF TypeInv
<1> DEFINE i == operator[c].leader
           t == thread[c][j]
           next == NextToSend(i, j, t)
           first == Larger(next - 1, 0)
           prevPosition == Larger(next - 2, 0) + 1
           upto == operator[c].index
           inRange == /\ prevPosition <= Len(t.copy)
                      /\ first <= Len(log[i]) =>
                           first <= upto /\ upto <= Len(log[i])
           entries == IF first <= Len(log[i])
                      THEN SubSeq(log[i], first + 1, upto) ELSE <<>>
           m == [from |-> i, term |-> t.term, prev |-> first,
                 prevTerm |-> t.copy[prevPosition].term,
                 entries |-> entries, commit |-> commitIndex[i]]
           sent == [t EXCEPT !.phase = "sent", !.message = m]
           after == IF inRange THEN sent ELSE NoThread
<1>2. t.phase # "none"
  BY DEF SendAppend
<1>3. t \in Thread /\ UnderWay(t) /\ i \in Node /\ upto \in Nat
  BY <1>2, PhaseUnderWay DEF Operator
<1>4. next \in Int
  BY <1>1, <1>3 DEF NextToSend, Smaller, TypeOK
<1>5. first \in Nat /\ prevPosition \in Nat \ {0}
  BY <1>4 DEF Larger
<1>6. thread' = [thread EXCEPT ![c][j] = after]
  BY DEF SendAppend
<1>7. nextIndex' = [nextIndex EXCEPT ![i][j] = next]
  BY DEF SendAppend
<1>8. log[i] \in Seq(Entry) /\ t.copy \in Seq(Entry) /\ commitIndex[i] \in Nat
  BY <1>1, <1>3 DEF TypeOK, Thread
<1>9. ASSUME inRange PROVE m \in Message
  <2>1. t.copy[prevPosition] \in Entry
    BY <1>5, <1>8, <1>9, ElementOfSeq
  <2>2. entries \in Seq(Entry)
    BY <1>3, <1>5, <1>8, <1>9, CutIsLog
  <2>3. t.copy[prevPosition].term \in Nat
    BY <2>1 DEF Entry
  <2>4. t.term \in Nat
    BY <1>3 DEF Thread
  <2> HIDE DEF entries, prevPosition, first
  <2> QED
    BY <1>3, <1>5, <1>8, <2>2, <2>3, <2>4 DEF Message
<1> HIDE DEF m
<1>10. inRange => sent \in Thread
  BY <1>3, <1>9 DEF Thread
<1> HIDE DEF sent, inRange
<1>11. after \in Thread
  BY <1>10, EmptyRecordsTyped
<1> HIDE DEF after
<1>12. UNCHANGED operator
  BY DEF SendAppend
<1>13. thread' \in [Command -> [Node -> Thread]] /\ LeadersKnown'
  BY <1>3, <1>6, <1>11, <1>12, OneThreadMoves
<1>14. nextIndex' \in [Node -> [Node -> Int]]
  BY <1>1, <1>3, <1>4, <1>7 DEF TypeOK
<1> QED
  BY <1>1, <1>12, <1>13, <1>14 DEF SendAppend, TypeInv, TypeOK

LEMMA MiddleIsNode == Middle \in Node
<1>1. CASE NumPeers % 2 = 1
  BY <1>1, NumPeersAssumption DEF Middle, Node
<1>2. CASE NumPeers % 2 # 1
  BY <1>2, NumPeersAssumption DEF Middle, Node
<1> QED
  BY <1>1, <1>2

(* The end of a thread whose node does not lead, probNSituation included.  *)
LEMMA ThreadEndsTyped ==
  ASSUME TypeInv, NEW c \in Command, NEW j \in Node, ThreadEnds(c, j)
  PROVE  TypeInv'
<1> USE DEF electionVars, lockVars
<1>1. TypeOK
  BY DEF TypeInv
<1> DEFINE i == operator[c].leader
           t == thread[c][j]
<1>2. t \in Thread /\ UnderWay(t) /\ i \in Node
  <2>1. t.phase # "none"
    BY DEF ThreadEnds
  <2> QED
    BY <2>1, PhaseUnderWay
<1>3. NextToSend(i, j, t) \in Int
  BY <1>1, <1>2 DEF NextToSend, Smaller, TypeOK
<1>4. nextIndex' \in [Node -> [Node -> Int]]
  BY <1>1, <1>2, <1>3 DEF ThreadEnds, TypeOK
<1>5. PICK sorted \in Sorted(matchIndex[i]) :
        /\ matchIndex' = [matchIndex EXCEPT ![i] = sorted]
        /\ commitIndex' = [commitIndex EXCEPT ![i] =
             IF /\ sorted[Middle] > commitIndex[i]
                /\ sorted[Middle] + 1 <= Len(log[i])
                /\ log[i][sorted[Middle] + 1].term = currentTerm[i]
             THEN sorted[Middle] ELSE @]
  BY DEF ThreadEnds
<1>6. sorted \in [Node -> Int]
  <2>1. matchIndex[i] \in [Node -> Int]
    BY <1>1, <1>2 DEF TypeOK
  <2>2. \A k \in Node : matchIndex[i][k] \in Int
    BY <2>1
  <2>3. sorted \in [Node -> {matchIndex[i][k] : k \in Node}]
    BY <1>5 DEF Sorted
  <2>4. \A k \in Node : sorted[k] \in Int
    BY <2>2, <2>3
  <2> QED
    BY <2>3, <2>4
<1>7. matchIndex' \in [Node -> [Node -> Int]]
  BY <1>1, <1>2, <1>5, <1>6 DEF TypeOK
<1>8. commitIndex' \in [Node -> Nat]
  <2>1. sorted[Middle] \in Int
    BY <1>6, MiddleIsNode
  <2>2. commitIndex[i] \in Nat
    BY <1>1, <1>2 DEF TypeOK
  <2>3. commitIndex'[i] \in Nat
    BY <1>1, <1>2, <1>5, <2>1, <2>2 DEF TypeOK
  <2> QED
    BY <1>1, <1>2, <1>5, <2>3 DEF TypeOK
<1>9. thread' \in [Command -> [Node -> Thread]] /\ LeadersKnown'
  <2>1. thread' = [thread EXCEPT ![c][j] = NoThread] /\ UNCHANGED operator
    BY DEF ThreadEnds, End
  <2> QED
    BY <2>1, EmptyRecordsTyped, ThreadEnded, OneThreadMoves
<1>10. UNCHANGED <<electionVars, log, lastApplied, logs, lockVars, operator,
                   beat>>
  BY DEF ThreadEnds
<1> QED
  BY <1>1, <1>4, <1>7, <1>8, <1>9, <1>10 DEF TypeInv, TypeOK

LEMMA CallFailsTyped ==
  ASSUME TypeInv, NEW c \in Command, NEW j \in Node, CallFails(c, j)
  PROVE  TypeInv'
<1> USE DEF electionVars, commitVars, indexVars, lockVars
<1>1. thread' = [thread EXCEPT ![c][j] = NoThread] /\ UNCHANGED operator
  BY DEF CallFails, End
<1>2. thread' \in [Command -> [Node -> Thread]] /\ LeadersKnown'
  BY <1>1, EmptyRecordsTyped, ThreadEnded, OneThreadMoves
<1> QED
  BY <1>1, <1>2 DEF CallFails, TypeInv, TypeOK

(* A message of an append thread is handled.                               *)
LEMMA DeliverAppendTyped ==
  ASSUME TypeInv, NEW c \in Command, NEW j \in Node, DeliverAppend(c, j)
  PROVE  TypeInv'
<1> USE DEF indexVars
<1>1. TypeOK
  BY DEF TypeInv
<1> DEFINE m == thread[c][j].message
           t == [thread[c][j] EXCEPT
                   !.phase = IF Advances(j, m) THEN "handled" ELSE "replied",
                   !.message = NoMessage,
                   !.replyTerm = ReplyTerm(j, m),
                   !.success = Accepts(j, m)]
<1>2. thread[c][j] \in Thread /\ UnderWay(thread[c][j])
  <2>1. thread[c][j].phase # "none"
    BY DEF DeliverAppend
  <2> QED
    BY <2>1, PhaseUnderWay
<1>3. m \in Message /\ m.term \in Nat
  BY <1>2 DEF Thread, Message
<1>4. ReplyTerm(j, m) \in Nat /\ Accepts(j, m) \in BOOLEAN
  BY <1>1, <1>3 DEF ReplyTerm, Larger, Accepts, TypeOK
<1>5. t \in Thread
  BY <1>2, <1>4, EmptyRecordsTyped DEF Thread
<1>6. thread' = [thread EXCEPT ![c][j] = t] /\ UNCHANGED operator
  BY DEF DeliverAppend
<1>7. ReplyToAppend(j, m)
  BY DEF DeliverAppend
<1> HIDE DEF t
<1>8. thread' \in [Command -> [Node -> Thread]] /\ LeadersKnown'
  BY <1>2, <1>5, <1>6, OneThreadMoves
<1> HIDE DEF m
<1>9. /\ currentTerm' \in [Node -> Nat]
      /\ votedFor' \in [Node -> Node \cup {None}]
      /\ role' \in [Node -> {"FOLLOWER", "CANDIDATE", "LEADER"}]
      /\ votes' \in [Node -> SUBSET Node]
      /\ log' \in [Node -> Seq(Entry)]
      /\ commitIndex' \in [Node -> Nat] /\ lastApplied' \in [Node -> Nat]
      /\ handler' \in [Node -> Nat \cup {None}]
      /\ logs' = logs
  BY <1>1, <1>3, <1>7, ReplyToAppendType
<1>10. UNCHANGED <<indexVars, starting, operator, beat>>
  BY DEF DeliverAppend
<1> QED
  BY <1>1, <1>8, <1>9, <1>10 DEF TypeInv, TypeOK

LEMMA MoveIndexesType ==
  ASSUME TypeOK, NEW i \in Node, NEW j \in Node, MoveIndexes(i, j)
  PROVE  /\ nextIndex' \in [Node -> [Node -> Int]]
         /\ matchIndex' \in [Node -> [Node -> Int]]
<1>1. nextIndex \in [Node -> [Node -> Int]] /\ nextIndex[i][j] \in Int
  BY DEF TypeOK
<1>2. nextIndex' = [nextIndex EXCEPT ![i][j] = nextIndex[i][j] + 1]
  BY <1>1 DEF MoveIndexes
<1>3. nextIndex[i][j] + 1 \in Int
  BY <1>1
<1>4. nextIndex' \in [Node -> [Node -> Int]]
  BY <1>1, <1>2, <1>3
<1>5. matchIndex' = [matchIndex EXCEPT ![i][j] = nextIndex[i][j]]
  BY DEF MoveIndexes
<1>6. matchIndex' \in [Node -> [Node -> Int]]
  BY <1>1, <1>5 DEF TypeOK
<1> QED
  BY <1>4, <1>6

LEMMA ReceiveSuccessTyped ==
  ASSUME TypeInv, NEW c \in Command, NEW j \in Node, ReceiveSuccess(c, j)
  PROVE  TypeInv'
<1> USE DEF electionVars, commitVars, indexVars, lockVars
<1>1. TypeOK
  BY DEF TypeInv
<1> DEFINE i == operator[c].leader
           t == [thread[c][j] EXCEPT !.phase = "applying",
                                     !.applied = AppliesFrom(i)]
<1>2. /\ thread[c][j] \in Thread /\ UnderWay(thread[c][j]) /\ i \in Node
      /\ operator[c] \in Operator
  <2>1. thread[c][j].phase # "none"
    BY DEF ReceiveSuccess
  <2> QED
    BY <2>1, PhaseUnderWay
<1>3. t \in Thread
  <2>1. AppliesFrom(i) \in Nat
    BY <1>1, <1>2 DEF AppliesFrom, TypeOK
  <2> QED
    BY <1>2, <2>1 DEF Thread
<1>4. /\ operator' \in [Command -> Operator]
      /\ \A d \in Command : operator'[d].leader = operator[d].leader
  <2> DEFINE o == [operator[c] EXCEPT !.count =
                     IF operator[c].committed THEN operator[c].count
                     ELSE operator[c].count + 1]
  <2>1. o \in Operator /\ o.leader = i
    BY <1>2 DEF Operator
  <2>2. operator' = [operator EXCEPT ![c] = o]
    BY <1>1 DEF ReceiveSuccess, TypeOK
  <2> HIDE DEF o
  <2> QED
    BY <1>1, <2>1, <2>2 DEF TypeOK
<1>5. CASE UNCHANGED indexVars /\ thread' = [thread EXCEPT ![c][j] = t]
  <2>1. thread' \in [Command -> [Node -> Thread]] /\ LeadersKnown'
    BY <1>2, <1>3, <1>4, <1>5, OneThreadMoves
  <2> QED
    BY <1>1, <1>4, <1>5, <2>1 DEF ReceiveSuccess, TypeInv, TypeOK
<1>6. CASE MoveIndexes(i, j) /\ thread' = [thread EXCEPT ![c][j] = NoThread]
  <2>1. thread' \in [Command -> [Node -> Thread]] /\ LeadersKnown'
    BY <1>2, <1>4, <1>6, EmptyRecordsTyped, ThreadEnded, OneThreadMoves
  <2>2. /\ nextIndex' \in [Node -> [Node -> Int]]
        /\ matchIndex' \in [Node -> [Node -> Int]]
    BY <1>1, <1>2, <1>6, MoveIndexesType
  <2>3. UNCHANGED <<electionVars, log, commitVars, lockVars, beat>>
    BY DEF ReceiveSuccess
  <2> QED
    BY <1>1, <1>4, <2>1, <2>2, <2>3 DEF TypeInv, TypeOK
<1>7. \/ UNCHANGED indexVars /\ thread' = [thread EXCEPT ![c][j] = t]
      \/ MoveIndexes(i, j) /\ thread' = [thread EXCEPT ![c][j] = NoThread]
  BY DEF ReceiveSuccess, End
<1> QED
  BY <1>5, <1>6, <1>7

(* commitLog: an entry is applied, and the loop ends.                      *)
LEMMA ApplyNextTyped ==
  ASSUME TypeInv, NEW c \in Command, NEW j \in Node, ApplyNext(c, j)
  PROVE  TypeInv'
<1> USE DEF electionVars, indexVars, lockVars
<1>1. TypeOK
  BY DEF TypeInv
<1> DEFINE i == operator[c].leader
           n == thread[c][j].applied + 1
           t == [thread[c][j] EXCEPT !.applied = n]
<1>2. thread[c][j] \in Thread /\ UnderWay(thread[c][j]) /\ i \in Node
  <2>1. thread[c][j].phase # "none"
    BY DEF ApplyNext
  <2> QED
    BY <2>1, PhaseUnderWay
<1>3. n \in Nat /\ n > 0 /\ t \in Thread
  BY <1>2 DEF Thread
<1>4. UNCHANGED <<electionVars, log, commitIndex, lastApplied, indexVars,
                  lockVars, operator, beat>>
  BY DEF ApplyNext
<1>5. CASE n <= Len(log[i])
  <2>1. Apply(i, log[i], n - 1, n) /\ thread' = [thread EXCEPT ![c][j] = t]
    BY <1>5 DEF ApplyNext
  <2>2. logs' \in [Node -> [Command -> Command \cup {Idle}]]
    BY <1>1, <1>2, <1>3, <1>5, <2>1, ApplyType
  <2> HIDE DEF t
  <2>3. thread' \in [Command -> [Node -> Thread]] /\ LeadersKnown'
    BY <1>2, <1>3, <1>4, <2>1, OneThreadMoves
  <2> QED
    BY <1>1, <1>4, <2>2, <2>3 DEF TypeInv, TypeOK
<1>6. CASE ~(n <= Len(log[i]))
  <2>1. thread' = [thread EXCEPT ![c][j] = NoThread] /\ UNCHANGED logs
    BY <1>6 DEF ApplyNext, End
  <2>2. thread' \in [Command -> [Node -> Thread]] /\ LeadersKnown'
    BY <1>4, <2>1, EmptyRecordsTyped, ThreadEnded, OneThreadMoves
  <2> QED
    BY <1>1, <1>4, <2>1, <2>2 DEF TypeInv, TypeOK
<1> QED
  BY <1>5, <1>6

LEMMA FinishCommitTyped ==
  ASSUME TypeInv, NEW c \in Command, NEW j \in Node, FinishCommit(c, j)
  PROVE  TypeInv'
<1> USE DEF electionVars, lockVars
<1>1. TypeOK
  BY DEF TypeInv
<1> DEFINE i == operator[c].leader
<1>2. operator[c] \in Operator /\ i \in Node /\ operator[c].index \in Nat
  <2>1. thread[c][j].phase # "none"
    BY DEF FinishCommit
  <2> QED
    BY <2>1, PhaseUnderWay DEF Operator
<1>3. /\ operator' \in [Command -> Operator]
      /\ \A d \in Command : operator'[d].leader = operator[d].leader
  <2> DEFINE o == [operator[c] EXCEPT !.committed = TRUE]
  <2>1. o \in Operator /\ o.leader = i
    BY <1>2 DEF Operator
  <2>2. operator' = [operator EXCEPT ![c] = o]
    BY <1>1 DEF FinishCommit, TypeOK
  <2> HIDE DEF o
  <2> QED
    BY <1>1, <2>1, <2>2 DEF TypeOK
<1>4. commitIndex' \in [Node -> Nat] /\ lastApplied' \in [Node -> Nat]
  BY <1>1, <1>2 DEF FinishCommit, TypeOK
<1>5. /\ nextIndex' \in [Node -> [Node -> Int]]
      /\ matchIndex' \in [Node -> [Node -> Int]]
  BY <1>1, <1>2, MoveIndexesType DEF FinishCommit
<1>6. thread' \in [Command -> [Node -> Thread]] /\ LeadersKnown'
  <2>1. thread' = [thread EXCEPT ![c][j] = NoThread]
    BY DEF FinishCommit, End
  <2> QED
    BY <1>3, <2>1, EmptyRecordsTyped, ThreadEnded, OneThreadMoves
<1> QED
  BY <1>1, <1>3, <1>4, <1>5, <1>6 DEF FinishCommit, TypeInv, TypeOK

LEMMA ReceiveRefusalTyped ==
  ASSUME TypeInv, NEW c \in Command, NEW j \in Node, ReceiveRefusal(c, j)
  PROVE  TypeInv'
<1> USE DEF commitVars, lockVars
<1>1. TypeOK
  BY DEF TypeInv
<1> DEFINE i == operator[c].leader
           t == [thread[c][j] EXCEPT !.phase = "again", !.replyTerm = 0]
<1>2. thread[c][j] \in Thread /\ UnderWay(thread[c][j]) /\ i \in Node
  <2>1. thread[c][j].phase # "none"
    BY DEF ReceiveRefusal
  <2> QED
    BY <2>1, PhaseUnderWay
<1>3. t \in Thread /\ thread[c][j].replyTerm \in Nat
  BY <1>2 DEF Thread
<1>4. /\ currentTerm' \in [Node -> Nat]
      /\ votedFor' \in [Node -> Node \cup {None}]
      /\ role' \in [Node -> {"FOLLOWER", "CANDIDATE", "LEADER"}]
      /\ votes' \in [Node -> SUBSET Node]
  <2>1. CASE RefreshTerm(i, thread[c][j].replyTerm)
    BY <1>1, <1>2, <1>3, <2>1, RefreshTermType
  <2>2. CASE UNCHANGED electionVars
    BY <1>1, <2>2 DEF electionVars, TypeOK
  <2> QED
    BY <2>1, <2>2 DEF ReceiveRefusal
<1>5. nextIndex' \in [Node -> [Node -> Int]]
  <2>1. /\ nextIndex \in [Node -> [Node -> Int]]
        /\ nextIndex' = [nextIndex EXCEPT ![i][j] = nextIndex[i][j] - 1]
    <3>1. nextIndex \in [Node -> [Node -> Int]]
      BY <1>1 DEF TypeOK
    <3>2. nextIndex' = [nextIndex EXCEPT ![i][j] = @ - 1]
      BY DEF ReceiveRefusal
    <3> QED
      BY <1>2, <3>1, <3>2
  <2>2. nextIndex[i][j] \in Int
    BY <1>2, <2>1
  <2>3. nextIndex[i][j] - 1 \in Int
    BY <2>2
  <2> QED
    BY <1>2, <2>1, <2>3
<1>6. thread' = [thread EXCEPT ![c][j] = t]
  BY DEF ReceiveRefusal
<1>7. UNCHANGED <<log, commitVars, matchIndex, lockVars, operator, beat>>
  BY DEF ReceiveRefusal
<1> HIDE DEF t
<1>8. thread' \in [Command -> [Node -> Thread]] /\ LeadersKnown'
  BY <1>2, <1>3, <1>6, <1>7, OneThreadMoves
<1> QED
  BY <1>1, <1>4, <1>5, <1>7, <1>8 DEF TypeInv, TypeOK

(* Heart beats.                                                            *)
LEMMA BeatTyped ==
  ASSUME TypeInv, NEW i \in Node,
         \/ BeatBegins(i) \/ BeatSends(i) \/ BeatDelivers(i) \/ BeatFails(i)
         \/ BeatRefused(i)
  PROVE  TypeInv'
<1> USE DEF indexVars, lockVars, sendVars
<1>1. TypeOK /\ LeadersKnown /\ beat[i] \in Beat /\ NextBeat(i) \in Beat
  BY NextBeatType DEF TypeInv, TypeOK
<1>2. BeatTo(i, 0) \in Node
  BY NumPeersAssumption DEF BeatTo, Node
<1>3. CASE BeatBegins(i)
  <2> DEFINE m == [NoMessage EXCEPT !.from = i, !.prev = Last(log[i]).index,
                                    !.prevTerm = Last(log[i]).term]
             b == [NoBeat EXCEPT !.phase = "begun", !.message = m]
  <2>1. log[i] \in Seq(Entry)
    BY <1>1 DEF TypeOK
  <2>2. Last(log[i]).index \in Nat /\ Last(log[i]).term \in Nat
    <3>1. CASE log[i] = <<>>
      BY <3>1 DEF Last
    <3>2. CASE log[i] # <<>>
      <4>1. Len(log[i]) \in Nat /\ Len(log[i]) > 0
        BY <2>1, <3>2, LenProperties, EmptySeq
      <4>2. log[i][Len(log[i])] \in Entry
        BY <2>1, <4>1, ElementOfSeq
      <4> QED
        BY <3>2, <4>1, <4>2 DEF Last, Entry
    <3> QED
      BY <3>1, <3>2
  <2>3. m \in Message
    BY <2>2, EmptyRecordsTyped DEF Message
  <2> HIDE DEF m
  <2>4. b \in Beat
    BY <2>3, EmptyRecordsTyped DEF Beat
  <2>5. beat' = [beat EXCEPT ![i] = b]
    BY <1>3 DEF BeatBegins, m
  <2> HIDE DEF b
  <2>6. beat' \in [Node -> Beat]
    BY <1>1, <2>4, <2>5 DEF TypeOK
  <2>7. UNCHANGED <<electionVars, log, commitVars, indexVars, lockVars,
                    sendVars>>
    BY <1>3 DEF BeatBegins
  <2> QED
    BY <1>1, <2>6, <2>7
       DEF electionVars, commitVars, TypeInv, TypeOK, LeadersKnown
<1>4. CASE BeatSends(i)
  <2> DEFINE m == [beat[i].message EXCEPT !.term = currentTerm[i],
                                          !.commit = commitIndex[i]]
             b == [beat[i] EXCEPT !.phase = "sent", !.to = BeatTo(i, 0),
                                  !.message = m]
  <2>1. beat[i].message \in Message
    BY <1>1 DEF Beat
  <2>2. m \in Message
    BY <1>1, <2>1 DEF Message, TypeOK
  <2>3. beat' = [beat EXCEPT ![i] = b]
    BY <1>4 DEF BeatSends
  <2> HIDE DEF m
  <2>4. b \in Beat
    BY <1>1, <1>2, <2>2 DEF Beat
  <2> HIDE DEF b
  <2>5. beat' \in [Node -> Beat]
    BY <1>1, <2>3, <2>4 DEF TypeOK
  <2>6. UNCHANGED <<electionVars, log, commitVars, indexVars, lockVars,
                    sendVars>>
    BY <1>4 DEF BeatSends
  <2> QED
    BY <1>1, <2>5, <2>6
       DEF electionVars, commitVars, TypeInv, TypeOK, LeadersKnown
<1>5. CASE BeatDelivers(i)
  <2> DEFINE j == beat[i].to
             m == beat[i].message
             handled == [beat[i] EXCEPT !.phase = "handled"]
             refused == [beat[i] EXCEPT !.phase = "refused",
                                        !.replyTerm = ReplyTerm(j, m)]
  <2>1. j \in Node /\ m \in Message /\ m.term \in Nat
    BY <1>1 DEF Beat, Message
  <2>2. ReplyTerm(j, m) \in Nat
    BY <1>1, <2>1 DEF ReplyTerm, Larger, TypeOK
  <2>3. handled \in Beat /\ refused \in Beat
    BY <1>1, <2>2 DEF Beat
  <2>4. ReplyToAppend(j, m)
    BY <1>5 DEF BeatDelivers
  <2>5. \E b \in {handled, refused, NextBeat(i)} : beat' = [beat EXCEPT ![i] = b]
    BY <1>5 DEF BeatDelivers
  <2> HIDE DEF handled, refused
  <2>6. beat' \in [Node -> Beat]
    BY <1>1, <2>3, <2>5 DEF TypeOK
  <2> HIDE DEF j, m
  <2>7. /\ currentTerm' \in [Node -> Nat]
        /\ votedFor' \in [Node -> Node \cup {None}]
        /\ role' \in [Node -> {"FOLLOWER", "CANDIDATE", "LEADER"}]
        /\ votes' \in [Node -> SUBSET Node]
        /\ log' \in [Node -> Seq(Entry)]
        /\ commitIndex' \in [Node -> Nat] /\ lastApplied' \in [Node -> Nat]
        /\ handler' \in [Node -> Nat \cup {None}]
        /\ logs' = logs
    BY <1>1, <2>1, <2>4, ReplyToAppendType
  <2>8. UNCHANGED <<indexVars, starting, sendVars>>
    BY <1>5 DEF BeatDelivers
  <2> QED
    BY <1>1, <2>6, <2>7, <2>8 DEF TypeInv, TypeOK, LeadersKnown
<1>6. CASE BeatFails(i)
  <2>1. beat' \in [Node -> Beat]
    BY <1>1, <1>6 DEF BeatFails, TypeOK
  <2>2. UNCHANGED <<electionVars, log, commitVars, indexVars, lockVars,
                    sendVars>>
    BY <1>6 DEF BeatFails
  <2> QED
    BY <1>1, <2>1, <2>2
       DEF electionVars, commitVars, TypeInv, TypeOK, LeadersKnown
<1>7. CASE BeatRefused(i)
  <2>1. beat' \in [Node -> Beat]
    BY <1>1, <1>7 DEF BeatRefused, TypeOK
  <2>2. RefreshTerm(i, beat[i].replyTerm) /\ beat[i].replyTerm \in Nat
    BY <1>1, <1>7 DEF BeatRefused, Beat
  <2>3. UNCHANGED <<log, commitVars, indexVars, lockVars, sendVars>>
    BY <1>7 DEF BeatRefused
  <2> QED
    BY <1>1, <2>1, <2>2, <2>3, RefreshTermType
       DEF commitVars, TypeInv, TypeOK, LeadersKnown
<1> QED
  BY <1>3, <1>4, <1>5, <1>6, <1>7

(* The loop of the handler.                                                *)
LEMMA HandlerTyped ==
  ASSUME TypeInv, NEW j \in Node, HandlerApplies(j) \/ HandlerReturns(j)
  PROVE  TypeInv'
<1> USE DEF electionVars, indexVars
<1>1. TypeOK /\ LeadersKnown
  BY DEF TypeInv
<1>2. handler[j] \in Nat
  BY <1>1 DEF HandlerApplies, HandlerReturns, TypeOK
<1> DEFINE n == handler[j] + 1
<1>3. CASE HandlerApplies(j) /\ n <= Len(log[j])
  <2>1. /\ Apply(j, log[j], n - 1, n)
        /\ handler' = [handler EXCEPT ![j] = n]
        /\ UNCHANGED <<thread, beat>>
    BY <1>3 DEF HandlerApplies
  <2>2. n \in Nat /\ n > 0
    BY <1>2
  <2>3. logs' \in [Node -> [Command -> Command \cup {Idle}]]
    BY <1>1, <1>3, <2>1, <2>2, ApplyType
  <2>4. handler' \in [Node -> Nat \cup {None}]
    BY <1>1, <2>1, <2>2 DEF TypeOK
  <2>5. UNCHANGED <<electionVars, log, commitIndex, lastApplied, indexVars,
                    starting, operator>>
    BY <1>3 DEF HandlerApplies
  <2> QED
    BY <1>1, <2>1, <2>3, <2>4, <2>5 DEF TypeInv, TypeOK, LeadersKnown
<1>4. CASE HandlerApplies(j) /\ ~(n <= Len(log[j]))
  <2>1. /\ handler' = [handler EXCEPT ![j] = None]
        /\ CallersGoOn(j, FALSE) /\ UNCHANGED logs
    BY <1>4 DEF HandlerApplies
  <2>2. UNCHANGED <<electionVars, log, commitIndex, lastApplied, indexVars,
                    starting, operator>>
    BY <1>4 DEF HandlerApplies
  <2>3. /\ thread' \in [Command -> [Node -> Thread]]
        /\ beat' \in [Node -> Beat] /\ LeadersKnown'
    BY <2>1, <2>2, CallersGoOnType
  <2> QED
    BY <1>1, <2>1, <2>2, <2>3 DEF TypeInv, TypeOK
<1>5. CASE HandlerReturns(j)
  <2>1. /\ handler' = [handler EXCEPT ![j] = None]
        /\ lastApplied' = [lastApplied EXCEPT ![j] = commitIndex[j]]
        /\ CallersGoOn(j, TRUE)
    BY <1>5 DEF HandlerReturns
  <2>2. UNCHANGED <<electionVars, log, commitIndex, logs, indexVars,
                    starting, operator>>
    BY <1>5 DEF HandlerReturns
  <2>3. /\ thread' \in [Command -> [Node -> Thread]]
        /\ beat' \in [Node -> Beat] /\ LeadersKnown'
    BY <2>1, <2>2, CallersGoOnType
  <2> QED
    BY <1>1, <2>1, <2>2, <2>3 DEF TypeInv, TypeOK
<1> QED
  BY <1>3, <1>4, <1>5

(* Every step keeps the types.                                             *)
LEMMA NextTyped == TypeInv /\ [Next]_vars => TypeInv'
<1> SUFFICES ASSUME TypeInv, [Next]_vars PROVE TypeInv'
  OBVIOUS
<1>1. ASSUME NEW i \in Node, BeatSends(i) \/ HandlerStep(i) PROVE TypeInv'
  BY <1>1, BeatTyped, HandlerTyped DEF HandlerStep
<1>2. ASSUME NEW c \in Command, NEW j \in Node, CommitStep(c, j)
      PROVE  TypeInv'
  BY <1>2, ApplyNextTyped, FinishCommitTyped DEF CommitStep
<1>3. ASSUME NEW i \in Node, NodeStep(i) PROVE TypeInv'
  BY <1>3, ElectionTyped, StartTyped, StartReturnsTyped, BeatTyped
     DEF NodeStep
<1>4. ASSUME NEW c \in Command, NEW j \in Node, ThreadStep(c, j)
      PROVE  TypeInv'
  BY <1>4, SendAppendTyped, ThreadEndsTyped, CallFailsTyped,
     DeliverAppendTyped, ReceiveSuccessTyped, ReceiveRefusalTyped
     DEF ThreadStep
<1>5. CASE UNCHANGED vars
  BY <1>5 DEF vars, TypeInv, TypeOK, LeadersKnown
<1> QED
  BY <1>1, <1>2, <1>3, <1>4, <1>5 DEF Next

(* Every field of every node, thread and message keeps its type, whatever  *)
(* is lost and whichever races are possible.                               *)
THEOREM ReplicationTyped == Spec => []TypeOK
<1>1. TypeInv => TypeOK
  BY DEF TypeInv
<1> QED
  BY <1>1, InitTyped, NextTyped, PTL DEF Spec

-----------------------------------------------------------------------------
(***************************************************************************)
(* Log matching.                                                           *)
(*                                                                         *)
(* The invariant speaks of the past: H is a set of moments, each of them   *)
(* what one node was at some time.  That such a set exists is what is      *)
(* inductive: every step adds to it what the nodes are then.               *)
(***************************************************************************)

(* What node q is now.                                                     *)
Now(q) == [node |-> q, term |-> currentTerm[q], vote |-> votedFor[q],
           role |-> role[q], log |-> log[q]]

Moment == [node : Node, term : Nat, vote : Node \cup {None},
           role : {"FOLLOWER", "CANDIDATE", "LEADER"}, log : Seq(Entry)]

LogsOf(H) == {h.log : h \in H}

(* Node q voted for node l in term t.                                      *)
Voted(H, q, t, l) == \E h \in H : h.node = q /\ h.term = t /\ h.vote = l

Elected(H, l, t) ==
  \E Q \in SUBSET Node : /\ IsMajority(Cardinality(Q))
                         /\ \A q \in Q : Voted(H, q, t, l)

(* Node l led term t.                                                      *)
Led(H, l, t) ==
  \E h \in H : h.node = l /\ h.term = t /\ h.role = "LEADER"

(* Node l led term t with log s.                                           *)
LedWith(H, l, t, s) ==
  \E h \in H : h.node = l /\ h.term = t /\ h.role = "LEADER" /\ h.log = s

(* A node votes for one node in a term.                                    *)
VotesOnce(H) ==
  \A g, h \in H : /\ g.node = h.node /\ g.term = h.term
                  /\ g.vote # None /\ h.vote # None
                  => g.vote = h.vote

(* Whatever a node was, it was in a term it has entered, and in the term   *)
(* it is in it keeps its vote.                                             *)
PastHolds(H) ==
  /\ H \subseteq Moment
  /\ \A q \in Node : Now(q) \in H
  /\ \A h \in H : /\ h.term <= currentTerm[h.node]
                  /\ h.term = currentTerm[h.node] /\ h.vote # None
                       => h.vote = votedFor[h.node]
  /\ VotesOnce(H)

(* The votes a candidate has counted are cast, a leader was elected.       *)
ElectionsHold(H) ==
  \A i \in Node :
    /\ role[i] = "CANDIDATE" =>
         i \in votes[i] /\ \A q \in votes[i] : Voted(H, q, currentTerm[i], i)
    /\ role[i] = "LEADER" => Elected(H, i, currentTerm[i])

(* Who led was elected, and leads until it leaves the term.                *)
LeadersHold(H) ==
  \A h \in H : h.role = "LEADER" =>
    /\ Elected(H, h.node, h.term)
    /\ h.term = currentTerm[h.node] => role[h.node] = "LEADER"

(* Log r starts with log s.                                                *)
Extends(r, s) == Len(s) <= Len(r) /\ \A n \in 1 .. Len(s) : r[n] = s[n]

(* Message m of term t sends what log s has behind position prev.          *)
Sends(m, s, t) ==
  /\ m.term = t /\ m.prev <= Len(s)
  /\ m.prev > 0 => m.prevTerm = s[m.prev].term
  /\ m.entries = SubSeq(s, m.prev + 1, Len(s))

(* An append thread copied a log its node had as the leader of its term,   *)
(* sends that log and nothing else, and while the node leads it has the    *)
(* log still.                                                              *)
ThreadHolds(H, c, j) ==
  LET t == thread[c][j]
      i == operator[c].leader
  IN UnderWay(t) =>
       /\ LedWith(H, i, t.term, t.copy)
       /\ Len(t.copy) = operator[c].index /\ Len(t.copy) > 0
       /\ t.copy[Len(t.copy)].term = t.term
       /\ role[i] = "LEADER" => t.term = currentTerm[i] /\ Extends(log[i], t.copy)
       /\ t.phase = "sent" => Sends(t.message, t.copy, t.term)

Beats == {"sent", "handled", "refused"}

(* A heart beat sends no entry, and knows the end of a log.                *)
BeatHolds(H, i) ==
  LET b == beat[i]
      m == b.message
  IN /\ b.phase = "begun" =>
          /\ role[i] = "LEADER" /\ m.entries = <<>> /\ m.prev = Len(log[i])
          /\ m.prev > 0 => m.prevTerm = log[i][m.prev].term
     /\ b.phase \in Beats =>
          /\ b.to # i
          /\ \E s \in LogsOf(H) : /\ LedWith(H, i, m.term, s)
                                  /\ Sends(m, s, m.term) /\ m.prev = Len(s)

(* An entry is of a term that had a leader.                                *)
OriginsHold(H) ==
  \A s \in LogsOf(H) : \A n \in 1 .. Len(s) :
    \E l \in Node : Led(H, l, s[n].term)

(* A leader has all entries of its term that ever were.                    *)
LeadersHaveAll(H) ==
  \A i \in Node, s \in LogsOf(H) : \A n \in 1 .. Len(s) :
    role[i] = "LEADER" /\ s[n].term = currentTerm[i]
      => n <= Len(log[i]) /\ log[i][n].term = currentTerm[i]

(* Where log s has an entry and log r has one of its term there or later,  *)
(* they agree up to it.                                                    *)
Coherent(s, r) ==
  \A n \in 1 .. Len(s), k \in 1 .. Len(r) :
    n <= k /\ s[n].term = r[k].term => \A m \in 1 .. n : s[m] = r[m]

LogsCohere(H) == \A s, r \in LogsOf(H) : Coherent(s, r)

LogInv(H) ==
  /\ TypeInv
  /\ PastHolds(H)
  /\ ElectionsHold(H)
  /\ LeadersHold(H)
  /\ \A c \in Command, j \in Node : ThreadHolds(H, c, j)
  /\ \A i \in Node : BeatHolds(H, i)
  /\ OriginsHold(H)
  /\ LeadersHaveAll(H)
  /\ LogsCohere(H)

-----------------------------------------------------------------------------
(***************************************************************************)
(* The past.                                                               *)
(***************************************************************************)

LEMMA NodesAreFinite ==
  /\ IsFiniteSet(Node) /\ Cardinality(Node) = NumPeers
  /\ \A Q \in SUBSET Node : IsFiniteSet(Q) /\ Cardinality(Q) \in Nat
<1>1. IsFiniteSet(Node) /\ Cardinality(Node) = NumPeers
  BY NumPeersAssumption, FS_Interval DEF Node
<1>2. ASSUME NEW Q \in SUBSET Node
      PROVE  IsFiniteSet(Q) /\ Cardinality(Q) \in Nat
  BY <1>1, FS_Subset, FS_CardinalityType
<1> QED
  BY <1>1, <1>2

(* Two majorities of the nodes share a node.                               *)
LEMMA MajoritiesMeet ==
  ASSUME NEW S \in SUBSET Node, NEW T \in SUBSET Node,
         IsMajority(Cardinality(S)), IsMajority(Cardinality(T))
  PROVE  \E v \in Node : v \in S /\ v \in T
<1>1. Cardinality(S) + Cardinality(T) > Cardinality(Node)
  BY NodesAreFinite, NumPeersAssumption DEF IsMajority
<1>2. S \cap T # {}
  BY <1>1, NodesAreFinite, FS_MajoritiesIntersect
<1> QED
  BY <1>2

(* A term has one leader.                                                  *)
LEMMA ElectedOnce ==
  ASSUME NEW H, VotesOnce(H), NEW t, NEW k \in Node, NEW l \in Node,
         Elected(H, k, t), Elected(H, l, t)
  PROVE  k = l
<1>1. PICK S \in SUBSET Node : /\ IsMajority(Cardinality(S))
                               /\ \A q \in S : Voted(H, q, t, k)
  BY DEF Elected
<1>2. PICK T \in SUBSET Node : /\ IsMajority(Cardinality(T))
                               /\ \A q \in T : Voted(H, q, t, l)
  BY DEF Elected
<1>3. PICK v \in Node : v \in S /\ v \in T
  BY <1>1, <1>2, MajoritiesMeet
<1>4. Voted(H, v, t, k) /\ Voted(H, v, t, l)
  BY <1>1, <1>2, <1>3
<1> QED
  BY <1>4, NodesAreNumbers DEF Voted, VotesOnce

(* What was stays, whatever is added.                                      *)
LEMMA PastStays ==
  ASSUME NEW H, NEW G, H \subseteq G
  PROVE  /\ \A q, t, l : Voted(H, q, t, l) => Voted(G, q, t, l)
         /\ \A l, t : Elected(H, l, t) => Elected(G, l, t)
         /\ \A l, t : Led(H, l, t) => Led(G, l, t)
         /\ \A l, t, s : LedWith(H, l, t, s) => LedWith(G, l, t, s)
         /\ LogsOf(H) \subseteq LogsOf(G)
<1>1. \A q, t, l : Voted(H, q, t, l) => Voted(G, q, t, l)
  BY DEF Voted
<1>2. ASSUME NEW l, NEW t, Elected(H, l, t) PROVE Elected(G, l, t)
  <2>1. PICK Q \in SUBSET Node : /\ IsMajority(Cardinality(Q))
                                 /\ \A q \in Q : Voted(H, q, t, l)
    BY <1>2 DEF Elected
  <2> QED
    BY <1>1, <2>1 DEF Elected
<1>3. LogsOf(H) \subseteq LogsOf(G)
  BY DEF LogsOf
<1>4. \A l, t : Led(H, l, t) => Led(G, l, t)
  BY DEF Led
<1>5. \A l, t, s : LedWith(H, l, t, s) => LedWith(G, l, t, s)
  BY DEF LedWith
<1> QED
  BY <1>1, <1>2, <1>3, <1>4, <1>5

LEMMA LedWithLog ==
  ASSUME NEW H, NEW l, NEW t, NEW s, LedWith(H, l, t, s)
  PROVE  Led(H, l, t) /\ s \in LogsOf(H)
BY DEF LedWith, Led, LogsOf

LEMMA NowTyped ==
  ASSUME TypeOK, NEW q \in Node
  PROVE  Now(q) \in Moment
BY DEF TypeOK, Now, Moment

(* Terms grow, and a vote stays for the term.                              *)
TermsGrow ==
  \A q \in Node :
    /\ currentTerm'[q] >= currentTerm[q]
    /\ currentTerm'[q] = currentTerm[q] /\ votedFor[q] # None
         => votedFor'[q] = votedFor[q]

LEMMA PastGrows ==
  ASSUME NEW H, PastHolds(H), TypeInv, TypeInv', TermsGrow,
         NEW G, G = H \cup {Now(q)' : q \in Node}
  PROVE  PastHolds(G)'
<1>1. TypeOK /\ TypeOK'
  BY DEF TypeInv
<1>2. \A q \in Node : Now(q)' \in Moment
  BY <1>1, NowTyped DEF TypeOK, Now, Moment
<1>3. G \subseteq Moment
  BY <1>2 DEF PastHolds
<1>4. ASSUME NEW h \in H
      PROVE  /\ h.node \in Node /\ h.term \in Nat
             /\ h.term <= currentTerm'[h.node]
             /\ h.term = currentTerm'[h.node] /\ h.vote # None
                  => h.vote = votedFor'[h.node]
  <2>1. h \in Moment
    BY DEF PastHolds
  <2>2. h.node \in Node /\ h.term \in Nat
    BY <2>1 DEF Moment
  <2>3. /\ h.term <= currentTerm[h.node]
        /\ h.term = currentTerm[h.node] /\ h.vote # None
             => h.vote = votedFor[h.node]
    BY DEF PastHolds
  <2>4. currentTerm[h.node] \in Nat /\ currentTerm'[h.node] \in Nat
    BY <1>1, <2>2 DEF TypeOK
  <2> QED
    BY <2>2, <2>3, <2>4 DEF TermsGrow
<1>5. ASSUME NEW q \in Node
      PROVE  /\ Now(q)'.node = q /\ Now(q)'.term = currentTerm'[q]
             /\ Now(q)'.vote = votedFor'[q]
  BY DEF Now
<1>6. \A h \in G : /\ h.term <= currentTerm'[h.node]
                   /\ h.term = currentTerm'[h.node] /\ h.vote # None
                        => h.vote = votedFor'[h.node]
  BY <1>1, <1>4, <1>5 DEF TypeOK
<1>7. VotesOnce(G)
  <2>1. VotesOnce(H)
    BY DEF PastHolds
  <2> SUFFICES ASSUME NEW g \in G, NEW h \in G,
                      g.node = h.node, g.term = h.term,
                      g.vote # None, h.vote # None
               PROVE  g.vote = h.vote
    BY DEF VotesOnce
  <2>2. CASE g \in H /\ h \in H
    BY <2>1, <2>2 DEF VotesOnce
  <2>3. CASE g \notin H
    <3>1. g.term = currentTerm'[g.node] /\ g.vote = votedFor'[g.node]
      BY <1>5, <2>3
    <3> QED
      BY <1>6, <3>1
  <2>4. CASE h \notin H
    <3>1. h.term = currentTerm'[h.node] /\ h.vote = votedFor'[h.node]
      BY <1>5, <2>4
    <3> QED
      BY <1>6, <3>1
  <2> QED
    BY <2>2, <2>3, <2>4
<1> QED
  BY <1>3, <1>6, <1>7 DEF PastHolds

-----------------------------------------------------------------------------
(***************************************************************************)
(* What a step does to terms, votes and roles.                             *)
(***************************************************************************)

(* refreshTerm finds a higher term.                                        *)
StepsDown(j) == \E t \in Nat : t > currentTerm[j] /\ RefreshTerm(j, t)

LEMMA RefreshKinds ==
  ASSUME NEW j \in Node, NEW t \in Nat, RefreshTerm(j, t)
  PROVE  StepsDown(j) \/ UNCHANGED electionVars
BY DEF RefreshTerm, StepsDown

LEMMA ElectionKinds ==
  ASSUME TypeInv, [Next]_vars
  PROVE  \/ UNCHANGED electionVars
         \/ \E j \in Node : StepsDown(j)
         \/ \E i \in Node : BecomeCandidate(i) \/ BecomeLeader(i)
         \/ \E i, j \in Node : RequestVote(i, j)
<1> DEFINE Kinds == \/ UNCHANGED electionVars
                    \/ \E j \in Node : StepsDown(j)
                    \/ \E i \in Node : BecomeCandidate(i) \/ BecomeLeader(i)
                    \/ \E i, j \in Node : RequestVote(i, j)
<1>1. TypeOK
  BY DEF TypeInv
<1>2. ASSUME NEW j \in Node, NEW m \in Message, ReplyToAppend(j, m)
      PROVE  Kinds
  <2>1. m.term \in Nat
    BY DEF Message
  <2> QED
    BY <1>2, <2>1, RefreshKinds DEF ReplyToAppend
<1>3. ASSUME NEW i \in Node, NodeStep(i) PROVE Kinds
  <2>1. beat[i] \in Beat
    BY <1>1 DEF TypeOK
  <2>2. CASE BecomeCandidate(i) \/ BecomeLeader(i)
    BY <2>2
  <2>3. CASE \E j \in Node : RequestVote(i, j)
    BY <2>3
  <2>4. CASE \E j \in Node : VoteRefused(i, j)
    <3>1. PICK j \in Node : VoteRefused(i, j)
      BY <2>4
    <3>2. RefreshTerm(i, currentTerm[j]) /\ currentTerm[j] \in Nat
      BY <1>1, <3>1 DEF VoteRefused, TypeOK
    <3> QED
      BY <3>2, RefreshKinds
  <2>5. CASE BeatDelivers(i)
    <3>1. beat[i].to \in Node /\ beat[i].message \in Message
      BY <2>1 DEF Beat
    <3>2. ReplyToAppend(beat[i].to, beat[i].message)
      BY <2>5 DEF BeatDelivers
    <3> QED
      BY <1>2, <3>1, <3>2
  <2>6. CASE BeatRefused(i)
    <3>1. RefreshTerm(i, beat[i].replyTerm) /\ beat[i].replyTerm \in Nat
      BY <2>1, <2>6 DEF BeatRefused, Beat
    <3> QED
      BY <3>1, RefreshKinds
  <2>7. CASE StartReturns(i)
    BY <2>7 DEF StartReturns
  <2>8. CASE BeatBegins(i) \/ BeatFails(i)
    BY <2>8 DEF BeatBegins, BeatFails
  <2>9. CASE \E c \in Command : Start(i, c)
    BY <2>9 DEF Start
  <2> QED
    BY <1>3, <2>2, <2>3, <2>4, <2>5, <2>6, <2>7, <2>8, <2>9 DEF NodeStep
<1>4. ASSUME NEW c \in Command, NEW j \in Node, ThreadStep(c, j) PROVE Kinds
  <2>1. thread[c][j] \in Thread
    BY <1>1 DEF TypeOK
  <2>2. CASE DeliverAppend(c, j)
    <3>1. thread[c][j].message \in Message
      BY <2>1 DEF Thread
    <3>2. ReplyToAppend(j, thread[c][j].message)
      BY <2>2 DEF DeliverAppend
    <3> QED
      BY <1>2, <3>1, <3>2
  <2>3. CASE ReceiveRefusal(c, j)
    <3>1. operator[c].leader \in Node /\ thread[c][j].replyTerm \in Nat
      <4>1. thread[c][j].phase # "none"
        BY <2>3 DEF ReceiveRefusal
      <4> QED
        BY <2>1, <4>1, PhaseUnderWay DEF Thread
    <3>2. \/ RefreshTerm(operator[c].leader, thread[c][j].replyTerm)
          \/ UNCHANGED electionVars
      BY <2>3 DEF ReceiveRefusal
    <3> QED
      BY <3>1, <3>2, RefreshKinds
  <2>4. CASE SendAppend(c, j) \/ ThreadEnds(c, j)
    BY <2>4 DEF SendAppend, ThreadEnds
  <2>5. CASE CallFails(c, j) \/ ReceiveSuccess(c, j)
    BY <2>5 DEF CallFails, ReceiveSuccess
  <2> QED
    BY <1>4, <2>2, <2>3, <2>4, <2>5 DEF ThreadStep
<1>5. ASSUME NEW i \in Node, BeatSends(i) \/ HandlerStep(i) PROVE Kinds
  <2>1. CASE BeatSends(i)
    BY <2>1 DEF BeatSends
  <2>2. CASE HandlerApplies(i)
    BY <2>2 DEF HandlerApplies
  <2>3. CASE HandlerReturns(i)
    BY <2>3 DEF HandlerReturns
  <2> QED
    BY <1>5, <2>1, <2>2, <2>3 DEF HandlerStep
<1>6. ASSUME NEW c \in Command, NEW j \in Node, CommitStep(c, j) PROVE Kinds
  BY <1>6 DEF CommitStep, ApplyNext, FinishCommit
<1>7. CASE UNCHANGED vars
  BY <1>7 DEF vars, electionVars
<1>8. CASE Next
  BY <1>3, <1>4, <1>5, <1>6, <1>8 DEF Next
<1> QED
  BY <1>7, <1>8

LEMMA TermsOnlyGrow ==
  ASSUME TypeInv, [Next]_vars
  PROVE  TermsGrow
<1>1. /\ currentTerm \in [Node -> Nat]
      /\ votedFor \in [Node -> Node \cup {None}]
  BY DEF TypeInv, TypeOK
<1>2. CASE UNCHANGED electionVars
  BY <1>1, <1>2 DEF electionVars, TermsGrow
<1>3. ASSUME NEW j \in Node, StepsDown(j) PROVE TermsGrow
  BY <1>1, <1>3 DEF StepsDown, RefreshTerm, TermsGrow
<1>4. ASSUME NEW i \in Node, BecomeCandidate(i) PROVE TermsGrow
  BY <1>1, <1>4 DEF BecomeCandidate, TermsGrow
<1>5. ASSUME NEW i \in Node, BecomeLeader(i) PROVE TermsGrow
  BY <1>1, <1>5 DEF BecomeLeader, TermsGrow
<1>6. ASSUME NEW i \in Node, NEW j \in Node, RequestVote(i, j)
      PROVE  TermsGrow
  <2>1. /\ currentTerm[i] \in Nat /\ currentTerm[j] \in Nat
        /\ currentTerm[i] >= currentTerm[j]
        /\ currentTerm' = [currentTerm EXCEPT ![j] = currentTerm[i]]
    BY <1>1, <1>6 DEF RequestVote
  <2> DEFINE asked == IF currentTerm[i] > currentTerm[j] THEN None
                      ELSE votedFor[j]
             granted == /\ asked \in {None, i}
                        /\ AtLeastAsUpToDate(Last(log[j]), Last(log[i]))
  <2>2. votedFor' = [votedFor EXCEPT ![j] = IF granted THEN i ELSE asked]
    BY <1>6 DEF RequestVote
  <2>3. granted => asked \in {None, i}
    OBVIOUS
  <2> HIDE DEF granted
  <2>4. CASE currentTerm[i] = currentTerm[j] /\ votedFor[j] # None
    <3>1. asked = votedFor[j]
      BY <2>1, <2>4
    <3>2. (IF granted THEN i ELSE asked) = votedFor[j]
      BY <2>3, <2>4, <3>1
    <3>3. votedFor' = [votedFor EXCEPT ![j] = votedFor[j]]
      BY <2>2, <3>2
    <3> QED
      BY <1>1, <2>1, <3>3 DEF TermsGrow
  <2>5. CASE ~(currentTerm[i] = currentTerm[j] /\ votedFor[j] # None)
    <3>1. PICK v : votedFor' = [votedFor EXCEPT ![j] = v]
      BY <2>2
    <3> QED
      BY <1>1, <2>1, <2>5, <3>1 DEF TermsGrow
  <2> QED
    BY <2>4, <2>5
<1> QED
  BY <1>2, <1>3, <1>4, <1>5, <1>6, ElectionKinds

(* What one vote call does, field by field.                                *)
LEMMA RequestVoteDoes ==
  ASSUME TypeOK, NEW i \in Node, NEW j \in Node, i # j, RequestVote(i, j)
  PROVE  /\ \A q \in Node \ {j} : /\ currentTerm'[q] = currentTerm[q]
                                  /\ votedFor'[q] = votedFor[q]
                                  /\ role'[q] = role[q]
         /\ \A q \in Node \ {i, j} : votes'[q] = votes[q]
         /\ currentTerm'[j] = currentTerm[i]
         /\ \/ votes'[i] = votes[i]
            \/ /\ votes'[i] = votes[i] \cup {j} /\ votedFor'[j] = i
               /\ AtLeastAsUpToDate(Last(log[j]), Last(log[i]))
         /\ \/ currentTerm[i] > currentTerm[j] /\ role'[j] = "FOLLOWER"
            \/ /\ currentTerm[i] = currentTerm[j]
               /\ role'[j] = role[j] /\ votes'[j] = votes[j]
<1> DEFINE newer == currentTerm[i] > currentTerm[j]
           asked == IF newer THEN None ELSE votedFor[j]
           granted == /\ asked \in {None, i}
                      /\ AtLeastAsUpToDate(Last(log[j]), Last(log[i]))
<1>1. /\ currentTerm' = [currentTerm EXCEPT ![j] = currentTerm[i]]
      /\ role' = [role EXCEPT ![j] = IF newer THEN "FOLLOWER" ELSE @]
      /\ votedFor' = [votedFor EXCEPT ![j] = IF granted THEN i ELSE asked]
      /\ votes' = [votes EXCEPT ![i] = IF granted THEN @ \cup {j} ELSE @,
                                ![j] = IF newer THEN {} ELSE @]
      /\ currentTerm[i] >= currentTerm[j]
  BY DEF RequestVote
<1>2. currentTerm[i] \in Nat /\ currentTerm[j] \in Nat
  BY DEF TypeOK
<1>3. newer \/ (~newer /\ currentTerm[i] = currentTerm[j])
  BY <1>1, <1>2
<1>4. granted => AtLeastAsUpToDate(Last(log[j]), Last(log[i]))
  OBVIOUS
<1> HIDE DEF newer, granted
<1>5. /\ \A q \in Node \ {j} : /\ currentTerm'[q] = currentTerm[q]
                               /\ votedFor'[q] = votedFor[q]
                               /\ role'[q] = role[q]
      /\ currentTerm'[j] = currentTerm[i]
  BY <1>1 DEF TypeOK
<1>6. /\ \A q \in Node \ {i, j} : votes'[q] = votes[q]
      /\ votes'[i] = IF granted THEN votes[i] \cup {j} ELSE votes[i]
      /\ votes'[j] = IF newer THEN {} ELSE votes[j]
  BY <1>1 DEF TypeOK
<1>7. role'[j] = IF newer THEN "FOLLOWER" ELSE role[j]
  BY <1>1 DEF TypeOK
<1>8. granted => votedFor'[j] = i
  BY <1>1 DEF TypeOK
<1>9. newer => currentTerm[i] > currentTerm[j]
  BY DEF newer
<1> QED
  BY <1>3, <1>4, <1>5, <1>6, <1>7, <1>8, <1>9

(* What the nodes are now is in the past from now on.                      *)
LEMMA NowIsPast ==
  ASSUME NEW G, NEW q \in Node, Now(q)' \in G
  PROVE  /\ Voted(G, q, currentTerm'[q], votedFor'[q])
         /\ role'[q] = "LEADER" => /\ Led(G, q, currentTerm'[q])
                                   /\ LedWith(G, q, currentTerm'[q], log'[q])
         /\ log'[q] \in LogsOf(G)
<1>1. /\ Now(q)'.node = q /\ Now(q)'.term = currentTerm'[q]
      /\ Now(q)'.vote = votedFor'[q] /\ Now(q)'.log = log'[q]
      /\ Now(q)'.role = role'[q]
  BY DEF Now
<1>2. Now(q)' \in G
  OBVIOUS
<1> HIDE DEF Now
<1>3. Voted(G, q, currentTerm'[q], votedFor'[q])
  BY <1>1, <1>2 DEF Voted
<1>4. role'[q] = "LEADER" => Led(G, q, currentTerm'[q])
  BY <1>1, <1>2 DEF Led
<1>5. log'[q] \in LogsOf(G)
  BY <1>1, <1>2 DEF LogsOf
<1>6. role'[q] = "LEADER" => LedWith(G, q, currentTerm'[q], log'[q])
  BY <1>1, <1>2 DEF LedWith
<1> QED
  BY <1>3, <1>4, <1>5, <1>6

LEMMA ElectionsGoOn ==
  ASSUME TypeInv, [Next]_vars, NEW H, ElectionsHold(H),
         NEW G, G = H \cup {Now(q)' : q \in Node}
  PROVE  ElectionsHold(G)'
<1>1. TypeOK
  BY DEF TypeInv
<1>2. /\ \A q, t, l : Voted(H, q, t, l) => Voted(G, q, t, l)
      /\ \A l, t : Elected(H, l, t) => Elected(G, l, t)
  BY PastStays
<1>3. ASSUME NEW q \in Node
      PROVE  Voted(G, q, currentTerm'[q], votedFor'[q])
  <2>1. Now(q)' \in G
    OBVIOUS
  <2> QED
    BY <2>1, NowIsPast
<1> SUFFICES
      ASSUME NEW k \in Node
      PROVE  /\ role'[k] = "CANDIDATE" =>
                  k \in votes'[k]
                  /\ \A q \in votes'[k] : Voted(G, q, currentTerm'[k], k)
             /\ role'[k] = "LEADER" => Elected(G, k, currentTerm'[k])
  BY DEF ElectionsHold, Voted, Elected, IsMajority, Node
<1>4. /\ role[k] = "CANDIDATE" =>
           k \in votes[k] /\ \A q \in votes[k] : Voted(G, q, currentTerm[k], k)
      /\ role[k] = "LEADER" => Elected(G, k, currentTerm[k])
  BY <1>2 DEF ElectionsHold
<1>5. CASE /\ currentTerm'[k] = currentTerm[k] /\ role'[k] = role[k]
           /\ votes'[k] = votes[k]
  BY <1>4, <1>5
<1>6. CASE UNCHANGED electionVars
  BY <1>5, <1>6 DEF electionVars
<1>7. ASSUME NEW j \in Node, StepsDown(j)
      PROVE  \/ role'[k] = "FOLLOWER"
             \/ /\ currentTerm'[k] = currentTerm[k] /\ role'[k] = role[k]
                /\ votes'[k] = votes[k]
  BY <1>1, <1>7 DEF StepsDown, RefreshTerm, TypeOK
<1>8. ASSUME NEW i \in Node, BecomeCandidate(i), k # i
      PROVE  /\ currentTerm'[k] = currentTerm[k] /\ role'[k] = role[k]
             /\ votes'[k] = votes[k]
  BY <1>1, <1>8 DEF BecomeCandidate, TypeOK
<1>9. ASSUME BecomeCandidate(k)
      PROVE  votes'[k] = {k} /\ votedFor'[k] = k /\ role'[k] = "CANDIDATE"
  BY <1>1, <1>9 DEF BecomeCandidate, TypeOK
<1>10. ASSUME NEW i \in Node, BecomeLeader(i), k # i
       PROVE  /\ currentTerm'[k] = currentTerm[k] /\ role'[k] = role[k]
              /\ votes'[k] = votes[k]
  BY <1>1, <1>10 DEF BecomeLeader, TypeOK
<1>11. ASSUME BecomeLeader(k)
       PROVE  role'[k] = "LEADER" /\ Elected(G, k, currentTerm'[k])
  <2>1. /\ role[k] = "CANDIDATE" /\ IsMajority(Cardinality(votes[k]))
        /\ role'[k] = "LEADER" /\ currentTerm'[k] = currentTerm[k]
    BY <1>1, <1>11 DEF BecomeLeader, TypeOK
  <2>2. votes[k] \in SUBSET Node
    BY <1>1 DEF TypeOK
  <2> QED
    BY <1>4, <2>1, <2>2 DEF Elected
<1>12. ASSUME NEW i \in Node, NEW j \in Node, RequestVote(i, j)
       PROVE  /\ role'[k] = "CANDIDATE" =>
                   k \in votes'[k]
                   /\ \A q \in votes'[k] : Voted(G, q, currentTerm'[k], k)
              /\ role'[k] = "LEADER" => Elected(G, k, currentTerm'[k])
  <2>1. i # j
    BY <1>12 DEF RequestVote, ElectionsHold
  <2> DEFINE others == \A q \in Node \ {j} : /\ currentTerm'[q] = currentTerm[q]
                                             /\ role'[q] = role[q]
  <2>2. /\ others
        /\ \A q \in Node \ {i, j} : votes'[q] = votes[q]
        /\ currentTerm'[j] = currentTerm[i]
        /\ \/ votes'[i] = votes[i]
           \/ votes'[i] = votes[i] \cup {j} /\ votedFor'[j] = i
        /\ \/ role'[j] = "FOLLOWER"
           \/ /\ currentTerm[i] = currentTerm[j]
              /\ role'[j] = role[j] /\ votes'[j] = votes[j]
    BY <1>1, <1>12, <2>1, RequestVoteDoes
  <2>3. CASE k = i
    BY <1>3, <1>4, <2>1, <2>2, <2>3
  <2>4. CASE k = j
    BY <1>4, <2>2, <2>4
  <2>5. CASE k # i /\ k # j
    BY <1>5, <2>2, <2>5
  <2> QED
    BY <2>3, <2>4, <2>5
<1> QED
  <2>1. CASE \E j \in Node : StepsDown(j)
    BY <1>5, <1>7, <2>1
  <2>2. CASE \E i \in Node : BecomeCandidate(i)
    BY <1>3, <1>5, <1>8, <1>9, <2>2
  <2>3. CASE \E i \in Node : BecomeLeader(i)
    BY <1>5, <1>10, <1>11, <2>3
  <2>4. CASE \E i, j \in Node : RequestVote(i, j)
    BY <1>12, <2>4
  <2> QED
    BY <1>6, <2>1, <2>2, <2>3, <2>4, ElectionKinds

(* A leader is one already or has just been elected, and leads until it    *)
(* leaves its term.                                                        *)
LEMMA LeadersMove ==
  ASSUME TypeInv, [Next]_vars, NEW k \in Node
  PROVE  /\ role'[k] = "LEADER" =>
              /\ currentTerm'[k] = currentTerm[k]
              /\ role[k] = "LEADER" \/ (role[k] = "CANDIDATE" /\ BecomeLeader(k))
         /\ role[k] = "LEADER" =>
              role'[k] = "LEADER" \/ currentTerm'[k] > currentTerm[k]
<1>1. TypeOK
  BY DEF TypeInv
<1> DEFINE P == /\ role'[k] = "LEADER" =>
                     /\ currentTerm'[k] = currentTerm[k]
                     /\ \/ role[k] = "LEADER"
                        \/ role[k] = "CANDIDATE" /\ BecomeLeader(k)
                /\ role[k] = "LEADER" =>
                     role'[k] = "LEADER" \/ currentTerm'[k] > currentTerm[k]
<1>2. CASE UNCHANGED electionVars
  BY <1>2 DEF electionVars
<1>3. ASSUME NEW j \in Node, StepsDown(j) PROVE P
  BY <1>1, <1>3 DEF StepsDown, RefreshTerm, TypeOK
<1>4. ASSUME NEW i \in Node, BecomeCandidate(i) PROVE P
  BY <1>1, <1>4 DEF BecomeCandidate, TypeOK
<1>5. ASSUME NEW i \in Node, BecomeLeader(i) PROVE P
  <2>1. /\ role[i] = "CANDIDATE" /\ role' = [role EXCEPT ![i] = "LEADER"]
        /\ UNCHANGED currentTerm
    BY <1>5 DEF BecomeLeader
  <2>2. CASE k = i
    BY <1>5, <2>1, <2>2
  <2>3. CASE k # i
    <3>1. role'[k] = role[k]
      BY <1>1, <2>1, <2>3 DEF TypeOK
    <3> QED
      BY <2>1, <3>1
  <2> QED
    BY <2>2, <2>3
<1>6. ASSUME NEW i \in Node, NEW j \in Node, RequestVote(i, j) PROVE P
  <2>1. CASE i = j
    <3>1. currentTerm[i] \in Nat
      BY <1>1 DEF TypeOK
    <3>2. ~(currentTerm[i] > currentTerm[j])
      BY <2>1, <3>1
    <3>3. /\ currentTerm' = [currentTerm EXCEPT ![j] = currentTerm[i]]
          /\ role' = [role EXCEPT ![j] =
               IF currentTerm[i] > currentTerm[j] THEN "FOLLOWER" ELSE @]
      BY <1>6 DEF RequestVote
    <3> QED
      BY <1>1, <2>1, <3>2, <3>3 DEF TypeOK
  <2>2. CASE i # j
    <3>1. /\ \A q \in Node \ {j} : /\ currentTerm'[q] = currentTerm[q]
                                   /\ role'[q] = role[q]
          /\ currentTerm'[j] = currentTerm[i]
          /\ \/ currentTerm[i] > currentTerm[j] /\ role'[j] = "FOLLOWER"
             \/ currentTerm[i] = currentTerm[j] /\ role'[j] = role[j]
      BY <1>1, <1>6, <2>2, RequestVoteDoes
    <3> QED
      BY <3>1
  <2> QED
    BY <2>1, <2>2
<1> QED
  BY <1>2, <1>3, <1>4, <1>5, <1>6, ElectionKinds

LEMMA LeadersGoOn ==
  ASSUME TypeInv, [Next]_vars, NEW H, H \subseteq Moment, LeadersHold(H),
         \A h \in H : h.term <= currentTerm[h.node],
         NEW G, G = H \cup {Now(q)' : q \in Node}, ElectionsHold(G)'
  PROVE  LeadersHold(G)'
<1>1. TypeOK
  BY DEF TypeInv
<1>2. \A l, t : Elected(H, l, t) => Elected(G, l, t)
  BY PastStays
<1> SUFFICES ASSUME NEW h \in G, h.role = "LEADER"
             PROVE  /\ Elected(G, h.node, h.term)
                    /\ h.term = currentTerm'[h.node]
                         => role'[h.node] = "LEADER"
  BY DEF LeadersHold, Elected, Voted, IsMajority, Node
<1>3. CASE h \in H
  <2>1. h.node \in Node /\ h.term \in Nat /\ h.term <= currentTerm[h.node]
    BY <1>3 DEF Moment
  <2>2. Elected(G, h.node, h.term)
    BY <1>2, <1>3 DEF LeadersHold
  <2>3. ASSUME h.term = currentTerm'[h.node]
        PROVE  role'[h.node] = "LEADER"
    <3>1. currentTerm[h.node] \in Nat
      BY <1>1, <2>1 DEF TypeOK
    <3>2. currentTerm'[h.node] >= currentTerm[h.node]
      BY <2>1, TermsOnlyGrow DEF TermsGrow
    <3>3. h.term = currentTerm[h.node]
      BY <2>1, <2>3, <3>1, <3>2
    <3>4. role[h.node] = "LEADER"
      BY <1>3, <3>3 DEF LeadersHold
    <3> QED
      <4>1. \/ role'[h.node] = "LEADER"
            \/ currentTerm'[h.node] > currentTerm[h.node]
        BY <2>1, <3>4, LeadersMove
      <4> QED
        BY <2>3, <3>1, <3>3, <4>1
  <2> QED
    BY <2>2, <2>3
<1>4. CASE h \notin H
  <2>1. PICK q \in Node : h = Now(q)'
    BY <1>4
  <2>2. h.node = q /\ h.term = currentTerm'[q] /\ h.role = role'[q]
    BY <2>1 DEF Now
  <2>3. role'[q] = "LEADER" => Elected(G, q, currentTerm'[q])
    BY DEF ElectionsHold, Elected, Voted, IsMajority, Node
  <2> QED
    BY <2>2, <2>3
<1> QED
  BY <1>3, <1>4

-----------------------------------------------------------------------------
(***************************************************************************)
(* Logs and starts of logs.                                                *)
(***************************************************************************)

(* A log that is cut, or not, is the start of what it was.                 *)
LEMMA TruncateStarts ==
  ASSUME NEW s \in Seq(Entry), NEW n \in Nat
  PROVE  /\ Truncate(s, n) \in Seq(Entry)
         /\ Len(Truncate(s, n)) = Smaller(n, Len(s))
         /\ Extends(s, Truncate(s, n))
<1>1. Len(s) \in Nat
  BY LenProperties
<1>2. PICK k \in Nat : k = Smaller(n, Len(s)) /\ k <= Len(s)
  BY <1>1 DEF Smaller
<1>3. /\ SubSeq(s, 1, k) \in Seq(Entry) /\ Len(SubSeq(s, 1, k)) = k
      /\ \A m \in 1 .. k : SubSeq(s, 1, k)[m] = s[m]
  BY <1>1, <1>2
<1> QED
  BY <1>2, <1>3 DEF Truncate, Extends

LEMMA ExtendsItself ==
  ASSUME NEW s \in Seq(Entry)
  PROVE  Extends(s, s)
BY LenProperties DEF Extends

LEMMA ExtendsOn ==
  ASSUME NEW s \in Seq(Entry), NEW r \in Seq(Entry), NEW u \in Seq(Entry),
         Extends(s, r), Extends(r, u)
  PROVE  Extends(s, u)
BY LenProperties DEF Extends

(* Starts of coherent logs are coherent.                                   *)
LEMMA StartsCohere ==
  ASSUME NEW s \in Seq(Entry), NEW r \in Seq(Entry), Coherent(s, r),
         NEW u \in Seq(Entry), NEW w \in Seq(Entry),
         Extends(s, u), Extends(r, w)
  PROVE  Coherent(u, w)
<1>1. Len(s) \in Nat /\ Len(r) \in Nat /\ Len(u) \in Nat /\ Len(w) \in Nat
  BY LenProperties
<1> SUFFICES ASSUME NEW n \in 1 .. Len(u), NEW k \in 1 .. Len(w),
                    n <= k, u[n].term = w[k].term,
                    NEW m \in 1 .. n
             PROVE  u[m] = w[m]
  BY DEF Coherent
<1>2. /\ n \in 1 .. Len(s) /\ u[n] = s[n] /\ m \in 1 .. Len(u) /\ u[m] = s[m]
  BY <1>1 DEF Extends
<1>3. /\ k \in 1 .. Len(r) /\ w[k] = r[k] /\ m \in 1 .. Len(w) /\ w[m] = r[m]
  BY <1>1 DEF Extends
<1>4. s[m] = r[m]
  BY <1>2, <1>3 DEF Coherent
<1> QED
  BY <1>2, <1>3, <1>4

LEMMA CoherentUpTo ==
  ASSUME NEW s, NEW r, Coherent(s, r), NEW n \in 1 .. Len(s), n \in 1 .. Len(r),
         s[n].term = r[n].term
  PROVE  \A m \in 1 .. n : s[m] = r[m]
BY DEF Coherent

(* A message that is taken replaces the log by the one it was taken from,  *)
(* every other leaves a start of it.                                       *)
LEMMA LogReplaced ==
  ASSUME TypeOK, NEW j \in Node, NEW m \in Message, NEW s \in Seq(Entry),
         Sends(m, s, m.term), Coherent(log[j], s)
  PROVE  LogAfter(j, m) = s \/ Extends(log[j], LogAfter(j, m))
<1>1. /\ log[j] \in Seq(Entry) /\ Len(log[j]) \in Nat /\ Len(s) \in Nat
      /\ m.prev \in Nat /\ m.prev <= Len(s)
      /\ m.entries = SubSeq(s, m.prev + 1, Len(s))
  BY LenProperties DEF TypeOK, Message, Sends
<1>2. CASE LogAfter(j, m) = log[j]
  BY <1>1, <1>2, ExtendsItself
<1>3. CASE ~IsLegal(j, m) /\ LogAfter(j, m) # log[j]
  <2>1. LogAfter(j, m) = Truncate(log[j], m.prev) \o <<>>
    BY <1>3 DEF LogAfter
  <2>2. Truncate(log[j], m.prev) \in Seq(Entry)
    BY <1>1, TruncateStarts
  <2>3. LogAfter(j, m) = Truncate(log[j], m.prev)
    BY <2>1, <2>2, ConcatEmptySeq
  <2> QED
    BY <1>1, <2>3, TruncateStarts
<1>4. CASE IsLegal(j, m) /\ LogAfter(j, m) # log[j]
  <2>1. /\ Len(log[j]) >= m.prev
        /\ m.prev > 0 => log[j][m.prev].term = s[m.prev].term
    BY <1>4 DEF IsLegal, Sends
  <2>2. \A n \in 1 .. m.prev : log[j][n] = s[n]
    <3>1. CASE m.prev = 0
      BY <3>1
    <3>2. CASE m.prev > 0
      <4>1. m.prev \in 1 .. Len(log[j]) /\ m.prev \in 1 .. Len(s)
        BY <1>1, <2>1, <3>2
      <4>2. log[j][m.prev].term = s[m.prev].term
        BY <2>1, <3>2
      <4> QED
        BY <1>1, <4>1, <4>2, CoherentUpTo
    <3> QED
      BY <1>1, <3>1, <3>2
  <2>3. LogAfter(j, m) = Truncate(log[j], m.prev) \o m.entries
    BY <1>4 DEF LogAfter
  <2>4. /\ Truncate(log[j], m.prev) \in Seq(Entry)
        /\ Len(Truncate(log[j], m.prev)) = m.prev
        /\ \A n \in 1 .. m.prev : Truncate(log[j], m.prev)[n] = s[n]
    <3>1. Smaller(m.prev, Len(log[j])) = m.prev
      BY <1>1, <2>1 DEF Smaller
    <3>2. /\ Truncate(log[j], m.prev) \in Seq(Entry)
          /\ Len(Truncate(log[j], m.prev)) = m.prev
          /\ Extends(log[j], Truncate(log[j], m.prev))
      BY <1>1, <3>1, TruncateStarts
    <3> QED
      BY <2>2, <3>2 DEF Extends
  <2>5. /\ m.entries \in Seq(Entry) /\ Len(m.entries) = Len(s) - m.prev
        /\ \A n \in 1 .. Len(s) - m.prev : m.entries[n] = s[m.prev + n]
    BY <1>1, SubSeqProperties
  <2> DEFINE a == Truncate(log[j], m.prev)
             b == m.entries
  <2>6. a \o b = s
    <3> HIDE DEF a, b
    <3>1. /\ a \in Seq(Entry) /\ Len(a) = m.prev
          /\ \A n \in 1 .. m.prev : a[n] = s[n]
      BY <2>4 DEF a
    <3>2. /\ b \in Seq(Entry) /\ Len(b) = Len(s) - m.prev
          /\ \A n \in 1 .. Len(s) - m.prev : b[n] = s[m.prev + n]
      BY <2>5 DEF b
    <3>3. a \o b \in Seq(Entry) /\ Len(a \o b) = Len(s)
      BY <1>1, <3>1, <3>2, ConcatProperties
    <3>4. ASSUME NEW n \in 1 .. Len(s) PROVE (a \o b)[n] = s[n]
      <4>0. /\ n \in 1 .. (Len(a) + Len(b)) /\ n \in Int
            /\ (a \o b)[n] = IF n <= Len(a) THEN a[n] ELSE b[n - Len(a)]
        <5>1. n \in 1 .. (Len(a) + Len(b)) /\ n \in Int
          BY <1>1, <3>1, <3>2
        <5>2. \A k \in 1 .. (Len(a) + Len(b)) :
                (a \o b)[k] = IF k <= Len(a) THEN a[k] ELSE b[k - Len(a)]
          BY <3>1, <3>2, ConcatProperties
        <5> QED
          BY <5>1, <5>2
      <4>1. CASE n <= m.prev
        <5>1. (a \o b)[n] = a[n]
          BY <3>1, <4>0, <4>1
        <5>2. n \in 1 .. m.prev
          BY <1>1, <4>0, <4>1
        <5> QED
          BY <3>1, <5>1, <5>2
      <4>2. CASE n > m.prev
        <5>1. (a \o b)[n] = b[n - m.prev]
          BY <1>1, <3>1, <4>0, <4>2
        <5>2. PICK d \in 1 .. Len(s) - m.prev : d = n - m.prev
          BY <1>1, <4>2
        <5>3. m.prev + d = n
          BY <1>1, <4>0, <5>2
        <5>4. b[d] = s[m.prev + d]
          BY <3>2
        <5> QED
          BY <5>1, <5>2, <5>3, <5>4
      <4> QED
        BY <1>1, <4>0, <4>1, <4>2
    <3> QED
      BY <3>3, <3>4, SeqEqual
  <2> QED
    BY <2>3, <2>6
<1> QED
  BY <1>2, <1>3, <1>4

-----------------------------------------------------------------------------
(***************************************************************************)
(* What a step does to the logs.                                           *)
(***************************************************************************)

(* Message m to node j is another node's that led its term, and sends a    *)
(* log that was.                                                           *)
IsSent(H, j, m) ==
  \E s \in LogsOf(H), l \in Node \ {j} :
    Sends(m, s, m.term) /\ LedWith(H, l, m.term, s)

LEMMA LogKinds ==
  ASSUME NEW H, LogInv(H), [Next]_vars
  PROVE  \/ UNCHANGED log
         \/ \E i \in Node, c \in Command : Start(i, c)
         \/ \E j \in Node, m \in Message :
              ReplyToAppend(j, m) /\ IsSent(H, j, m)
<1> DEFINE Kinds == \/ UNCHANGED log
                    \/ \E i \in Node, c \in Command : Start(i, c)
                    \/ \E j \in Node, m \in Message :
                         ReplyToAppend(j, m) /\ IsSent(H, j, m)
<1>1. TypeInv /\ TypeOK
  BY DEF LogInv, TypeInv
<1>2. ASSUME NEW i \in Node, NodeStep(i) PROVE Kinds
  <2>1. CASE BeatDelivers(i)
    <3> DEFINE j == beat[i].to
               m == beat[i].message
    <3>1. j \in Node /\ m \in Message /\ beat[i].phase = "sent"
      BY <1>1, <2>1 DEF BeatDelivers, TypeOK, Beat
    <3>2. ReplyToAppend(j, m)
      BY <2>1 DEF BeatDelivers
    <3>3. /\ j # i
          /\ \E s \in LogsOf(H) : Sends(m, s, m.term) /\ LedWith(H, i, m.term, s)
      BY <3>1 DEF LogInv, BeatHolds, Beats
    <3>4. IsSent(H, j, m)
      BY <3>3 DEF IsSent
    <3> HIDE DEF j, m
    <3> QED
      BY <3>1, <3>2, <3>4
  <2>2. CASE \E c \in Command : Start(i, c)
    BY <2>2
  <2>3. CASE BecomeCandidate(i) \/ BecomeLeader(i)
    BY <2>3 DEF BecomeCandidate, BecomeLeader
  <2>4. CASE StartReturns(i) \/ BeatBegins(i) \/ BeatFails(i) \/ BeatRefused(i)
    BY <2>4 DEF StartReturns, BeatBegins, BeatFails, BeatRefused
  <2>5. CASE \E j \in Node : RequestVote(i, j) \/ VoteRefused(i, j)
    BY <2>5 DEF RequestVote, VoteRefused
  <2> QED
    BY <1>2, <2>1, <2>2, <2>3, <2>4, <2>5 DEF NodeStep
<1>3. ASSUME NEW c \in Command, NEW j \in Node, ThreadStep(c, j) PROVE Kinds
  <2>1. CASE DeliverAppend(c, j)
    <3> DEFINE m == thread[c][j].message
               l == operator[c].leader
    <3>1. thread[c][j].phase = "sent" /\ ReplyToAppend(j, m)
      BY <2>1 DEF DeliverAppend
    <3>2. UnderWay(thread[c][j]) /\ m \in Message /\ l \in Node \ {j}
      BY <1>1, <3>1, PhaseUnderWay DEF Thread
    <3>3. \E s \in LogsOf(H) : Sends(m, s, m.term) /\ LedWith(H, l, m.term, s)
      <4>1. /\ LedWith(H, l, thread[c][j].term, thread[c][j].copy)
            /\ thread[c][j].copy \in LogsOf(H)
            /\ Sends(m, thread[c][j].copy, thread[c][j].term)
        BY <3>1, <3>2, LedWithLog DEF LogInv, ThreadHolds
      <4>2. m.term = thread[c][j].term
        BY <4>1 DEF Sends
      <4> QED
        BY <4>1, <4>2
    <3>4. IsSent(H, j, m)
      BY <3>2, <3>3 DEF IsSent
    <3> HIDE DEF m, l
    <3> QED
      BY <3>1, <3>2, <3>4
  <2>2. CASE SendAppend(c, j) \/ ThreadEnds(c, j)
    BY <2>2 DEF SendAppend, ThreadEnds
  <2>3. CASE CallFails(c, j) \/ ReceiveSuccess(c, j) \/ ReceiveRefusal(c, j)
    BY <2>3 DEF CallFails, ReceiveSuccess, ReceiveRefusal
  <2> QED
    BY <1>3, <2>1, <2>2, <2>3 DEF ThreadStep
<1>4. ASSUME NEW i \in Node, BeatSends(i) \/ HandlerStep(i) PROVE Kinds
  BY <1>4 DEF BeatSends, HandlerStep, HandlerApplies, HandlerReturns
<1>5. ASSUME NEW c \in Command, NEW j \in Node, CommitStep(c, j) PROVE Kinds
  BY <1>5 DEF CommitStep, ApplyNext, FinishCommit
<1>6. CASE UNCHANGED vars
  BY <1>6 DEF vars
<1>7. CASE Next
  BY <1>2, <1>3, <1>4, <1>5, <1>7 DEF Next
<1> QED
  BY <1>6, <1>7

LEMMA LogsAreKnown ==
  ASSUME NEW H, PastHolds(H), NEW k \in Node
  PROVE  log[k] \in LogsOf(H)
<1>1. Now(k) \in H /\ Now(k).log = log[k]
  BY DEF PastHolds, Now
<1> HIDE DEF Now
<1> QED
  BY <1>1 DEF LogsOf

(* What a step that starts no command leaves of the logs was there: each   *)
(* is one that was, or a start of it.                                      *)
LEMMA LogsComeFrom ==
  ASSUME NEW H, LogInv(H), [Next]_vars, NEW q \in Node
  PROVE  \/ \E r \in LogsOf(H) : Extends(r, log'[q])
         \/ \E c \in Command : Start(q, c)
<1>1. TypeInv /\ TypeOK /\ LogsCohere(H)
  BY DEF LogInv, TypeInv
<1>2. \A k \in Node : log[k] \in LogsOf(H) /\ log[k] \in Seq(Entry)
  BY <1>1, LogsAreKnown DEF LogInv, TypeOK
<1>3. LogsOf(H) \subseteq Seq(Entry)
  BY DEF LogInv, PastHolds, LogsOf, Moment
<1>4. ASSUME log'[q] = log[q]
      PROVE  \E r \in LogsOf(H) : Extends(r, log'[q])
  <2>1. Extends(log[q], log'[q])
    BY <1>2, <1>4, ExtendsItself
  <2> QED
    BY <1>2, <2>1
<1>5. ASSUME NEW i \in Node, NEW c \in Command, Start(i, c), q # i
      PROVE  log'[q] = log[q]
  BY <1>1, <1>5 DEF Start, TypeOK
<1>6. ASSUME NEW j \in Node, NEW m \in Message,
             ReplyToAppend(j, m), IsSent(H, j, m)
      PROVE  \E r \in LogsOf(H) : Extends(r, log'[q])
  <2>1. log' = [log EXCEPT ![j] = LogAfter(j, m)]
    BY <1>6 DEF ReplyToAppend
  <2>2. CASE q # j
    <3>1. log'[q] = log[q]
      BY <1>1, <2>1, <2>2 DEF TypeOK
    <3> QED
      BY <1>4, <3>1
  <2>3. CASE q = j
    <3>1. log'[q] = LogAfter(j, m)
      BY <1>1, <2>1, <2>3 DEF TypeOK
    <3>2. PICK s \in LogsOf(H) : Sends(m, s, m.term)
      BY <1>6 DEF IsSent
    <3>3. s \in Seq(Entry) /\ Coherent(log[j], s)
      BY <1>1, <1>2, <1>3 DEF LogsCohere
    <3>4. LogAfter(j, m) = s \/ Extends(log[j], LogAfter(j, m))
      BY <1>1, <3>2, <3>3, LogReplaced
    <3> QED
      BY <1>2, <3>1, <3>3, <3>4, ExtendsItself
  <2> QED
    BY <2>2, <2>3
<1>7. CASE \E i \in Node, c \in Command : Start(i, c)
  BY <1>4, <1>5, <1>7
<1> QED
  BY <1>4, <1>6, <1>7, LogKinds

(* start appends an entry of the term its node leads.                      *)
LEMMA StartDoes ==
  ASSUME TypeOK, NEW i \in Node, NEW c \in Command, Start(i, c)
  PROVE  /\ role[i] = "LEADER" /\ UNCHANGED electionVars
         /\ log'[i] \in Seq(Entry) /\ Len(log'[i]) = Len(log[i]) + 1
         /\ Extends(log'[i], log[i])
         /\ log'[i][Len(log[i]) + 1].term = currentTerm[i]
         /\ \A k \in Node \ {i} : log'[k] = log[k]
<1> DEFINE e == [term |-> currentTerm[i], command |-> c]
<1>1. log[i] \in Seq(Entry) /\ Len(log[i]) \in Nat /\ currentTerm[i] \in Nat
  BY LenProperties DEF TypeOK
<1>2. e \in Entry /\ e.term = currentTerm[i]
  BY <1>1 DEF Entry
<1>3. log' = [log EXCEPT ![i] = Append(@, e)]
  BY DEF Start
<1>4. role[i] = "LEADER" /\ UNCHANGED electionVars
  BY DEF Start
<1> HIDE DEF e
<1>5. log'[i] = Append(log[i], e) /\ \A k \in Node \ {i} : log'[k] = log[k]
  BY <1>3 DEF TypeOK
<1>6. /\ Append(log[i], e) \in Seq(Entry)
      /\ Len(Append(log[i], e)) = Len(log[i]) + 1
      /\ \A n \in 1 .. Len(log[i]) : Append(log[i], e)[n] = log[i][n]
      /\ Append(log[i], e)[Len(log[i]) + 1] = e
  BY <1>1, <1>2, AppendProperties
<1> QED
  BY <1>1, <1>2, <1>4, <1>5, <1>6 DEF Extends

(* The same for every log that is in the past after the step.              *)
LEMMA PastLogs ==
  ASSUME NEW H, LogInv(H), [Next]_vars,
         NEW G, G = H \cup {Now(q)' : q \in Node}, NEW s \in LogsOf(G)
  PROVE  \/ \E r \in LogsOf(H) : Extends(r, s)
         \/ \E i \in Node, c \in Command : Start(i, c) /\ s = log'[i]
<1>1. PICK h \in G : s = h.log
  BY DEF LogsOf
<1>2. CASE h \in H
  <2>1. s \in LogsOf(H) /\ s \in Seq(Entry)
    BY <1>1, <1>2 DEF LogInv, PastHolds, Moment, LogsOf
  <2> QED
    BY <2>1, ExtendsItself
<1>3. ASSUME NEW q \in Node, h = Now(q)'
      PROVE  \/ \E r \in LogsOf(H) : Extends(r, s)
             \/ \E i \in Node, c \in Command : Start(i, c) /\ s = log'[i]
  <2>1. s = log'[q]
    BY <1>1, <1>3 DEF Now
  <2> QED
    BY <2>1, LogsComeFrom
<1> QED
  BY <1>2, <1>3

(* The leader of a term is sent nothing in it: its log is its own.         *)
LEMMA LeaderLogs ==
  ASSUME NEW H, LogInv(H), [Next]_vars, NEW q \in Node,
         role[q] = "LEADER", role'[q] = "LEADER"
  PROVE  log'[q] = log[q] \/ \E c \in Command : Start(q, c)
<1>1. TypeOK /\ VotesOnce(H)
  BY DEF LogInv, TypeInv, PastHolds
<1>2. ASSUME NEW j \in Node, NEW m \in Message,
             ReplyToAppend(j, m), IsSent(H, j, m)
      PROVE  log'[q] = log[q]
  <2>1. /\ log' = [log EXCEPT ![j] = LogAfter(j, m)]
        /\ RefreshTerm(j, m.term)
    BY <1>2 DEF ReplyToAppend
  <2>2. CASE q # j
    BY <1>1, <2>1, <2>2 DEF TypeOK
  <2>3. CASE q = j
    <3>1. log'[q] = LogAfter(q, m)
      BY <1>1, <2>1, <2>3 DEF TypeOK
    <3>2. m.term \in Nat /\ currentTerm[q] \in Nat
      BY <1>1 DEF Message, TypeOK
    <3>3. ~(m.term > currentTerm[q])
      BY <1>1, <2>1, <2>3 DEF RefreshTerm, TypeOK
    <3>4. m.term # currentTerm[q]
      <4>1. PICK l \in Node \ {q} : Led(H, l, m.term)
        BY <1>2, <2>3, LedWithLog DEF IsSent
      <4>2. Elected(H, l, m.term)
        BY <4>1 DEF LogInv, LeadersHold, Led
      <4>3. Elected(H, q, currentTerm[q])
        BY DEF LogInv, ElectionsHold
      <4> QED
        BY <1>1, <4>1, <4>2, <4>3, ElectedOnce
    <3>5. m.term < currentTerm[q]
      BY <3>2, <3>3, <3>4
    <3> QED
      BY <3>1, <3>5 DEF LogAfter
  <2> QED
    BY <2>2, <2>3
<1>3. ASSUME NEW i \in Node, NEW c \in Command, Start(i, c), q # i
      PROVE  log'[q] = log[q]
  BY <1>1, <1>3, StartDoes
<1> QED
  BY <1>2, <1>3, LogKinds

(* Entries keep their origins.                                             *)
LEMMA OriginsStay ==
  ASSUME NEW H, LogInv(H), [Next]_vars,
         NEW G, G = H \cup {Now(q)' : q \in Node}
  PROVE  OriginsHold(G)
<1>1. TypeOK /\ PastHolds(H) /\ OriginsHold(H)
  BY DEF LogInv, TypeInv
<1>2. \A l, t : Led(H, l, t) => Led(G, l, t)
  BY PastStays
<1> SUFFICES ASSUME NEW s \in LogsOf(G), NEW n \in 1 .. Len(s)
             PROVE  \E l \in Node : Led(G, l, s[n].term)
  BY DEF OriginsHold
<1>3. ASSUME NEW r \in LogsOf(H), Len(r) \in Nat, n \in 1 .. Len(r), r[n] = s[n]
      PROVE  \E l \in Node : Led(G, l, s[n].term)
  BY <1>1, <1>2, <1>3 DEF OriginsHold
<1>4. \A r \in LogsOf(H) : Len(r) \in Nat
  BY <1>1, LenProperties DEF PastHolds, LogsOf, Moment
<1>5. ASSUME NEW r \in LogsOf(H), Extends(r, s)
      PROVE  \E l \in Node : Led(G, l, s[n].term)
  <2>1. n \in 1 .. Len(r) /\ r[n] = s[n]
    BY <1>4, <1>5 DEF Extends
  <2> QED
    BY <1>3, <1>4, <2>1
<1>6. ASSUME NEW i \in Node, NEW c \in Command, Start(i, c), s = log'[i]
      PROVE  \E l \in Node : Led(G, l, s[n].term)
  <2>1. /\ role[i] = "LEADER" /\ UNCHANGED electionVars
        /\ Len(log'[i]) = Len(log[i]) + 1
        /\ Extends(log'[i], log[i])
        /\ log'[i][Len(log[i]) + 1].term = currentTerm[i]
    BY <1>1, <1>6, StartDoes
  <2>2. log[i] \in LogsOf(H) /\ Len(log[i]) \in Nat
    BY <1>1, <1>4, LogsAreKnown
  <2>3. CASE n = Len(log[i]) + 1
    <3>1. currentTerm'[i] = currentTerm[i] /\ role'[i] = "LEADER"
      BY <2>1 DEF electionVars
    <3>2. Now(i)' \in G
      OBVIOUS
    <3>3. Led(G, i, currentTerm'[i])
      BY <3>1, <3>2, NowIsPast
    <3> QED
      BY <1>6, <2>1, <2>3, <3>1, <3>3
  <2>4. CASE n # Len(log[i]) + 1
    <3>1. n \in 1 .. Len(log[i])
      BY <1>6, <2>1, <2>2, <2>4
    <3>2. log[i][n] = s[n]
      BY <1>6, <2>1, <3>1 DEF Extends
    <3> QED
      BY <1>3, <2>2, <3>1, <3>2
  <2> QED
    BY <2>3, <2>4
<1> QED
  BY <1>5, <1>6, PastLogs

(* No log has an entry of the term a candidate is about to lead.           *)
LEMMA NewTermIsNew ==
  ASSUME NEW H, LogInv(H), [Next]_vars,
         NEW G, G = H \cup {Now(q)' : q \in Node},
         PastHolds(G)', ElectionsHold(G)',
         NEW i \in Node, role[i] = "CANDIDATE", role'[i] = "LEADER",
         NEW r \in LogsOf(H), NEW n \in 1 .. Len(r)
  PROVE  r[n].term # currentTerm'[i]
<1> SUFFICES ASSUME r[n].term = currentTerm'[i] PROVE FALSE
  OBVIOUS
<1>1. PICK l \in Node : Led(H, l, currentTerm'[i])
  BY DEF LogInv, OriginsHold
<1>2. Elected(H, l, currentTerm'[i])
  BY <1>1 DEF LogInv, LeadersHold, Led
<1>3. Elected(G, l, currentTerm'[i])
  BY <1>2, PastStays
<1>4. Elected(G, i, currentTerm'[i])
  BY DEF ElectionsHold, Elected, Voted, IsMajority, Node
<1>5. VotesOnce(G)
  BY DEF PastHolds, VotesOnce
<1>6. l = i
  BY <1>3, <1>4, <1>5, ElectedOnce
<1>7. currentTerm'[i] = currentTerm[i]
  BY LeadersMove DEF LogInv
<1>8. role[i] = "LEADER"
  BY <1>1, <1>6, <1>7 DEF LogInv, LeadersHold, Led
<1> QED
  BY <1>8

(* A leader keeps all entries of its term, and a new one finds none.       *)
LEMMA LeadersKeepAll ==
  ASSUME NEW H, LogInv(H), [Next]_vars,
         NEW G, G = H \cup {Now(q)' : q \in Node},
         PastHolds(G)', ElectionsHold(G)'
  PROVE  LeadersHaveAll(G)'
<1>1. /\ TypeInv /\ TypeOK /\ PastHolds(H) /\ VotesOnce(H) /\ ElectionsHold(H)
      /\ LeadersHaveAll(H)
  BY DEF LogInv, TypeInv, PastHolds
<1> SUFFICES ASSUME NEW i \in Node, NEW s \in LogsOf(G), NEW n \in 1 .. Len(s),
                    role'[i] = "LEADER", s[n].term = currentTerm'[i]
             PROVE  n <= Len(log'[i]) /\ log'[i][n].term = currentTerm'[i]
  BY DEF LeadersHaveAll, LogsOf
<1>2. \A r \in LogsOf(H) : Len(r) \in Nat
  BY <1>1, LenProperties DEF PastHolds, LogsOf, Moment
<1>3. \A k \in Node : log[k] \in LogsOf(H) /\ Len(log[k]) \in Nat
  BY <1>1, <1>2, LogsAreKnown
<1>4. /\ currentTerm'[i] = currentTerm[i]
      /\ role[i] = "LEADER" \/ role[i] = "CANDIDATE"
  BY <1>1, LeadersMove
<1>5. Extends(log'[i], log[i]) \/ role[i] # "LEADER"
  <2>1. log[i] \in Seq(Entry)
    BY <1>1 DEF TypeOK
  <2>2. Extends(log[i], log[i])
    BY <2>1, ExtendsItself
  <2> QED
    BY <1>1, <2>2, LeaderLogs, StartDoes
<1>6. log'[i] \in Seq(Entry) /\ Len(log'[i]) \in Nat
  BY <1>1, NextTyped, LenProperties DEF TypeInv, TypeOK
<1>7. ASSUME NEW r \in LogsOf(H), n \in 1 .. Len(r), r[n] = s[n]
      PROVE  n <= Len(log'[i]) /\ log'[i][n].term = currentTerm'[i]
  <2>1. role[i] = "LEADER"
    BY <1>4, <1>7, NewTermIsNew
  <2>2. n <= Len(log[i]) /\ log[i][n].term = currentTerm[i]
    BY <1>1, <1>4, <1>7, <2>1 DEF LeadersHaveAll
  <2>3. n \in 1 .. Len(log[i])
    BY <1>2, <1>3, <1>7, <2>2
  <2> QED
    BY <1>3, <1>4, <1>5, <1>6, <2>1, <2>2, <2>3 DEF Extends
<1>8. ASSUME NEW r \in LogsOf(H), Extends(r, s)
      PROVE  n <= Len(log'[i]) /\ log'[i][n].term = currentTerm'[i]
  <2>1. n \in 1 .. Len(r) /\ r[n] = s[n]
    BY <1>2, <1>8 DEF Extends
  <2> QED
    BY <1>7, <2>1
<1>9. ASSUME NEW k \in Node, NEW c \in Command, Start(k, c), s = log'[k]
      PROVE  n <= Len(log'[i]) /\ log'[i][n].term = currentTerm'[i]
  <2>1. /\ role[k] = "LEADER" /\ UNCHANGED electionVars
        /\ Len(log'[k]) = Len(log[k]) + 1
        /\ Extends(log'[k], log[k])
        /\ log'[k][Len(log[k]) + 1].term = currentTerm[k]
    BY <1>1, <1>9, StartDoes
  <2>2. CASE k = i
    BY <1>6, <1>9, <2>2
  <2>3. CASE k # i
    <3>1. role[i] = "LEADER"
      BY <2>1 DEF electionVars
    <3>2. currentTerm[k] # currentTerm[i]
      BY <1>1, <2>1, <2>3, <3>1, ElectedOnce DEF ElectionsHold
    <3>3. n # Len(log[k]) + 1
      BY <1>4, <1>9, <2>1, <3>2
    <3>4. n \in 1 .. Len(log[k])
      BY <1>3, <1>9, <2>1, <3>3
    <3>5. log[k][n] = s[n]
      BY <1>9, <2>1, <3>4 DEF Extends
    <3> QED
      BY <1>3, <1>7, <3>4, <3>5
  <2> QED
    BY <2>2, <2>3
<1> QED
  BY <1>8, <1>9, PastLogs

(* A log with one more entry of the term its node leads is coherent with   *)
(* all logs that were.                                                     *)
LEMMA LongerCoheres ==
  ASSUME NEW H, LogInv(H), NEW i \in Node, role[i] = "LEADER",
         NEW s \in Seq(Entry), Len(s) = Len(log[i]) + 1, Extends(s, log[i]),
         s[Len(log[i]) + 1].term = currentTerm[i],
         NEW r \in LogsOf(H)
  PROVE  Coherent(s, r) /\ Coherent(r, s)
<1>1. /\ TypeOK /\ PastHolds(H) /\ LeadersHaveAll(H) /\ LogsCohere(H)
      /\ log[i] \in LogsOf(H)
  BY LogsAreKnown DEF LogInv, TypeInv
<1>2. r \in Seq(Entry) /\ Len(r) \in Nat /\ Len(log[i]) \in Nat
  BY <1>1, LenProperties DEF TypeOK, PastHolds, LogsOf, Moment
<1>3. Coherent(log[i], r) /\ Coherent(r, log[i])
  BY <1>1 DEF LogsCohere
<1>4. \A n \in 1 .. Len(log[i]) : n \in 1 .. Len(s) /\ s[n] = log[i][n]
  BY <1>2 DEF Extends
<1>5. ASSUME NEW n \in 1 .. Len(r), r[n].term = currentTerm[i]
      PROVE  n \in 1 .. Len(log[i]) /\ log[i][n].term = currentTerm[i]
  BY <1>1, <1>2, <1>5 DEF LeadersHaveAll
<1>6. Coherent(s, r)
  <2> SUFFICES ASSUME NEW n \in 1 .. Len(s), NEW k \in 1 .. Len(r),
                      n <= k, s[n].term = r[k].term, NEW m \in 1 .. n
               PROVE  s[m] = r[m]
    BY DEF Coherent
  <2>1. CASE n = Len(log[i]) + 1
    <3>1. r[k].term = currentTerm[i]
      BY <2>1
    <3>2. k \in 1 .. Len(log[i])
      BY <1>5, <3>1
    <3> QED
      BY <1>2, <2>1, <3>2
  <2>2. CASE n # Len(log[i]) + 1
    <3>1. n \in 1 .. Len(log[i]) /\ m \in 1 .. Len(log[i])
      BY <1>2, <2>2
    <3>2. log[i][m] = r[m]
      BY <1>3, <1>4, <3>1 DEF Coherent
    <3> QED
      BY <1>4, <3>1, <3>2
  <2> QED
    BY <2>1, <2>2
<1>7. Coherent(r, s)
  <2> SUFFICES ASSUME NEW n \in 1 .. Len(r), NEW k \in 1 .. Len(s),
                      n <= k, r[n].term = s[k].term, NEW m \in 1 .. n
               PROVE  r[m] = s[m]
    BY DEF Coherent
  <2>1. n \in 1 .. Len(log[i]) /\ r[m] = log[i][m]
    <3>1. CASE k = Len(log[i]) + 1
      <4>1. n \in 1 .. Len(log[i]) /\ log[i][n].term = r[n].term
        BY <1>5, <3>1
      <4> QED
        BY <1>3, <4>1, CoherentUpTo
    <3>2. CASE k # Len(log[i]) + 1
      <4>1. k \in 1 .. Len(log[i]) /\ n \in 1 .. Len(log[i])
        BY <1>2, <3>2
      <4>2. r[n].term = log[i][k].term
        BY <1>4, <4>1
      <4> QED
        BY <1>3, <4>1, <4>2 DEF Coherent
    <3> QED
      BY <3>1, <3>2
  <2>2. m \in 1 .. Len(log[i])
    BY <1>2, <2>1
  <2> QED
    BY <1>4, <2>1, <2>2
<1> QED
  BY <1>6, <1>7

LEMMA LogsGoOn ==
  ASSUME NEW H, LogInv(H), [Next]_vars,
         NEW G, G = H \cup {Now(q)' : q \in Node}, G \subseteq Moment
  PROVE  LogsCohere(G)
<1>1. TypeOK /\ PastHolds(H) /\ LogsCohere(H)
  BY DEF LogInv, TypeInv
<1>2. LogsOf(H) \subseteq Seq(Entry) /\ LogsOf(G) \subseteq Seq(Entry)
  BY <1>1 DEF PastHolds, LogsOf, Moment
<1>3. ASSUME NEW s \in LogsOf(G), NEW r \in LogsOf(G),
             NEW u \in LogsOf(H), NEW w \in LogsOf(H),
             Extends(u, s), Extends(w, r)
      PROVE  Coherent(s, r)
  BY <1>1, <1>2, <1>3, StartsCohere DEF LogsCohere
<1>4. ASSUME NEW i \in Node, NEW c \in Command, Start(i, c),
             NEW r \in LogsOf(G), NEW u \in LogsOf(H), Extends(u, r)
      PROVE  Coherent(log'[i], r) /\ Coherent(r, log'[i])
  <2>1. /\ role[i] = "LEADER" /\ log'[i] \in Seq(Entry)
        /\ Len(log'[i]) = Len(log[i]) + 1 /\ Extends(log'[i], log[i])
        /\ log'[i][Len(log[i]) + 1].term = currentTerm[i]
    BY <1>1, <1>4, StartDoes
  <2>2. Coherent(log'[i], u) /\ Coherent(u, log'[i])
    BY <2>1, LongerCoheres
  <2>3. Extends(log'[i], log'[i])
    BY <2>1, ExtendsItself
  <2> QED
    BY <1>2, <1>4, <2>1, <2>2, <2>3, StartsCohere
<1>5. ASSUME NEW s \in LogsOf(G) PROVE Coherent(s, s)
  BY DEF Coherent
<1>6. ASSUME NEW i \in Node, NEW c \in Command, Start(i, c),
             NEW k \in Node, NEW d \in Command, Start(k, d)
      PROVE  i = k
  <2>1. Len(log'[i]) = Len(log[i]) + 1 /\ Len(log[i]) \in Nat
    BY <1>1, <1>6, StartDoes, LenProperties DEF TypeOK
  <2>2. i # k => log'[i] = log[i]
    BY <1>1, <1>6, StartDoes
  <2> QED
    BY <2>1, <2>2
<1> SUFFICES ASSUME NEW s \in LogsOf(G), NEW r \in LogsOf(G)
             PROVE  Coherent(s, r)
  BY DEF LogsCohere
<1>7. /\ \/ \E u \in LogsOf(H) : Extends(u, s)
         \/ \E i \in Node, c \in Command : Start(i, c) /\ s = log'[i]
      /\ \/ \E u \in LogsOf(H) : Extends(u, r)
         \/ \E i \in Node, c \in Command : Start(i, c) /\ r = log'[i]
  BY PastLogs
<1>8. CASE /\ \E u \in LogsOf(H) : Extends(u, s)
           /\ \E u \in LogsOf(H) : Extends(u, r)
  BY <1>3, <1>8
<1>9. CASE /\ \E u \in LogsOf(H) : Extends(u, s)
           /\ \E i \in Node, c \in Command : Start(i, c) /\ r = log'[i]
  BY <1>4, <1>9
<1>10. CASE /\ \E i \in Node, c \in Command : Start(i, c) /\ s = log'[i]
            /\ \E u \in LogsOf(H) : Extends(u, r)
  BY <1>4, <1>10
<1>11. CASE /\ \E i \in Node, c \in Command : Start(i, c) /\ s = log'[i]
            /\ \E i \in Node, c \in Command : Start(i, c) /\ r = log'[i]
  BY <1>5, <1>6, <1>11
<1> QED
  BY <1>7, <1>8, <1>9, <1>10, <1>11

-----------------------------------------------------------------------------
(***************************************************************************)
(* What a step does to the append threads.                                 *)
(***************************************************************************)

OperatorsStay ==
  \A c \in Command : /\ operator'[c].leader = operator[c].leader
                     /\ operator'[c].index = operator[c].index

(* The thread had its term, copy and operator, and its message if it has   *)
(* one.                                                                    *)
SameThread(c, j) ==
  /\ UnderWay(thread[c][j])
  /\ thread'[c][j].term = thread[c][j].term
  /\ thread'[c][j].copy = thread[c][j].copy
  /\ operator'[c].leader = operator[c].leader
  /\ operator'[c].index = operator[c].index
  /\ thread'[c][j].phase = "sent" =>
       /\ thread[c][j].phase = "sent"
       /\ thread'[c][j].message = thread[c][j].message

LEMMA OneThreadGoesOn ==
  ASSUME TypeOK, OperatorsStay, NEW d \in Command, NEW k \in Node, NEW t,
         thread' = [thread EXCEPT ![d][k] = t],
         UnderWay(t) => /\ UnderWay(thread[d][k])
                        /\ t.term = thread[d][k].term
                        /\ t.copy = thread[d][k].copy
                        /\ t.phase = "sent" =>
                             /\ thread[d][k].phase = "sent"
                             /\ t.message = thread[d][k].message,
         NEW c \in Command, NEW j \in Node, UnderWay(thread'[c][j])
  PROVE  SameThread(c, j)
<1>1. CASE c = d /\ j = k
  <2>1. thread'[c][j] = t
    BY <1>1 DEF TypeOK
  <2> QED
    BY <1>1, <2>1 DEF SameThread, OperatorsStay
<1>2. CASE ~(c = d /\ j = k)
  <2>1. thread'[c][j] = thread[c][j]
    BY <1>2 DEF TypeOK
  <2> QED
    BY <2>1 DEF SameThread, OperatorsStay
<1> QED
  BY <1>1, <1>2

LEMMA ThreadsStay ==
  ASSUME OperatorsStay, UNCHANGED thread,
         NEW c \in Command, NEW j \in Node, UnderWay(thread'[c][j])
  PROVE  SameThread(c, j)
BY DEF SameThread, OperatorsStay

LEMMA NodesLeaveThreads ==
  ASSUME TypeInv, NEW i \in Node, NodeStep(i),
         NEW c \in Command, NEW j \in Node, UnderWay(thread'[c][j])
  PROVE  SameThread(c, j) \/ Start(i, c)
<1>1. TypeOK
  BY DEF TypeInv
<1>2. CASE StartReturns(i)
  <2> DEFINE d == starting[i]
             k == LastPeer(i)
             t == IF UnderWay(thread[d][k])
                  THEN [thread[d][k] EXCEPT !.stopped = TRUE]
                  ELSE thread[d][k]
  <2>1. d \in Command /\ k \in Node
    BY <1>1, <1>2, LastPeerIsNode DEF StartReturns, TypeOK
  <2>2. thread[d][k] \in Thread
    BY <1>1, <2>1 DEF TypeOK
  <2>3. /\ UnderWay(t) => UnderWay(thread[d][k])
        /\ t.term = thread[d][k].term /\ t.copy = thread[d][k].copy
        /\ t.phase = thread[d][k].phase /\ t.message = thread[d][k].message
    BY <2>2 DEF Thread
  <2>4. thread' = [thread EXCEPT ![d][k] = t]
    BY <1>1, <1>2, <2>1 DEF StartReturns, TypeOK
  <2>5. OperatorsStay
    BY <1>2 DEF StartReturns, OperatorsStay
  <2> HIDE DEF t, d, k
  <2> QED
    BY <1>1, <2>1, <2>3, <2>4, <2>5, OneThreadGoesOn
<1>3. ASSUME NEW d \in Command, Start(i, d), d # c
      PROVE  SameThread(c, j)
  <2>1. thread'[c] = thread[c] /\ operator'[c] = operator[c]
    BY <1>1, <1>3 DEF Start, TypeOK
  <2> QED
    BY <2>1 DEF SameThread
<1>4. ASSUME UNCHANGED <<operator, thread>> PROVE SameThread(c, j)
  BY <1>4, ThreadsStay DEF OperatorsStay
<1>5. CASE BecomeCandidate(i) \/ BecomeLeader(i)
  BY <1>4, <1>5 DEF BecomeCandidate, BecomeLeader, sendVars
<1>6. CASE BeatBegins(i) \/ BeatDelivers(i) \/ BeatFails(i) \/ BeatRefused(i)
  BY <1>4, <1>6
     DEF BeatBegins, BeatDelivers, BeatFails, BeatRefused, sendVars
<1>7. CASE \E k \in Node : RequestVote(i, k) \/ VoteRefused(i, k)
  BY <1>4, <1>7 DEF RequestVote, VoteRefused, sendVars
<1>8. CASE \E d \in Command : Start(i, d)
  BY <1>3, <1>8
<1> QED
  BY <1>2, <1>5, <1>6, <1>7, <1>8 DEF NodeStep

LEMMA ThreadsGoOn ==
  ASSUME TypeInv, NEW d \in Command, NEW k \in Node, ThreadStep(d, k),
         NEW c \in Command, NEW j \in Node, UnderWay(thread'[c][j])
  PROVE  SameThread(c, j) \/ (SendAppend(d, k) /\ c = d /\ j = k)
<1>1. TypeOK
  BY DEF TypeInv
<1>2. thread[d][k] \in Thread /\ operator[d] \in Operator
  BY <1>1 DEF TypeOK
<1>3. ASSUME UNCHANGED operator PROVE OperatorsStay
  BY <1>3 DEF OperatorsStay
<1>4. ASSUME OperatorsStay, thread' = End(d, k) PROVE SameThread(c, j)
  <2>1. thread' = [thread EXCEPT ![d][k] = NoThread]
    BY <1>4 DEF End
  <2> QED
    BY <1>1, <1>4, <2>1, ThreadEnded, OneThreadGoesOn
<1>5. CASE ThreadEnds(d, k) \/ CallFails(d, k)
  BY <1>3, <1>4, <1>5 DEF ThreadEnds, CallFails
<1>6. CASE DeliverAppend(d, k)
  <2> DEFINE m == thread[d][k].message
             t == [thread[d][k] EXCEPT
                     !.phase = IF Advances(k, m) THEN "handled" ELSE "replied",
                     !.message = NoMessage,
                     !.replyTerm = ReplyTerm(k, m),
                     !.success = Accepts(k, m)]
  <2>1. t.phase # "sent" /\ t.term = thread[d][k].term
        /\ t.copy = thread[d][k].copy
    BY <1>2 DEF Thread
  <2>2. UnderWay(thread[d][k])
    <3>1. thread[d][k].phase # "none"
      BY <1>6 DEF DeliverAppend
    <3> QED
      BY <3>1, PhaseUnderWay
  <2>3. thread' = [thread EXCEPT ![d][k] = t]
    BY <1>6 DEF DeliverAppend
  <2>4. OperatorsStay
    BY <1>3, <1>6 DEF DeliverAppend
  <2> HIDE DEF t
  <2> QED
    BY <1>1, <2>1, <2>2, <2>3, <2>4, OneThreadGoesOn
<1>7. CASE ReceiveSuccess(d, k)
  <2> DEFINE i == operator[d].leader
             t == [thread[d][k] EXCEPT !.phase = "applying",
                                       !.applied = AppliesFrom(i)]
  <2>1. OperatorsStay
    BY <1>1, <1>2, <1>7 DEF ReceiveSuccess, OperatorsStay, TypeOK, Operator
  <2>2. thread' = [thread EXCEPT ![d][k] = t] \/ thread' = End(d, k)
    BY <1>7 DEF ReceiveSuccess
  <2>3. t.phase # "sent" /\ t.term = thread[d][k].term
        /\ t.copy = thread[d][k].copy
    BY <1>2 DEF Thread
  <2>4. UnderWay(thread[d][k])
    <3>1. thread[d][k].phase # "none"
      BY <1>7 DEF ReceiveSuccess
    <3> QED
      BY <3>1, PhaseUnderWay
  <2> HIDE DEF t
  <2>5. CASE thread' = [thread EXCEPT ![d][k] = t]
    BY <1>1, <2>1, <2>3, <2>4, <2>5, OneThreadGoesOn
  <2> QED
    BY <1>4, <2>1, <2>2, <2>5
<1>8. CASE ReceiveRefusal(d, k)
  <2> DEFINE t == [thread[d][k] EXCEPT !.phase = "again", !.replyTerm = 0]
  <2>1. OperatorsStay
    BY <1>3, <1>8 DEF ReceiveRefusal
  <2>2. thread' = [thread EXCEPT ![d][k] = t]
    BY <1>8 DEF ReceiveRefusal
  <2>3. t.phase # "sent" /\ t.term = thread[d][k].term
        /\ t.copy = thread[d][k].copy
    BY <1>2 DEF Thread
  <2>4. UnderWay(thread[d][k])
    <3>1. thread[d][k].phase # "none"
      BY <1>8 DEF ReceiveRefusal
    <3> QED
      BY <3>1, PhaseUnderWay
  <2> HIDE DEF t
  <2> QED
    BY <1>1, <2>1, <2>2, <2>3, <2>4, OneThreadGoesOn
<1>9. CASE SendAppend(d, k)
  <2>1. OperatorsStay
    BY <1>3, <1>9 DEF SendAppend
  <2>2. PICK t : thread' = [thread EXCEPT ![d][k] = t]
    BY <1>9 DEF SendAppend
  <2>3. CASE ~(c = d /\ j = k)
    <3>1. thread'[c][j] = thread[c][j]
      BY <1>1, <2>2, <2>3 DEF TypeOK
    <3> QED
      BY <2>1, <3>1 DEF SameThread, OperatorsStay
  <2> QED
    BY <1>9, <2>3
<1> QED
  BY <1>5, <1>6, <1>7, <1>8, <1>9 DEF ThreadStep

LEMMA CommitLeavesThreads ==
  ASSUME TypeInv, NEW d \in Command, NEW k \in Node, CommitStep(d, k),
         NEW c \in Command, NEW j \in Node, UnderWay(thread'[c][j])
  PROVE  SameThread(c, j)
<1>1. TypeOK
  BY DEF TypeInv
<1>2. thread[d][k] \in Thread /\ operator[d] \in Operator
  BY <1>1 DEF TypeOK
<1>3. thread[d][k].phase = "applying"
  BY DEF CommitStep, ApplyNext, FinishCommit
<1>4. UnderWay(thread[d][k])
  BY <1>3, PhaseUnderWay
<1>5. OperatorsStay
  <2>1. CASE ApplyNext(d, k)
    BY <2>1 DEF ApplyNext, OperatorsStay
  <2>2. CASE FinishCommit(d, k)
    BY <1>1, <1>2, <2>2 DEF FinishCommit, OperatorsStay, TypeOK, Operator
  <2> QED
    BY <2>1, <2>2 DEF CommitStep
<1> DEFINE n == thread[d][k].applied + 1
           t == [thread[d][k] EXCEPT !.applied = n]
<1>6. thread' = [thread EXCEPT ![d][k] = t] \/ thread' = End(d, k)
  BY DEF CommitStep, ApplyNext, FinishCommit
<1>7. t.phase # "sent" /\ t.term = thread[d][k].term
      /\ t.copy = thread[d][k].copy
  BY <1>2, <1>3 DEF Thread
<1> HIDE DEF t
<1>8. CASE thread' = [thread EXCEPT ![d][k] = t]
  BY <1>1, <1>4, <1>5, <1>7, <1>8, OneThreadGoesOn
<1>9. CASE thread' = End(d, k)
  <2>1. thread' = [thread EXCEPT ![d][k] = NoThread]
    BY <1>9 DEF End
  <2> QED
    BY <1>1, <1>5, <2>1, ThreadEnded, OneThreadGoesOn
<1> QED
  BY <1>6, <1>8, <1>9

LEMMA CallersKeepThreads ==
  ASSUME TypeOK, NEW k \in Node, NEW answered, CallersGoOn(k, answered),
         UNCHANGED operator,
         NEW c \in Command, NEW j \in Node, UnderWay(thread'[c][j])
  PROVE  SameThread(c, j)
<1>1. thread[c][j] \in Thread
  BY DEF TypeOK
<1> DEFINE t == [thread[c][j] EXCEPT !.phase = "replied"]
<1>2. \/ thread'[c][j] = thread[c][j]
      \/ thread[c][j].phase = "handled" /\ thread'[c][j] \in {t, NoThread}
  BY DEF CallersGoOn
<1>3. /\ t.phase = "replied" /\ t.term = thread[c][j].term
      /\ t.copy = thread[c][j].copy
  BY <1>1 DEF Thread
<1> HIDE DEF t
<1>4. CASE thread'[c][j] = thread[c][j]
  BY <1>4 DEF SameThread
<1>5. CASE thread[c][j].phase = "handled" /\ thread'[c][j] = t
  <2>1. UnderWay(thread[c][j])
    BY <1>5, ThreadEnded DEF UnderWay
  <2> QED
    BY <1>3, <1>5, <2>1 DEF SameThread
<1> QED
  BY <1>2, <1>4, <1>5, ThreadEnded

(* A thread has just been started, has just sent, or is the thread it was. *)
LEMMA ThreadsMove ==
  ASSUME TypeInv, [Next]_vars,
         NEW c \in Command, NEW j \in Node, UnderWay(thread'[c][j])
  PROVE  \/ SameThread(c, j)
         \/ SendAppend(c, j)
         \/ \E i \in Node : Start(i, c)
<1>1. TypeOK
  BY DEF TypeInv
<1> DEFINE Moves == \/ SameThread(c, j)
                    \/ SendAppend(c, j)
                    \/ \E i \in Node : Start(i, c)
<1>2. ASSUME NEW i \in Node, HandlerStep(i) PROVE Moves
  <2>1. UNCHANGED operator
    BY <1>2 DEF HandlerStep, HandlerApplies, HandlerReturns
  <2>2. \/ UNCHANGED thread
        \/ CallersGoOn(i, TRUE) \/ CallersGoOn(i, FALSE)
    BY <1>2 DEF HandlerStep, HandlerApplies, HandlerReturns
  <2> QED
    BY <1>1, <2>1, <2>2, CallersKeepThreads, ThreadsStay DEF OperatorsStay
<1>3. ASSUME NEW i \in Node, BeatSends(i) PROVE Moves
  BY <1>3, ThreadsStay DEF BeatSends, sendVars, OperatorsStay
<1>4. CASE UNCHANGED vars
  BY <1>4, ThreadsStay DEF vars, OperatorsStay
<1>5. CASE Next
  BY <1>2, <1>3, <1>5, NodesLeaveThreads, ThreadsGoOn, CommitLeavesThreads
     DEF Next
<1> QED
  BY <1>4, <1>5

(* Logs of which one starts the other send the same entries.               *)
LEMMA SameCut ==
  ASSUME NEW r \in Seq(Entry), NEW s \in Seq(Entry), Extends(r, s),
         NEW n \in Nat
  PROVE  SubSeq(r, n + 1, Len(s)) = SubSeq(s, n + 1, Len(s))
<1>1. Len(s) \in Nat /\ Len(r) \in Nat /\ Len(s) <= Len(r)
  BY LenProperties DEF Extends
<1>2. \A m \in 1 .. Len(s) : r[m] = s[m] /\ s[m] \in Entry
  BY <1>1, ElementOfSeq DEF Extends
<1>3. \A m \in n + 1 .. Len(s) : r[m] = s[m] /\ s[m] \in Entry
  BY <1>1, <1>2
<1> DEFINE a == SubSeq(r, n + 1, Len(s))
           b == SubSeq(s, n + 1, Len(s))
<1>4. /\ b \in Seq(Entry)
      /\ Len(b) = IF n + 1 <= Len(s) THEN Len(s) - n ELSE 0
      /\ \A m \in 1 .. Len(s) - n : b[m] = s[n + m]
  BY <1>1, <1>3, SubSeqProperties
<1>5. /\ a \in Seq(Entry)
      /\ Len(a) = IF n + 1 <= Len(s) THEN Len(s) - n ELSE 0
      /\ \A m \in 1 .. Len(s) - n : a[m] = r[n + m]
  BY <1>1, <1>3, SubSeqProperties
<1>6. \A m \in 1 .. Len(s) - n : n + m \in n + 1 .. Len(s)
  BY <1>1
<1> HIDE DEF a, b
<1>7. Len(a) = Len(b) /\ \A m \in 1 .. Len(a) : a[m] = b[m]
  BY <1>1, <1>3, <1>4, <1>5, <1>6
<1>8. a = b
  BY <1>4, <1>5, <1>7, SeqEqual
<1> QED
  BY <1>8 DEF a, b

(* What an append thread of a leader sends is of the log it copied.        *)
LEMMA SendAppendSends ==
  ASSUME NEW H, LogInv(H), NEW c \in Command, NEW j \in Node,
         SendAppend(c, j), UnderWay(thread'[c][j])
  PROVE  /\ UnderWay(thread[c][j])
         /\ thread'[c][j].term = thread[c][j].term
         /\ thread'[c][j].copy = thread[c][j].copy
         /\ UNCHANGED <<operator, electionVars, log>>
         /\ Sends(thread'[c][j].message, thread[c][j].copy, thread[c][j].term)
<1> DEFINE i == operator[c].leader
           t == thread[c][j]
           next == NextToSend(i, j, t)
           first == Larger(next - 1, 0)
           prevPosition == Larger(next - 2, 0) + 1
           upto == operator[c].index
           inRange == /\ prevPosition <= Len(t.copy)
                      /\ first <= Len(log[i]) =>
                           first <= upto /\ upto <= Len(log[i])
           entries == IF first <= Len(log[i])
                      THEN SubSeq(log[i], first + 1, upto) ELSE <<>>
           m == [from |-> i, term |-> t.term, prev |-> first,
                 prevTerm |-> t.copy[prevPosition].term,
                 entries |-> entries, commit |-> commitIndex[i]]
           sent == [t EXCEPT !.phase = "sent", !.message = m]
           after == IF inRange THEN sent ELSE NoThread
<1>1. TypeInv /\ TypeOK
  BY DEF LogInv, TypeInv
<1>2. /\ t.phase # "none" /\ role[i] = "LEADER"
      /\ UNCHANGED <<operator, electionVars, log>>
  BY DEF SendAppend
<1>3. t \in Thread /\ UnderWay(t) /\ i \in Node /\ upto \in Nat
  BY <1>1, <1>2, PhaseUnderWay DEF Operator
<1>4. /\ log[i] \in Seq(Entry) /\ Len(log[i]) \in Nat
      /\ t.copy \in Seq(Entry) /\ Len(t.copy) \in Nat
  BY <1>1, <1>3, LenProperties DEF TypeOK, Thread
<1>5. Extends(log[i], t.copy) /\ upto = Len(t.copy)
  BY <1>2, <1>3 DEF LogInv, ThreadHolds
<1>6. next \in Int
  <2>1. nextIndex[i][j] \in Int /\ matchIndex[i][j] \in Int
    BY <1>1, <1>3 DEF TypeOK
  <2> HIDE DEF t, i
  <2> QED
    BY <2>1 DEF NextToSend, Smaller
<1>7. first \in Nat /\ (first > 0 => prevPosition = first)
  BY <1>6 DEF Larger
<1>8. thread' = [thread EXCEPT ![c][j] = after]
  BY DEF SendAppend
<1>9. thread'[c][j] = after
  BY <1>1, <1>8 DEF TypeOK
<1>10. inRange /\ after = sent
  BY <1>9, ThreadEnded
<1>11. Sends(m, t.copy, t.term)
  <2>1. m.term = t.term /\ m.prev = first /\ m.entries = entries
        /\ m.prevTerm = t.copy[prevPosition].term
    OBVIOUS
  <2>2. first <= Len(t.copy)
    BY <1>4, <1>7, <1>10
  <2>3. first <= Len(log[i])
    BY <1>4, <1>5, <1>7, <2>2 DEF Extends
  <2>4. entries = SubSeq(t.copy, first + 1, Len(t.copy))
    BY <1>4, <1>5, <1>7, <2>3, SameCut
  <2>5. first > 0 => t.copy[prevPosition].term = t.copy[first].term
    BY <1>7
  <2> HIDE DEF m, first, prevPosition, entries
  <2> QED
    BY <2>1, <2>2, <2>4, <2>5 DEF Sends
<1> HIDE DEF m
<1>12. sent.message = m /\ sent.term = t.term /\ sent.copy = t.copy
  BY <1>3 DEF Thread
<1> QED
  BY <1>2, <1>3, <1>9, <1>10, <1>11, <1>12

(* What holds of a thread goes on holding: its node either leads on, with  *)
(* the log it had and more, or has stepped down, and leads no other term   *)
(* while the thread lasts.                                                 *)
LEMMA ThreadsHold ==
  ASSUME NEW H, LogInv(H), [Next]_vars, "return" \notin Races,
         NEW G, G = H \cup {Now(q)' : q \in Node},
         NEW c \in Command, NEW j \in Node
  PROVE  ThreadHolds(G, c, j)'
<1>1. TypeInv /\ TypeOK /\ TypeOK' /\ PastHolds(H)
  BY NextTyped DEF LogInv, TypeInv
<1>2. \A l, t, s : LedWith(H, l, t, s) => LedWith(G, l, t, s)
  BY PastStays
<1> DEFINE t == thread'[c][j]
           i == operator'[c].leader
           Holds ==
             /\ LedWith(G, i, t.term, t.copy)
             /\ Len(t.copy) = operator'[c].index /\ Len(t.copy) > 0
             /\ t.copy[Len(t.copy)].term = t.term
             /\ role'[i] = "LEADER" => /\ t.term = currentTerm'[i]
                                       /\ Extends(log'[i], t.copy)
             /\ t.phase = "sent" => Sends(t.message, t.copy, t.term)
<1> SUFFICES ASSUME UnderWay(t) PROVE Holds
  BY DEF ThreadHolds, LedWith
<1>3. ASSUME UnderWay(thread[c][j])
      PROVE  /\ operator[c].leader \in Node
             /\ LedWith(H, operator[c].leader, thread[c][j].term,
                        thread[c][j].copy)
             /\ Len(thread[c][j].copy) = operator[c].index
             /\ Len(thread[c][j].copy) > 0
             /\ thread[c][j].copy[Len(thread[c][j].copy)].term
                  = thread[c][j].term
             /\ role[operator[c].leader] = "LEADER" =>
                  /\ thread[c][j].term = currentTerm[operator[c].leader]
                  /\ Extends(log[operator[c].leader], thread[c][j].copy)
             /\ thread[c][j].phase = "sent" =>
                  Sends(thread[c][j].message, thread[c][j].copy,
                        thread[c][j].term)
  BY <1>3 DEF LogInv, TypeInv, LeadersKnown, ThreadHolds
<1>4. CASE SameThread(c, j)
  <2>1. /\ UnderWay(thread[c][j]) /\ i = operator[c].leader
        /\ operator'[c].index = operator[c].index
        /\ t.term = thread[c][j].term /\ t.copy = thread[c][j].copy
        /\ t.phase = "sent" =>
             thread[c][j].phase = "sent" /\ t.message = thread[c][j].message
    BY <1>4 DEF SameThread
  <2> HIDE DEF t, i
  <2>2. i \in Node
    BY <1>3, <2>1
  <2>3. ASSUME role'[i] = "LEADER"
        PROVE  t.term = currentTerm'[i] /\ Extends(log'[i], t.copy)
    <3>1. role[i] = "LEADER" /\ currentTerm'[i] = currentTerm[i]
      <4>1. ~BecomeLeader(i)
        <5>1. Sending(i)
          BY <2>1 DEF Sending
        <5> QED
          BY <5>1 DEF BecomeLeader
      <4> QED
        BY <1>1, <2>2, <2>3, <4>1, LeadersMove
    <3>2. t.term = currentTerm'[i] /\ Extends(log[i], t.copy)
      BY <1>3, <2>1, <3>1
    <3>3. log[i] \in Seq(Entry) /\ log'[i] \in Seq(Entry) /\ t.copy \in Seq(Entry)
      <4>1. log[i] \in Seq(Entry) /\ log'[i] \in Seq(Entry)
        BY <1>1, <2>2 DEF TypeOK
      <4>2. t.copy \in LogsOf(H)
        BY <1>3, <2>1, LedWithLog
      <4> QED
        BY <1>1, <4>1, <4>2 DEF PastHolds, LogsOf, Moment
    <3>4. Extends(log'[i], log[i])
      BY <1>1, <2>2, <2>3, <3>1, <3>3, LeaderLogs, StartDoes, ExtendsItself
    <3> QED
      BY <3>2, <3>3, <3>4, ExtendsOn
  <2> QED
    BY <1>2, <1>3, <2>1, <2>3
<1>5. CASE SendAppend(c, j)
  <2>1. /\ UnderWay(thread[c][j])
        /\ t.term = thread[c][j].term /\ t.copy = thread[c][j].copy
        /\ UNCHANGED <<operator, electionVars, log>>
        /\ Sends(t.message, thread[c][j].copy, thread[c][j].term)
    BY <1>5, SendAppendSends
  <2>2. i = operator[c].leader /\ operator'[c] = operator[c]
    BY <2>1
  <2> HIDE DEF t, i
  <2> QED
    BY <1>2, <1>3, <2>1, <2>2 DEF electionVars
<1>6. ASSUME NEW k \in Node, Start(k, c) PROVE Holds
  <2>1. /\ role[k] = "LEADER" /\ UNCHANGED electionVars
        /\ log'[k] \in Seq(Entry) /\ Len(log'[k]) = Len(log[k]) + 1
        /\ log'[k][Len(log[k]) + 1].term = currentTerm[k]
    BY <1>1, <1>6, StartDoes
  <2>2. Len(log[k]) \in Nat
    BY <1>1, LenProperties DEF TypeOK
  <2>3. operator'[c].leader = k /\ operator'[c].index = Len(log'[k])
    BY <1>1, <1>6 DEF Start, TypeOK
  <2>4. t.term = currentTerm[k] /\ t.copy = log'[k] /\ t.phase = "new"
    <3> DEFINE new == [NoThread EXCEPT !.phase = "new", !.term = currentTerm[k],
                                       !.copy = log'[k]]
    <3>1. t = IF j = k THEN NoThread ELSE new
      BY <1>1, <1>6 DEF Start, TypeOK
    <3>2. t = new
      BY <3>1, ThreadEnded
    <3>3. /\ new.term = currentTerm[k] /\ new.copy = log'[k]
          /\ new.phase = "new"
      BY DEF NoThread
    <3> QED
      BY <3>2, <3>3
  <2>5. currentTerm'[k] = currentTerm[k] /\ role'[k] = "LEADER"
    BY <2>1 DEF electionVars
  <2>6. LedWith(G, k, currentTerm'[k], log'[k])
    <3>1. Now(k)' \in G
      OBVIOUS
    <3> QED
      BY <2>5, <3>1, NowIsPast
  <2>7. Extends(log'[k], log'[k])
    BY <2>1, ExtendsItself
  <2> HIDE DEF t
  <2> QED
    BY <2>1, <2>2, <2>3, <2>4, <2>5, <2>6, <2>7
<1> QED
  BY <1>1, <1>4, <1>5, <1>6, ThreadsMove

-----------------------------------------------------------------------------
(***************************************************************************)
(* What a step does to the heart beats.                                    *)
(***************************************************************************)

(* The run goes on with its message, or has found another peer.            *)
SameBeat(i) ==
  /\ beat[i].phase \in Beats /\ beat'[i].message = beat[i].message
  /\ beat'[i].to = beat[i].to \/ beat'[i].to # i

LEMMA NextBeatGoes ==
  ASSUME TypeOK, NEW i \in Node, NextBeat(i).phase \in {"begun"} \cup Beats
  PROVE  /\ NextBeat(i).phase = "sent" /\ NextBeat(i).to # i
         /\ NextBeat(i).message = beat[i].message
<1> DEFINE next == BeatTo(i, beat[i].to + 1)
           b == [beat[i] EXCEPT !.phase = "sent", !.to = next, !.replyTerm = 0]
<1>1. beat[i] \in Beat /\ beat[i].to \in Int /\ i \in Int
  BY NodesAreNumbers DEF TypeOK, Beat
<1>2. next # i
  BY <1>1 DEF BeatTo
<1>3. NoBeat.phase = "waiting"
  BY DEF NoBeat
<1>4. NextBeat(i) \in {NoBeat, b}
  BY DEF NextBeat
<1>5. b.phase = "sent" /\ b.to = next /\ b.message = beat[i].message
  BY <1>1 DEF Beat
<1> HIDE DEF b, next
<1>6. NextBeat(i) = b
  BY <1>3, <1>4 DEF Beats
<1> QED
  BY <1>2, <1>5, <1>6

(* The node of a run.                                                      *)
LEMMA OneBeatMoves ==
  ASSUME TypeOK, NEW k \in Node, NEW b, beat' = [beat EXCEPT ![k] = b],
         NEW i \in Node
  PROVE  beat'[i] = IF i = k THEN b ELSE beat[i]
BY DEF TypeOK

(* What may become of the heart beat of a node.                            *)
BeatAfter(i) ==
  \/ beat'[i] = beat[i] \/ beat'[i] = NoBeat
  \/ BeatBegins(i) \/ BeatSends(i)
  \/ beat[i].phase \in Beats /\ beat'[i] = NextBeat(i)
  \/ /\ beat[i].phase \in Beats
     /\ \/ beat'[i] = [beat[i] EXCEPT !.phase = "handled"]
        \/ \E r : beat'[i] = [beat[i] EXCEPT !.phase = "refused",
                                             !.replyTerm = r]

LEMMA BeatKinds ==
  ASSUME TypeInv, [Next]_vars, NEW i \in Node
  PROVE  BeatAfter(i)
<1>1. TypeOK /\ beat[i] \in Beat
  BY DEF TypeInv, TypeOK
<1>2. ASSUME beat'[i] = beat[i] PROVE BeatAfter(i)
  BY <1>2 DEF BeatAfter
<1>3. ASSUME beat'[i] = NextBeat(i), beat[i].phase \in Beats
      PROVE  BeatAfter(i)
  BY <1>3 DEF BeatAfter
<1>5. ASSUME NEW k \in Node, NodeStep(k) PROVE BeatAfter(i)
  <2>1. CASE BeatBegins(k)
    <3> DEFINE b == [NoBeat EXCEPT !.phase = "begun", !.message =
                       [NoMessage EXCEPT !.from = k, !.prev = Last(log[k]).index,
                                         !.prevTerm = Last(log[k]).term]]
    <3>2. beat' = [beat EXCEPT ![k] = b]
      BY <2>1 DEF BeatBegins
    <3> HIDE DEF b
    <3>3. beat'[i] = IF i = k THEN b ELSE beat[i]
      BY <1>1, <3>2, OneBeatMoves
    <3> QED
      BY <1>2, <2>1, <3>3 DEF BeatAfter
  <2>2. CASE BeatDelivers(k)
    <3> DEFINE m == beat[k].message
               to == beat[k].to
    <3>1. beat[k].phase = "sent"
      BY <2>2 DEF BeatDelivers
    <3>2. CASE i = k
      <4>1. \/ beat'[i] = [beat[i] EXCEPT !.phase = "handled"]
            \/ beat'[i] = NextBeat(i)
            \/ beat'[i] = [beat[i] EXCEPT !.phase = "refused",
                                          !.replyTerm = ReplyTerm(to, m)]
        BY <1>1, <2>2, <3>2 DEF BeatDelivers, TypeOK
      <4>2. beat[i].phase \in Beats
        BY <3>1, <3>2 DEF Beats
      <4> HIDE DEF m, to
      <4> QED
        BY <4>1, <4>2 DEF BeatAfter
    <3>3. CASE i # k
      <4>1. beat'[i] = beat[i]
        BY <1>1, <2>2, <3>3 DEF BeatDelivers, TypeOK
      <4> QED
        BY <1>2, <4>1
    <3> QED
      BY <3>2, <3>3
  <2>3. CASE BeatFails(k) \/ BeatRefused(k)
    <3>1. beat[k].phase \in Beats /\ beat' = [beat EXCEPT ![k] = NextBeat(k)]
      BY <2>3 DEF BeatFails, BeatRefused, Beats
    <3>2. beat'[i] = IF i = k THEN NextBeat(k) ELSE beat[i]
      BY <1>1, <3>1, OneBeatMoves
    <3> QED
      BY <1>2, <1>3, <3>1, <3>2
  <2>4. CASE BecomeCandidate(k) \/ BecomeLeader(k) \/ StartReturns(k)
    BY <1>2, <2>4 DEF BecomeCandidate, BecomeLeader, StartReturns
  <2>5. CASE \E j \in Node : RequestVote(k, j) \/ VoteRefused(k, j)
    BY <1>2, <2>5 DEF RequestVote, VoteRefused
  <2>6. CASE \E c \in Command : Start(k, c)
    BY <1>2, <2>6 DEF Start
  <2> QED
    BY <1>5, <2>1, <2>2, <2>3, <2>4, <2>5, <2>6 DEF NodeStep
<1>6. ASSUME NEW c \in Command, NEW j \in Node,
             ThreadStep(c, j) \/ CommitStep(c, j)
      PROVE  BeatAfter(i)
  BY <1>2, <1>6 DEF ThreadStep, SendAppend, ThreadEnds, CallFails,
     DeliverAppend, ReceiveSuccess, ReceiveRefusal, CommitStep, ApplyNext,
     FinishCommit
<1>7. ASSUME NEW k \in Node, HandlerStep(k) PROVE BeatAfter(i)
  <2>1. \/ UNCHANGED beat
        \/ CallersGoOn(k, TRUE) \/ CallersGoOn(k, FALSE)
    BY <1>7 DEF HandlerStep, HandlerApplies, HandlerReturns
  <2>2. \/ beat'[i] = beat[i] \/ beat'[i] = NoBeat
        \/ beat[i].phase = "handled" /\ beat'[i] = NextBeat(i)
    BY <2>1 DEF CallersGoOn
  <2> QED
    BY <2>2 DEF BeatAfter, Beats
<1>8. ASSUME NEW k \in Node, BeatSends(k) PROVE BeatAfter(i)
  <2>1. k # i => beat'[i] = beat[i]
    BY <1>1, <1>8 DEF BeatSends, TypeOK
  <2> QED
    BY <1>2, <1>8, <2>1 DEF BeatAfter
<1>9. CASE UNCHANGED vars
  BY <1>2, <1>9 DEF vars
<1>10. CASE Next
  BY <1>5, <1>6, <1>7, <1>8, <1>10 DEF Next
<1> QED
  BY <1>9, <1>10

(* A heart beat that has been sent was sent before, or has just been.      *)
LEMMA BeatsMove ==
  ASSUME TypeInv, [Next]_vars, NEW i \in Node, beat'[i].phase \in Beats
  PROVE  SameBeat(i) \/ BeatSends(i)
<1>1. TypeOK /\ beat[i] \in Beat
  BY DEF TypeInv, TypeOK
<1>2. CASE BeatBegins(i)
  <2> DEFINE b == [NoBeat EXCEPT !.phase = "begun", !.message =
                     [NoMessage EXCEPT !.from = i, !.prev = Last(log[i]).index,
                                       !.prevTerm = Last(log[i]).term]]
  <2>1. b.phase = "begun"
    BY DEF NoBeat
  <2>2. beat' = [beat EXCEPT ![i] = b]
    BY <1>2 DEF BeatBegins
  <2> HIDE DEF b
  <2>3. beat'[i] = b
    BY <1>1, <2>2 DEF TypeOK
  <2> QED
    BY <2>1, <2>3 DEF Beats
<1>3. CASE beat'[i] = beat[i] \/ beat'[i] = NoBeat
  BY <1>3 DEF SameBeat, NoBeat, Beats
<1>4. CASE beat[i].phase \in Beats /\ beat'[i] = NextBeat(i)
  BY <1>1, <1>4, NextBeatGoes DEF SameBeat
<1>5. ASSUME NEW r, beat[i].phase \in Beats,
             beat'[i] \in {[beat[i] EXCEPT !.phase = "handled"],
                           [beat[i] EXCEPT !.phase = "refused",
                                           !.replyTerm = r]}
      PROVE  SameBeat(i)
  BY <1>1, <1>5 DEF SameBeat, Beat
<1> QED
  BY <1>2, <1>3, <1>4, <1>5, BeatKinds DEF BeatAfter

(* While a heart beat has begun, and without the race "beat", its node     *)
(* goes on leading with the log it had.                                    *)
LEMMA BeatsBegin ==
  ASSUME TypeInv, [Next]_vars, "beat" \notin Races, NEW i \in Node,
         beat'[i].phase = "begun"
  PROVE  BeatBegins(i) \/ (beat'[i] = beat[i] /\ UNCHANGED <<role, log>>)
<1>1. TypeOK /\ beat[i] \in Beat
  BY DEF TypeInv, TypeOK
<1>2. CASE BeatSends(i)
  <2> DEFINE m == [beat[i].message EXCEPT !.term = currentTerm[i],
                                          !.commit = commitIndex[i]]
             b == [beat[i] EXCEPT !.phase = "sent", !.to = BeatTo(i, 0),
                                  !.message = m]
  <2>1. beat'[i] = b
    BY <1>1, <1>2 DEF BeatSends, TypeOK
  <2>2. b.phase = "sent"
    BY <1>1 DEF Beat
  <2> QED
    BY <2>1, <2>2
<1>3. CASE beat'[i] = NoBeat
  BY <1>3 DEF NoBeat
<1>4. CASE beat[i].phase \in Beats /\ beat'[i] = NextBeat(i)
  BY <1>1, <1>4, NextBeatGoes
<1>5. beat'[i] # [beat[i] EXCEPT !.phase = "handled"]
  BY <1>1 DEF Beat
<1>6. ASSUME NEW r
      PROVE  beat'[i] # [beat[i] EXCEPT !.phase = "refused", !.replyTerm = r]
  BY <1>1 DEF Beat
<1>7. CASE beat'[i] = beat[i]
  <2>1. ~Undisturbed
    BY <1>7 DEF Undisturbed
  <2>2. UNCHANGED <<role, log>>
    BY <2>1 DEF Next, vars, BeatSends, HandlerStep, HandlerApplies,
       HandlerReturns, CommitStep, ApplyNext, FinishCommit, electionVars
  <2> QED
    BY <1>7, <2>2
<1>8. BeatAfter(i)
  BY BeatKinds
<1> QED
  BY <1>2, <1>3, <1>4, <1>5, <1>6, <1>7, <1>8 DEF BeatAfter

LEMMA LastOfLog ==
  ASSUME NEW s \in Seq(Entry)
  PROVE  /\ Last(s).index = Len(s) /\ Len(s) \in Nat
         /\ Len(s) > 0 => Last(s).term = s[Len(s)].term
<1>1. Len(s) \in Nat /\ (s = <<>> => Len(s) = 0) /\ (Len(s) = 0 => s = <<>>)
  BY LenProperties, EmptySeq
<1> QED
  BY <1>1 DEF Last

(* A heart beat sends the end of the log its node leads with.              *)
LEMMA BeatSendsEnd ==
  ASSUME NEW H, PastHolds(H), TypeOK, NEW i \in Node, BeatHolds(H, i),
         BeatSends(i)
  PROVE  LET b == beat'[i]
             m == beat'[i].message
         IN /\ b.to # i
            /\ m.term = currentTerm[i] /\ m.commit = commitIndex[i]
            /\ LedWith(H, i, m.term, log[i])
            /\ Sends(m, log[i], m.term) /\ m.prev = Len(log[i])
<1> DEFINE old == beat[i].message
           sent == [old EXCEPT !.term = currentTerm[i],
                               !.commit = commitIndex[i]]
           after == [beat[i] EXCEPT !.phase = "sent", !.to = BeatTo(i, 0),
                                    !.message = sent]
<1>1. /\ role[i] = "LEADER" /\ old.entries = <<>> /\ old.prev = Len(log[i])
      /\ old.prev > 0 => old.prevTerm = log[i][old.prev].term
  BY DEF BeatHolds, BeatSends
<1>2. beat[i] \in Beat /\ old \in Message /\ log[i] \in Seq(Entry)
  BY DEF Beat, TypeOK
<1>3. /\ sent.term = currentTerm[i] /\ sent.entries = old.entries
      /\ sent.prev = old.prev /\ sent.prevTerm = old.prevTerm
      /\ sent.commit = commitIndex[i]
  BY <1>2 DEF Message
<1>4. beat' = [beat EXCEPT ![i] = after]
  BY DEF BeatSends
<1> HIDE DEF old, sent
<1>5. after.message = sent /\ after.to = BeatTo(i, 0)
  BY <1>2 DEF Beat
<1> HIDE DEF after
<1>6. beat'[i] = after
  BY <1>4 DEF TypeOK
<1>7. BeatTo(i, 0) # i
  BY NodesAreNumbers DEF BeatTo
<1>8. LedWith(H, i, currentTerm[i], log[i])
  <2>1. Now(i) \in H
    BY DEF PastHolds
  <2>2. /\ Now(i).node = i /\ Now(i).term = currentTerm[i]
        /\ Now(i).role = role[i] /\ Now(i).log = log[i]
    BY DEF Now
  <2> HIDE DEF Now
  <2> QED
    BY <1>1, <2>1, <2>2 DEF LedWith
<1>9. Sends(sent, log[i], currentTerm[i]) /\ sent.prev = Len(log[i])
  <2>1. Len(log[i]) \in Nat
    BY <1>2, LenProperties
  <2>2. SubSeq(log[i], Len(log[i]) + 1, Len(log[i])) = <<>>
    BY <2>1, SubSeqEmpty
  <2>3. sent.prev = Len(log[i]) /\ sent.entries = <<>>
    BY <1>1, <1>3
  <2>4. sent.prev > 0 => sent.prevTerm = log[i][sent.prev].term
    BY <1>1, <1>3
  <2>5. sent.entries = SubSeq(log[i], sent.prev + 1, Len(log[i]))
    BY <2>2, <2>3
  <2>6. sent.prev <= Len(log[i]) /\ sent.term = currentTerm[i]
    BY <1>3, <2>1, <2>3
  <2> QED
    BY <2>3, <2>4, <2>5, <2>6 DEF Sends
<1> QED
  BY <1>3, <1>5, <1>6, <1>7, <1>8, <1>9

LEMMA BeatsHold ==
  ASSUME NEW H, LogInv(H), [Next]_vars, "beat" \notin Races,
         NEW G, G = H \cup {Now(q)' : q \in Node}, NEW i \in Node
  PROVE  BeatHolds(G, i)'
<1>1. /\ TypeInv /\ TypeOK /\ PastHolds(H)
      /\ beat[i] \in Beat /\ log[i] \in Seq(Entry) /\ BeatHolds(H, i)
  BY DEF LogInv, TypeInv, TypeOK
<1>2. /\ \A l, t, s : LedWith(H, l, t, s) => LedWith(G, l, t, s)
      /\ LogsOf(H) \subseteq LogsOf(G)
  BY PastStays
<1> DEFINE b == beat'[i]
           m == beat'[i].message
<1>3. ASSUME b.phase = "begun"
      PROVE  /\ role'[i] = "LEADER" /\ m.entries = <<>> /\ m.prev = Len(log'[i])
             /\ m.prev > 0 => m.prevTerm = log'[i][m.prev].term
  <2>1. CASE beat'[i] = beat[i] /\ UNCHANGED <<role, log>>
    BY <1>1, <1>3, <2>1 DEF BeatHolds
  <2>2. CASE BeatBegins(i)
    <3> DEFINE sent == [NoMessage EXCEPT !.from = i,
                                         !.prev = Last(log[i]).index,
                                         !.prevTerm = Last(log[i]).term]
               begun == [NoBeat EXCEPT !.phase = "begun", !.message = sent]
    <3>1. sent.entries = <<>> /\ sent.prev = Last(log[i]).index
          /\ sent.prevTerm = Last(log[i]).term
      BY DEF NoMessage
    <3>2. beat' = [beat EXCEPT ![i] = begun] /\ role[i] = "LEADER"
          /\ UNCHANGED <<role, log>>
      BY <2>2 DEF BeatBegins, electionVars
    <3> HIDE DEF sent
    <3>3. begun.message = sent
      BY DEF NoBeat
    <3> HIDE DEF begun
    <3>4. m = sent
      BY <1>1, <3>2, <3>3 DEF TypeOK
    <3> HIDE DEF m
    <3> QED
      BY <1>1, <3>1, <3>2, <3>4, LastOfLog
  <2> QED
    BY <1>1, <1>3, <2>1, <2>2, BeatsBegin
<1>4. ASSUME b.phase \in Beats
      PROVE  /\ b.to # i
             /\ \E s \in LogsOf(G) : /\ LedWith(G, i, m.term, s)
                                     /\ Sends(m, s, m.term) /\ m.prev = Len(s)
  <2>1. CASE SameBeat(i)
    <3>1. /\ beat[i].to # i
          /\ \E s \in LogsOf(H) : /\ LedWith(H, i, beat[i].message.term, s)
                                  /\ Sends(beat[i].message, s,
                                           beat[i].message.term)
                                  /\ beat[i].message.prev = Len(s)
      BY <1>1, <2>1 DEF BeatHolds, SameBeat
    <3>2. m = beat[i].message /\ b.to # i
      BY <2>1, <3>1 DEF SameBeat
    <3> HIDE DEF m, b
    <3> QED
      BY <1>2, <3>1, <3>2
  <2>2. CASE BeatSends(i)
    <3>1. /\ b.to # i
          /\ LedWith(H, i, m.term, log[i])
          /\ Sends(m, log[i], m.term) /\ m.prev = Len(log[i])
      BY <1>1, <2>2, BeatSendsEnd
    <3>2. log[i] \in LogsOf(G)
      BY <1>1, <1>2, LogsAreKnown
    <3> HIDE DEF m, b
    <3> QED
      BY <1>2, <3>1, <3>2
  <2> QED
    BY <1>1, <1>4, <2>1, <2>2, BeatsMove
<1> QED
  BY <1>3, <1>4 DEF BeatHolds, Beats, LedWith, LogsOf


-----------------------------------------------------------------------------
(***************************************************************************)
(* Log matching.                                                           *)
(***************************************************************************)

LEMMA LogInvInit == Init => LogInv({Now(q) : q \in Node})
<1> SUFFICES ASSUME Init PROVE LogInv({Now(q) : q \in Node})
  OBVIOUS
<1> DEFINE H == {Now(q) : q \in Node}
<1>1. TypeInv /\ TypeOK
  BY InitTyped DEF TypeInv
<1>2. ASSUME NEW q \in Node
      PROVE  /\ Now(q) \in Moment /\ Now(q).node = q /\ Now(q).term = 0
             /\ Now(q).vote = None /\ Now(q).role = "FOLLOWER"
             /\ Now(q).log = <<>>
  <2>1. Now(q) \in Moment
    BY <1>1, NowTyped
  <2> QED
    BY <2>1 DEF Now, Init
<1>3. \A h \in H : /\ h \in Moment /\ h.node \in Node /\ h.term = 0
                   /\ h.vote = None /\ h.role = "FOLLOWER" /\ h.log = <<>>
  BY <1>2
<1>4. \A q \in Node : currentTerm[q] = 0 /\ role[q] = "FOLLOWER"
  BY DEF Init
<1>5. PastHolds(H)
  <2>1. \A q \in Node : Now(q) \in H
    OBVIOUS
  <2> HIDE DEF H
  <2> QED
    BY <1>3, <1>4, <2>1 DEF PastHolds, VotesOnce
<1> HIDE DEF H
<1>6. ElectionsHold(H) /\ LeadersHold(H) /\ LeadersHaveAll(H)
  BY <1>3, <1>4 DEF ElectionsHold, LeadersHold, LeadersHaveAll
<1>7. \A s \in LogsOf(H) : s = <<>> /\ Len(s) = 0
  BY <1>3 DEF LogsOf
<1>8. OriginsHold(H) /\ LogsCohere(H)
  BY <1>7 DEF OriginsHold, LogsCohere, Coherent
<1>9. \A c \in Command, j \in Node : ThreadHolds(H, c, j)
  BY DEF Init, ThreadHolds, UnderWay
<1>10. \A i \in Node : BeatHolds(H, i)
  BY DEF Init, BeatHolds, NoBeat, Beats
<1> QED
  BY <1>1, <1>5, <1>6, <1>8, <1>9, <1>10 DEF LogInv, H

LEMMA LogInvNext ==
  ASSUME NEW H, LogInv(H), [Next]_vars, Races \cap {"beat", "return"} = {},
         NEW G, G = H \cup {Now(q)' : q \in Node}
  PROVE  LogInv(G)'
<1>1. /\ TypeInv /\ PastHolds(H) /\ ElectionsHold(H) /\ LeadersHold(H)
      /\ H \subseteq Moment /\ \A h \in H : h.term <= currentTerm[h.node]
      /\ "beat" \notin Races /\ "return" \notin Races
  BY DEF LogInv, PastHolds
<1>2. TypeInv'
  BY <1>1, NextTyped
<1>3. G = H \cup {Now(q)' : q \in Node}
  OBVIOUS
<1>4. PastHolds(G)'
  BY <1>1, <1>2, <1>3, TermsOnlyGrow, PastGrows
<1>5. ElectionsHold(G)'
  BY <1>1, <1>3, ElectionsGoOn
<1>6. LeadersHold(G)'
  BY <1>1, <1>3, <1>5, LeadersGoOn
<1>7. \A c \in Command, j \in Node : ThreadHolds(G, c, j)'
  BY <1>1, <1>3, ThreadsHold
<1>8. \A i \in Node : BeatHolds(G, i)'
  BY <1>1, <1>3, BeatsHold
<1>9. OriginsHold(G)'
  <2>1. OriginsHold(G)
    BY <1>3, OriginsStay
  <2> QED
    BY <2>1 DEF OriginsHold, LogsOf, Led, Node
<1>10. LeadersHaveAll(G)'
  BY <1>3, <1>4, <1>5, LeadersKeepAll
<1>11. LogsCohere(G)'
  <2>1. G \subseteq Moment
    BY <1>4 DEF PastHolds, Moment, Entry, Node, Command
  <2>2. LogsCohere(G)
    BY <1>3, <2>1, LogsGoOn
  <2> QED
    BY <2>2 DEF LogsCohere, LogsOf, Coherent
<1> QED
  BY <1>2, <1>4, <1>5, <1>6, <1>7, <1>8, <1>9, <1>10, <1>11
     DEF LogInv, Node, Command

(* There was a past that led here.                                         *)
Explained == \E H : LogInv(H)

LEMMA ExplainedMatches == Explained => LogMatching
<1> SUFFICES ASSUME NEW H, LogInv(H) PROVE LogMatching
  BY DEF Explained
<1>1. TypeOK /\ PastHolds(H) /\ LogsCohere(H)
  BY DEF LogInv, TypeInv
<1> SUFFICES ASSUME NEW i \in Node, NEW j \in Node,
                    NEW n \in 1 .. Smaller(Len(log[i]), Len(log[j])),
                    log[i][n].term = log[j][n].term
             PROVE  SubSeq(log[i], 1, n) = SubSeq(log[j], 1, n)
  BY DEF LogMatching
<1>2. /\ log[i] \in LogsOf(H) /\ log[j] \in LogsOf(H)
      /\ log[i] \in Seq(Entry) /\ log[j] \in Seq(Entry)
      /\ Len(log[i]) \in Nat /\ Len(log[j]) \in Nat
  BY <1>1, LogsAreKnown, LenProperties DEF TypeOK
<1>3. n \in 1 .. Len(log[i]) /\ n \in 1 .. Len(log[j])
  BY <1>2 DEF Smaller
<1>4. \A m \in 1 .. n : log[i][m] = log[j][m]
  BY <1>1, <1>2, <1>3, CoherentUpTo DEF LogsCohere
<1> DEFINE a == SubSeq(log[i], 1, n)
           b == SubSeq(log[j], 1, n)
<1>5. /\ a \in Seq(Entry) /\ Len(a) = n
      /\ \A m \in 1 .. n : a[m] = log[i][m]
  BY <1>2, <1>3
<1>6. /\ b \in Seq(Entry) /\ Len(b) = n
      /\ \A m \in 1 .. n : b[m] = log[j][m]
  BY <1>2, <1>3
<1> HIDE DEF a, b
<1>7. a = b
  BY <1>4, <1>5, <1>6, SeqEqual
<1> QED
  BY <1>7 DEF a, b

(* However calls overtake commands, threads are stopped, and nodes apply   *)
(* their entries, two logs with an entry of one term at one index are one  *)
(* up to it, as long as no heart beat mixes two leaderships and no node    *)
(* leads again while threads of its last leadership go on.                 *)
THEOREM LogsMatch ==
  ASSUME Races \cap {"beat", "return"} = {}
  PROVE  Spec => []LogMatching
<1>1. Init => Explained
  BY LogInvInit DEF Explained
<1>2. Explained /\ [Next]_vars => Explained'
  <2> SUFFICES ASSUME NEW H, LogInv(H), [Next]_vars PROVE Explained'
    BY DEF Explained
  <2>1. PICK G : G = H \cup {Now(q)' : q \in Node}
    OBVIOUS
  <2>2. LogInv(G)'
    BY <2>1, LogInvNext
  <2> QED
    BY <2>2 DEF Explained
<1> QED
  BY <1>1, <1>2, ExplainedMatches, PTL DEF Spec
=============================================================================
