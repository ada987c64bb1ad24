------------------------- MODULE RaftAgreementProofs -------------------------
(***************************************************************************)
(* RaftReplication implements Agreement, with its windows closed and fewer *)
(* than seven nodes: each node applies one entry after the other, and all  *)
(* of them one sequence.                                                   *)
(*                                                                         *)
(* What has to be shown beyond RaftCommitProofs is that a commit index     *)
(* never moves unless its entries are applied.  probNSituation moves it    *)
(* when the positions from the middle of matchIndex on are those of a      *)
(* majority; there have to be so many nodes then that the successes can    *)
(* be of several commands, none of which has a majority.                   *)
(***************************************************************************)
EXTENDS RaftCommitProofs

(* Some thread of command c is under way.                                  *)
Active(c) == \E j \in Node : UnderWay(thread[c][j])

(* W are the nodes, node i first, that may have nothing behind the entry   *)
(* at n: whoever f says to have that entry is of W, or has accepted what   *)
(* is behind it, as node i has.                                            *)
Covers(H, i, T, p, f, n, W) ==
  /\ i \in W
  /\ \A j \in Node : f[j] >= n =>
       \/ p[j] \in W
       \/ Accepted(H, p[j], T, n + 1) /\ Accepted(H, i, T, n + 1)

(* They are no majority, and no more than the command at n has counted.    *)
Few(i, n, W) ==
  /\ ~IsMajority(Cardinality(W))
  /\ \A c \in Command :
       operator[c].leader = i /\ operator[c].index = n /\ Active(c)
         => Cardinality(W) <= operator[c].count

(* matchIndex of node i as in MatchHolds, and where it is ahead of the     *)
(* commit index, the successes are spread over several commands.           *)
Spread(H, i) ==
  \E T \in Nat, p \in OneToOne :
    /\ role[i] = "LEADER" => T = currentTerm[i] /\ \A j \in Node : p[j] = j
    /\ Matches(H, i, T, p, matchIndex[i])
    /\ \A j \in Node : matchIndex[i][j] > 0 => p[j] # i
    /\ \A n \in Nat : n > commitIndex[i] =>
         \E W \in SUBSET Node :
           Few(i, n, W) /\ Covers(H, i, T, p, matchIndex[i], n, W)

(* A node whose command is committed has a commit index that is not behind *)
(* it.                                                                     *)
CommittedIsBehind(c) ==
  operator[c].committed =>
    /\ operator[c].leader \in Node
    /\ operator[c].index <= commitIndex[operator[c].leader]

-----------------------------------------------------------------------------
(***************************************************************************)
(* The counters of the commands.                                           *)
(***************************************************************************)

LEMMA CommittedMoves ==
  ASSUME TypeInv, [Next]_vars, NEW c \in Command, operator'[c].committed
  PROVE  operator[c].committed \/ \E j \in Node : FinishCommit(c, j)
<1> DEFINE P == operator[c].committed \/ \E j \in Node : FinishCommit(c, j)
<1>1. TypeOK /\ operator \in [Command -> Operator]
  BY DEF TypeInv, TypeOK
<1>2. ASSUME UNCHANGED operator PROVE P
  BY <1>2
<1>3. ASSUME NEW i \in Node, NodeStep(i) PROVE P
  <2>1. ASSUME NEW d \in Command, Start(i, d) PROVE P
    <3>1. PICK l, n : operator' = [operator EXCEPT ![d] =
            [leader |-> l, index |-> n, count |-> 1, committed |-> FALSE]]
      BY <2>1 DEF Start
    <3> QED
      BY <1>1, <3>1
  <2> QED
    BY <1>2, <1>3, <2>1 DEF NodeStep, BecomeCandidate, BecomeLeader,
       StartReturns, BeatBegins, BeatDelivers, BeatFails, BeatRefused,
       RequestVote, VoteRefused, sendVars
<1>4. ASSUME NEW d \in Command, NEW k \in Node,
             ThreadStep(d, k) \/ CommitStep(d, k)
      PROVE  P
  <2>1. CASE ReceiveSuccess(d, k)
    <3>1. PICK n : operator' = [operator EXCEPT ![d].count = n]
      BY <2>1 DEF ReceiveSuccess
    <3> QED
      BY <1>1, <3>1 DEF Operator
  <2>2. CASE FinishCommit(d, k)
    <3>1. operator' = [operator EXCEPT ![d].committed = TRUE]
      BY <2>2 DEF FinishCommit
    <3> QED
      BY <1>1, <2>2, <3>1
  <2> QED
    BY <1>2, <1>4, <2>1, <2>2 DEF ThreadStep, SendAppend, ThreadEnds,
       CallFails, DeliverAppend, ReceiveRefusal, CommitStep, ApplyNext
<1>5. ASSUME NEW i \in Node, BeatSends(i) \/ HandlerStep(i) PROVE P
  BY <1>2, <1>5
     DEF BeatSends, HandlerStep, HandlerApplies, HandlerReturns, sendVars
<1>6. CASE UNCHANGED vars
  BY <1>2, <1>6 DEF vars
<1>7. CASE Next
  BY <1>3, <1>4, <1>5, <1>7 DEF Next
<1> QED
  BY <1>6, <1>7

LEMMA CommittedIsBehindNext ==
  ASSUME NEW H, CommitInv(H), [Next]_vars, Races = {}, NEW c \in Command,
         CommittedIsBehind(c)
  PROVE  CommittedIsBehind(c)'
<1>1. /\ TypeInv /\ TypeOK /\ TypeOK' /\ operator[c] \in Operator
  BY PastKnown, NextTyped DEF CommitInv, StayInv, TypeInv, TypeOK
<1>2. ASSUME NEW i \in Node
      PROVE  /\ commitIndex[i] \in Nat /\ commitIndex'[i] \in Nat
             /\ commitIndex'[i] >= commitIndex[i]
  <2>1. H \subseteq H
    OBVIOUS
  <2> QED
    BY <1>1, <2>1, CommitHoldsNext DEF TypeOK
<1> SUFFICES ASSUME operator'[c].committed
             PROVE  /\ operator'[c].leader \in Node
                    /\ operator'[c].index <= commitIndex'[operator'[c].leader]
  BY DEF CommittedIsBehind, Node
<1>3. CASE \E i \in Node : Start(i, c)
  <2>1. ~operator[c].committed
    BY <1>3 DEF Start, NoOperator
  <2>2. ~ \E j \in Node : FinishCommit(c, j)
    <3> SUFFICES ASSUME NEW j \in Node, FinishCommit(c, j) PROVE FALSE
      OBVIOUS
    <3>1. thread[c][j].phase # "none"
      BY DEF FinishCommit
    <3>2. operator[c].leader \in Node
      BY <1>1, <3>1, PhaseUnderWay
    <3> QED
      BY <1>3, <3>2, NodesAreNumbers DEF Start, NoOperator
  <2> QED
    BY <1>1, <2>1, <2>2, CommittedMoves
<1>4. CASE ~\E i \in Node : Start(i, c)
  <2>1. /\ operator'[c].leader = operator[c].leader
        /\ operator'[c].index = operator[c].index
    BY <1>1, <1>4, CountersMove
  <2>2. CASE operator[c].committed
    <3>1. /\ operator[c].leader \in Node /\ operator[c].index \in Nat
          /\ operator[c].index <= commitIndex[operator[c].leader]
      BY <1>1, <2>2 DEF CommittedIsBehind, Operator
    <3> QED
      BY <1>2, <2>1, <3>1
  <2>3. ASSUME NEW j \in Node, FinishCommit(c, j)
        PROVE  /\ operator'[c].leader \in Node
               /\ operator'[c].index <= commitIndex'[operator'[c].leader]
    <3> DEFINE l == operator[c].leader
               n == operator[c].index
    <3>1. /\ thread[c][j].phase # "none"
          /\ commitIndex' = [commitIndex EXCEPT ![l] = n]
      BY <2>3 DEF FinishCommit
    <3>2. l \in Node /\ n \in Nat
      BY <1>1, <3>1, PhaseUnderWay DEF Operator
    <3>3. commitIndex'[l] = n
      BY <1>1, <3>1, <3>2 DEF TypeOK
    <3> QED
      BY <2>1, <3>2, <3>3
  <2> QED
    BY <1>1, <2>2, <2>3, CommittedMoves
<1> QED
  BY <1>3, <1>4

(* A command that is not new was active before, and has counted no more.   *)
LEMMA ActiveWas ==
  ASSUME NEW H, LogInv(H), [Next]_vars, NEW c \in Command, Active(c)',
         ~\E i \in Node : Start(i, c)
  PROVE  /\ Active(c)
         /\ operator'[c].leader = operator[c].leader
         /\ operator'[c].index = operator[c].index
         /\ operator[c].count \in Nat /\ operator'[c].count \in Nat
         /\ operator[c].count <= operator'[c].count
<1>1. /\ TypeInv /\ TypeOK /\ operator[c] \in Operator
      /\ operator \in [Command -> Operator]
  BY PastKnown DEF TypeOK
<1>2. PICK j \in Node : UnderWay(thread'[c][j])
  BY DEF Active, UnderWay, NoThread, NoMessage, Node
<1>3. /\ UnderWay(thread[c][j])
      /\ operator'[c].leader = operator[c].leader
      /\ operator'[c].index = operator[c].index
  BY <1>2, ThreadWas
<1>4. ASSUME NEW k \in Node, ReceiveSuccess(c, k)
      PROVE  operator'[c].count \in {operator[c].count, operator[c].count + 1}
  BY <1>1, <1>4 DEF ReceiveSuccess, Operator
<1>5. operator'[c].count \in {operator[c].count, operator[c].count + 1}
  BY <1>1, <1>4, CountersMove
<1>6. operator[c].count \in Nat
  BY <1>1 DEF Operator
<1> QED
  BY <1>3, <1>5, <1>6 DEF Active

-----------------------------------------------------------------------------
(***************************************************************************)
(* How the successes of a node are spread.                                 *)
(***************************************************************************)

LEMMA CoversStay ==
  ASSUME NEW H, NEW G, H \subseteq G, NEW i, NEW T, NEW p, NEW f, NEW n, NEW W,
         Covers(H, i, T, p, f, n, W)
  PROVE  Covers(G, i, T, p, f, n, W)
BY AcceptedStays DEF Covers

(* Sorting takes along the positions, and what is said of their nodes.     *)
LEMMA SortedCovers ==
  ASSUME NEW f \in [Node -> Int], NEW g \in Sorted(f), NEW p \in OneToOne,
         NEW H, NEW l, NEW T, Matches(H, l, T, p, f),
         \A j \in Node : f[j] > 0 => p[j] # l
  PROVE  \E r \in OneToOne :
           /\ Matches(H, l, T, r, g)
           /\ \A j \in Node : g[j] > 0 => r[j] # l
           /\ \A n, W : Covers(H, l, T, p, f, n, W)
                          => Covers(H, l, T, r, g, n, W)
<1>1. PICK q \in [Node -> Node] :
        /\ \A a, b \in Node : q[a] = q[b] => a = b
        /\ \A a \in Node : g[a] = f[q[a]]
  BY DEF Sorted
<1> DEFINE r == [a \in Node |-> p[q[a]]]
<1>2. r \in OneToOne
  BY <1>1 DEF OneToOne
<1>3. Matches(H, l, T, r, g)
  BY <1>1 DEF Matches
<1>4. \A j \in Node : g[j] > 0 => r[j] # l
  BY <1>1
<1>5. ASSUME NEW n, NEW W, Covers(H, l, T, p, f, n, W)
      PROVE  Covers(H, l, T, r, g, n, W)
  BY <1>1, <1>5 DEF Covers
<1> QED
  BY <1>2, <1>3, <1>4, <1>5

(* A node alone is few.                                                    *)
LEMMA AloneIsFew ==
  ASSUME NEW i \in Node
  PROVE  Cardinality({i}) = 1 /\ {i} \in SUBSET Node /\ ~IsMajority(1)
<1>1. Cardinality({i}) = 1
  BY FS_Singleton
<1>2. ~(1 > NumPeers \div 2)
  BY NumPeersAssumption
<1> QED
  BY <1>1, <1>2 DEF IsMajority

(* What is few stays few, as long as no command starts at the index.       *)
LEMMA FewStays ==
  ASSUME NEW H, LogInv(H), [Next]_vars, NEW i \in Node, NEW n \in Nat,
         NEW W \in SUBSET Node, Few(i, n, W),
         \A c \in Command : Start(i, c) => n # Len(log'[i])
  PROVE  Few(i, n, W)'
<1>1. TypeInv /\ TypeOK /\ Cardinality(W) \in Nat
  BY PastKnown, NodesAreFinite
<1> SUFFICES ASSUME NEW c \in Command, operator'[c].leader = i,
                    operator'[c].index = n, Active(c)'
             PROVE  Cardinality(W) <= operator'[c].count
  BY DEF Few, Command, IsMajority, Active, Node, UnderWay, NoThread, NoMessage
<1>2. ~ \E k \in Node : Start(k, c)
  <2> SUFFICES ASSUME NEW k \in Node, Start(k, c) PROVE FALSE
    OBVIOUS
  <2>1. operator'[c].leader = k /\ operator'[c].index = Len(log'[k])
    BY <1>1, StartThreads
  <2> QED
    BY <2>1
<1>3. /\ Active(c) /\ operator[c].leader = i /\ operator[c].index = n
      /\ operator[c].count \in Nat /\ operator'[c].count \in Nat
      /\ operator[c].count <= operator'[c].count
  BY <1>2, ActiveWas
<1>4. Cardinality(W) <= operator[c].count
  BY <1>3 DEF Few
<1> QED
  BY <1>1, <1>3, <1>4

(* What matchIndex of a leader says is in its log.                         *)
LEMMA MatchesAreThere ==
  ASSUME NEW H, LogInv(H), NEW i \in Node, role[i] = "LEADER",
         NEW p, NEW f, Matches(H, i, currentTerm[i], p, f),
         NEW j \in Node, f[j] \in Int, f[j] > 0
  PROVE  f[j] <= Len(log[i])
<1>1. Accepted(H, p[j], currentTerm[i], f[j])
  BY DEF Matches
<1>2. PICK h \in H : HasFrom(h.log, f[j], currentTerm[i])
  BY <1>1 DEF Accepted
<1>3. h.log \in LogsOf(H) /\ Len(h.log) \in Nat
  BY PastKnown DEF LogsOf
<1>4. PICK n \in 1 .. Len(h.log) : f[j] <= n /\ h.log[n].term = currentTerm[i]
  BY <1>2 DEF HasFrom
<1>5. n <= Len(log[i])
  BY <1>3, <1>4 DEF LogInv, LeadersHaveAll
<1>6. Len(log[i]) \in Nat /\ n \in Int
  BY <1>3, <1>4, PastKnown, LenProperties
<1> QED
  BY <1>4, <1>5, <1>6

(* Who has come through at a leader has accepted the command, and the      *)
(* leader has it.                                                          *)
LEMMA SuccessAccepts ==
  ASSUME NEW H, CommitInv(H), NEW c \in Command, NEW k \in Node,
         Succeeds(c, k)
  PROVE  LET i == operator[c].leader
             N == operator[c].index
         IN  /\ i \in Node /\ i # k /\ N \in Nat /\ N = Len(log[i])
             /\ UnderWay(thread[c][k])
             /\ nextIndex[i][k] \in Int /\ nextIndex[i][k] <= N
             /\ Accepted(H, k, currentTerm[i], N)
             /\ Accepted(H, i, currentTerm[i], N)
<1> DEFINE i == operator[c].leader
           N == operator[c].index
           s == thread[c][k].copy
           t == thread[c][k].term
<1>1. /\ StayInv(H) /\ LogInv(H) /\ TypeInv /\ TypeOK
  BY PastKnown DEF CommitInv, StayInv
<1>2. role[i] = "LEADER" /\ i \in Node
  BY SucceedsHolds
<1>3. /\ thread[c][k].phase # "none"
      /\ thread[c][k].success \/ thread[c][k].phase = "applying"
  BY DEF Succeeds, ReceiveSuccess, FinishCommit
<1>4. UnderWay(thread[c][k]) /\ i # k
  BY <1>1, <1>3, PhaseUnderWay
<1>5. Accepted(H, k, t, N)
  BY <1>3, <1>4 DEF CommitInv, Replied
<1>6. /\ N \in Nat /\ N = Len(log[i]) /\ t = currentTerm[i]
      /\ LedWith(H, i, t, s) /\ s \in Seq(Entry)
  BY <1>1, <1>2, <1>4, CopyIsLong
<1>7. Len(s) = N /\ Len(s) > 0 /\ s[Len(s)].term = t
  BY <1>1, <1>4 DEF LogInv, ThreadHolds
<1>8. Accepted(H, i, t, N)
  <2>1. N \in 1 .. Len(s) /\ N <= N
    BY <1>6, <1>7
  <2>2. HasFrom(s, N, t)
    BY <1>7, <2>1 DEF HasFrom
  <2> QED
    BY <1>6, <2>2 DEF LedWith, Accepted
<1>9. nextIndex[i][k] \in Int /\ nextIndex[i][k] <= N
  BY <1>1, <1>2, <1>4 DEF CommitInv, NextHolds, TypeOK
<1> QED
  BY <1>2, <1>4, <1>5, <1>6, <1>8, <1>9

(* A start adds to a log.                                                  *)
LEMMA StartLengthens ==
  ASSUME TypeOK, NEW i \in Node, NEW c \in Command, Start(i, c)
  PROVE  log' # log
<1>1. log[i] \in Seq(Entry) /\ Len(log[i]) \in Nat
  BY LenProperties DEF TypeOK
<1>2. \E e : log'[i] = Append(log[i], e)
  BY DEF Start, TypeOK
<1>3. Len(log'[i]) = Len(log[i]) + 1
  BY <1>1, <1>2
<1> QED
  BY <1>1, <1>3

(* A step leaves the successes spread.                                     *)
LEMMA SpreadNext ==
  ASSUME NEW H, CommitInv(H), [Next]_vars, Races = {},
         NEW G, G = H \cup {Now(q)' : q \in Node}, NEW i \in Node,
         Spread(H, i), \A c \in Command : CommittedIsBehind(c)
  PROVE  Spread(G, i)'
<1>1. /\ StayInv(H) /\ LogInv(H) /\ TypeInv /\ TypeOK /\ TypeInv' /\ TypeOK'
      /\ PastHolds(H) /\ H \subseteq Moment /\ OneCommand
  BY PastKnown, NextTyped DEF CommitInv, StayInv, TypeInv, PastHolds
<1>2. /\ matchIndex[i] \in [Node -> Int] /\ matchIndex'[i] \in [Node -> Int]
      /\ currentTerm[i] \in Nat /\ currentTerm'[i] \in Nat
      /\ nextIndex[i] \in [Node -> Int]
      /\ commitIndex[i] \in Nat /\ commitIndex'[i] \in Nat
      /\ commitIndex'[i] >= commitIndex[i]
  <2>1. commitIndex'[i] >= commitIndex[i]
    BY CommitHoldsNext
  <2> QED
    BY <1>1, <2>1 DEF TypeOK
<1>3. /\ H \subseteq G
      /\ \A q, T, k : Accepted(H, q, T, k) => Accepted(G, q, T, k)
      /\ \A T : Led(H, i, T) => Led(G, i, T)
  BY AcceptedStays, PastStays
<1> DEFINE id == [a \in Node |-> a]
<1>4. id \in OneToOne /\ \A j \in Node : id[j] = j
  BY DEF OneToOne
<1> DEFINE Fits(T, p) ==
      /\ role'[i] = "LEADER" => T = currentTerm'[i] /\ \A j \in Node : p[j] = j
      /\ Matches(G, i, T, p, matchIndex'[i])
      /\ \A j \in Node : matchIndex'[i][j] > 0 => p[j] # i
      /\ \A n \in Nat : n > commitIndex'[i] =>
           \E W \in SUBSET Node :
             Few(i, n, W)' /\ Covers(G, i, T, p, matchIndex'[i], n, W)
<1> SUFFICES \E T \in Nat, p \in OneToOne : Fits(T, p)
  BY DEF Spread, Few, Active, UnderWay, NoThread, NoMessage, IsMajority,
     Covers, Matches, Led, Accepted, HasFrom, OneToOne, Node, Command
<1>5. PICK T \in Nat, p \in OneToOne :
        /\ role[i] = "LEADER" =>
             T = currentTerm[i] /\ \A j \in Node : p[j] = j
        /\ Matches(H, i, T, p, matchIndex[i])
        /\ \A j \in Node : matchIndex[i][j] > 0 => p[j] # i
        /\ \A n \in Nat : n > commitIndex[i] =>
             \E W \in SUBSET Node :
               Few(i, n, W) /\ Covers(H, i, T, p, matchIndex[i], n, W)
  BY DEF Spread
<1>6. ASSUME NEW n \in Nat, n > commitIndex'[i]
      PROVE  /\ n > commitIndex[i]
             /\ \E W \in SUBSET Node :
                  Few(i, n, W) /\ Covers(H, i, T, p, matchIndex[i], n, W)
  <2>1. n > commitIndex[i]
    BY <1>2, <1>6
  <2> QED
    BY <1>5, <2>1
<1>7. CASE BecomeLeader(i)
  <2>1. \A j \in Node : matchIndex'[i][j] = 0
    BY <1>1, <1>7 DEF BecomeLeader, TypeOK
  <2>2. /\ ~Sending(i) /\ operator' = operator /\ thread' = thread
    BY <1>7 DEF BecomeLeader, sendVars
  <2>3. ASSUME NEW n \in Nat, n > commitIndex'[i]
        PROVE  /\ Few(i, n, {i})'
               /\ Covers(G, i, currentTerm'[i], id, matchIndex'[i], n, {i})
    <3>1. \A c \in Command : ~(operator'[c].leader = i /\ Active(c)')
      BY <2>2 DEF Sending, Active, UnderWay, NoThread, NoMessage
    <3>2. Few(i, n, {i})'
      BY <3>1, AloneIsFew
         DEF Few, Active, UnderWay, NoThread, NoMessage, IsMajority, Command
    <3>3. Covers(G, i, currentTerm'[i], id, matchIndex'[i], n, {i})
      BY <1>2, <2>1, <2>3 DEF Covers
    <3> QED
      BY <3>2, <3>3
  <2>4. Matches(G, i, currentTerm'[i], id, matchIndex'[i])
    BY <2>1 DEF Matches
  <2>5. \A n \in Nat : n > commitIndex'[i] =>
          \E W \in SUBSET Node :
            /\ Few(i, n, W)'
            /\ Covers(G, i, currentTerm'[i], id, matchIndex'[i], n, W)
    BY <2>3
  <2>6. Fits(currentTerm'[i], id)
    BY <1>4, <2>1, <2>4, <2>5
  <2> QED
    BY <1>2, <1>4, <2>6
<1>8. CASE matchIndex'[i] = matchIndex[i] /\ ~BecomeLeader(i)
  <2>1. role'[i] = "LEADER" =>
          role[i] = "LEADER" /\ currentTerm'[i] = currentTerm[i]
    BY <1>1, <1>8, LeadersMove
  <2>2. ASSUME NEW n \in Nat, n > commitIndex'[i]
        PROVE  \E W \in SUBSET Node :
                 Few(i, n, W)' /\ Covers(G, i, T, p, matchIndex'[i], n, W)
    <3>1. PICK W \in SUBSET Node :
            Few(i, n, W) /\ Covers(H, i, T, p, matchIndex[i], n, W)
      BY <1>6, <2>2
    <3>2. CASE \A c \in Command : Start(i, c) => n # Len(log'[i])
      <4>1. Few(i, n, W)'
        BY <1>1, <3>1, <3>2, FewStays
      <4>2. Covers(G, i, T, p, matchIndex'[i], n, W)
        BY <1>3, <1>8, <3>1, CoversStay
      <4> QED
        BY <4>1, <4>2
    <3>3. ASSUME NEW c \in Command, Start(i, c), n = Len(log'[i])
          PROVE  Few(i, n, {i})' /\ Covers(G, i, T, p, matchIndex'[i], n, {i})
      <4>1. /\ role[i] = "LEADER" /\ ~Sending(i)
            /\ log'[i] = Append(log[i], [term |-> currentTerm[i], command |-> c])
        BY <1>1, <3>3 DEF Start, TypeOK
      <4>2. n = Len(log[i]) + 1 /\ Len(log[i]) \in Nat
        BY <1>1, <3>3, <4>1, LenProperties DEF TypeOK
      <4>3. \A j \in Node : ~(matchIndex[i][j] >= n)
        <5> SUFFICES ASSUME NEW j \in Node, matchIndex[i][j] >= n PROVE FALSE
          OBVIOUS
        <5>1. matchIndex[i][j] \in Int /\ matchIndex[i][j] > 0
          BY <1>2, <4>2
        <5>2. matchIndex[i][j] <= Len(log[i])
          BY <1>1, <1>5, <4>1, <5>1, MatchesAreThere
        <5> QED
          BY <4>2, <5>1, <5>2
      <4>4. Covers(G, i, T, p, matchIndex'[i], n, {i})
        BY <1>8, <4>3 DEF Covers
      <4>5. ASSUME NEW d \in Command, operator'[d].leader = i, Active(d)'
            PROVE  1 <= operator'[d].count
        <5>1. CASE d = c
          BY <1>1, <3>3, <5>1, StartThreads
        <5>2. CASE d # c
          <6>1. operator'[d] = operator[d] /\ thread'[d] = thread[d]
            BY <1>1, <3>3, <5>2, StartThreads
          <6>2. \E j \in Node : UnderWay(thread[d][j])
            BY <4>5, <6>1 DEF Active, UnderWay, NoThread, NoMessage, Node
          <6> QED
            BY <4>1, <4>5, <6>1, <6>2 DEF Sending
        <5> QED
          BY <5>1, <5>2
      <4>6. Few(i, n, {i})'
        BY <4>5, AloneIsFew
           DEF Few, Active, UnderWay, NoThread, NoMessage, IsMajority, Command,
               Node
      <4> QED
        BY <4>4, <4>6
    <3> QED
      BY <3>2, <3>3
  <2>3. Matches(G, i, T, p, matchIndex'[i])
    BY <1>3, <1>5, <1>8 DEF Matches
  <2>4. Fits(T, p)
    BY <1>5, <1>8, <2>1, <2>2, <2>3
  <2> QED
    BY <2>4
<1>9. ASSUME NEW c \in Command, NEW k \in Node, operator[c].leader = i,
             ThreadEnds(c, k)
      PROVE  \E t \in Nat, r \in OneToOne : Fits(t, r)
  <2>1. PICK g \in Sorted(matchIndex[i]) :
          matchIndex' = [matchIndex EXCEPT ![i] = g]
    BY <1>9 DEF ThreadEnds
  <2>2. /\ role'[i] # "LEADER" /\ matchIndex'[i] = g
        /\ \A d \in Command : ~Start(i, d)
    BY <1>1, <1>9, <2>1 DEF ThreadEnds, electionVars, TypeOK, Start
  <2>3. PICK r \in OneToOne :
          /\ Matches(H, i, T, r, g)
          /\ \A j \in Node : g[j] > 0 => r[j] # i
          /\ \A n, W : Covers(H, i, T, p, matchIndex[i], n, W)
                         => Covers(H, i, T, r, g, n, W)
    BY <1>2, <1>5, <2>1, SortedCovers
  <2>4. Matches(G, i, T, r, g)
    BY <1>3, <2>3 DEF Matches
  <2>5. ASSUME NEW n \in Nat, n > commitIndex'[i]
        PROVE  \E W \in SUBSET Node :
                 Few(i, n, W)' /\ Covers(G, i, T, r, g, n, W)
    <3>1. PICK W \in SUBSET Node :
            Few(i, n, W) /\ Covers(H, i, T, p, matchIndex[i], n, W)
      BY <1>6, <2>5
    <3>2. Covers(G, i, T, r, g, n, W)
      BY <1>3, <2>3, <3>1, CoversStay
    <3>3. Few(i, n, W)'
      BY <1>1, <2>2, <3>1, FewStays
    <3> QED
      BY <3>2, <3>3
  <2>6. Fits(T, r)
    BY <2>2, <2>3, <2>4, <2>5
  <2> QED
    BY <2>6
<1>10. ASSUME NEW c \in Command, NEW k \in Node, operator[c].leader = i,
              Succeeds(c, k)
       PROVE  \E t \in Nat, r \in OneToOne : Fits(t, r)
  <2> DEFINE N == operator[c].index
             x == nextIndex[i][k]
  <2>1. /\ role[i] = "LEADER" /\ UNCHANGED <<electionVars, log>>
        /\ Led(H, i, currentTerm[i])
    BY <1>10, SucceedsHolds
  <2>2. /\ i # k /\ N \in Nat /\ N = Len(log[i]) /\ UnderWay(thread[c][k])
        /\ x \in Int /\ x <= N
        /\ Accepted(H, k, T, N) /\ Accepted(H, i, T, N)
    BY <1>5, <1>10, <2>1, SuccessAccepts
  <2> HIDE DEF N, x
  <2>3. /\ currentTerm'[i] = currentTerm[i] /\ T = currentTerm[i]
        /\ \A j \in Node : p[j] = j
        /\ \A q \in Node, d \in Command : ~Start(q, d)
    BY <1>1, <1>5, <2>1, StartLengthens DEF electionVars
  <2>4. \A j \in Node : matchIndex'[i][j] = IF j = k THEN x ELSE matchIndex[i][j]
    BY <1>1, <1>10 DEF Succeeds, MoveIndexes, TypeOK, x
  <2>5. \A n \in Nat : n <= N =>
          Accepted(H, k, T, n) /\ Accepted(H, i, T, n)
    BY <1>1, <2>2, SafeBelow
  <2>6. Matches(G, i, T, p, matchIndex'[i])
    <3> SUFFICES ASSUME NEW j \in Node, matchIndex'[i][j] > 0
                 PROVE  Led(G, i, T) /\ Accepted(G, p[j], T, matchIndex'[i][j])
      BY DEF Matches
    <3>1. CASE j = k
      <4>1. x \in Nat
        BY <2>2, <2>4, <3>1
      <4> QED
        BY <1>3, <2>1, <2>2, <2>3, <2>4, <2>5, <3>1, <4>1
    <3>2. CASE j # k
      BY <1>3, <1>5, <2>4, <3>2 DEF Matches
    <3> QED
      BY <3>1, <3>2
  <2>7. \A j \in Node : matchIndex'[i][j] > 0 => p[j] # i
    BY <1>5, <2>2, <2>3, <2>4
  <2>8. ASSUME NEW n \in Nat, n > commitIndex'[i]
        PROVE  \E W \in SUBSET Node :
                 Few(i, n, W)' /\ Covers(G, i, T, p, matchIndex'[i], n, W)
    <3>1. PICK W \in SUBSET Node :
            Few(i, n, W) /\ Covers(H, i, T, p, matchIndex[i], n, W)
      BY <1>6, <2>8
    <3>2. Few(i, n, W)'
      BY <1>1, <2>3, <3>1, FewStays
    <3>3. Covers(G, i, T, p, matchIndex[i], n, W)
      BY <1>3, <3>1, CoversStay
    <3>4. CASE ~(n = N /\ x = N)
      <4>1. ASSUME NEW j \in Node, matchIndex'[i][j] >= n
            PROVE  \/ p[j] \in W
                   \/ Accepted(G, p[j], T, n + 1) /\ Accepted(G, i, T, n + 1)
        <5>1. CASE j # k
          BY <2>4, <3>3, <4>1, <5>1 DEF Covers
        <5>2. CASE j = k
          <6>1. n + 1 \in Nat /\ n + 1 <= N
            BY <2>2, <2>4, <3>4, <4>1, <5>2
          <6> QED
            BY <1>3, <2>3, <2>5, <5>2, <6>1
        <5> QED
          BY <5>1, <5>2
      <4>2. Covers(G, i, T, p, matchIndex'[i], n, W)
        BY <3>3, <4>1 DEF Covers
      <4> QED
        BY <3>2, <4>2
    <3>5. CASE n = N /\ x = N
      <4> DEFINE V == W \cup {k}
      <4>1. ReceiveSuccess(c, k)
        <5> SUFFICES ASSUME FinishCommit(c, k) PROVE FALSE
          BY <1>10 DEF Succeeds
        <5>1. commitIndex'[i] = N
          BY <1>1, <1>10 DEF FinishCommit, TypeOK, N
        <5> QED
          BY <1>2, <2>8, <3>5, <5>1
      <4>2. ~operator[c].committed
        <5> SUFFICES ASSUME operator[c].committed PROVE FALSE
          OBVIOUS
        <5>1. N <= commitIndex[i]
          BY <1>10 DEF CommittedIsBehind, N
        <5> QED
          BY <1>2, <1>6, <2>8, <3>5, <5>1
      <4>3. ~IsMajority(operator[c].count + 1)
        <5> SUFFICES ASSUME IsMajority(operator[c].count + 1) PROVE FALSE
          OBVIOUS
        <5>1. thread'[c][k].phase = "applying"
          <6>1. thread[c][k] \in Thread
            BY <1>1 DEF TypeOK
          <6>2. PICK a : thread' = [thread EXCEPT ![c][k] =
                          [@ EXCEPT !.phase = "applying", !.applied = a]]
            BY <4>1, <4>2 DEF ReceiveSuccess
          <6>3. thread'[c][k] = [thread[c][k] EXCEPT !.phase = "applying",
                                                     !.applied = a]
            BY <1>1, <6>2 DEF TypeOK
          <6> QED
            BY <6>1, <6>3 DEF Thread
        <5>2. thread'[c][k] = NoThread
          BY <1>1, <1>10 DEF Succeeds, End, TypeOK
        <5> QED
          BY <5>1, <5>2 DEF NoThread
      <4>4. operator'[c].count = operator[c].count + 1
        BY <1>1, <4>1, <4>2 DEF ReceiveSuccess, TypeOK, Operator
      <4>5. /\ operator[c].count \in Nat /\ Cardinality(W) \in Nat
            /\ IsFiniteSet(W)
            /\ Cardinality(V) \in {Cardinality(W), Cardinality(W) + 1}
        <5>1. IsFiniteSet(W) /\ Cardinality(W) \in Nat
          BY NodesAreFinite
        <5>2. operator[c].count \in Nat
          BY <1>1 DEF TypeOK, Operator
        <5> QED
          BY <5>1, <5>2, FS_AddElement
      <4>6. Cardinality(W) <= operator[c].count
        <5>1. Active(c)
          BY <2>2 DEF Active
        <5> QED
          BY <1>10, <3>1, <3>5, <5>1 DEF Few, N
      <4>7. Cardinality(V) \in Nat /\ Cardinality(V) <= operator'[c].count
        BY <4>4, <4>5, <4>6
      <4>8. ~IsMajority(Cardinality(V))
        BY <4>3, <4>4, <4>5, <4>7, NumPeersAssumption DEF IsMajority
      <4>9. ASSUME NEW d \in Command, operator'[d].leader = i, Active(d)'
            PROVE  d = c
        <5>1. ~\E q \in Node : Start(q, d)
          BY <2>3
        <5>2. Active(d) /\ operator'[d].leader = operator[d].leader
          BY <1>1, <4>9, <5>1, ActiveWas
        <5>3. \E q \in Node : UnderWay(thread[d][q])
          BY <5>2 DEF Active
        <5> QED
          BY <1>1, <1>10, <2>2, <4>9, <5>2, <5>3 DEF OneCommand
      <4>10. Few(i, n, V)'
        BY <4>7, <4>8, <4>9
           DEF Few, Active, UnderWay, NoThread, NoMessage, IsMajority, Command,
               Node
      <4>11. Covers(G, i, T, p, matchIndex'[i], n, V)
        BY <2>3, <2>4, <3>3 DEF Covers
      <4>12. V \in SUBSET Node
        OBVIOUS
      <4> QED
        BY <4>10, <4>11, <4>12
    <3> QED
      BY <3>4, <3>5
  <2>9. Fits(T, p)
    BY <2>3, <2>6, <2>7, <2>8
  <2> QED
    BY <2>9
<1> QED
  BY <1>1, <1>7, <1>8, <1>9, <1>10, IndexesMove DEF IndexesAfter

LEMMA SpreadInit ==
  ASSUME Init, NEW H, NEW i \in Node
  PROVE  Spread(H, i)
<1> DEFINE id == [a \in Node |-> a]
<1>1. id \in OneToOne /\ 0 \in Nat
  BY DEF OneToOne
<1>2. /\ role[i] # "LEADER" /\ commitIndex[i] = 0
      /\ \A j \in Node : matchIndex[i][j] = 0
      /\ \A c \in Command, j \in Node : thread[c][j] = NoThread
  BY DEF Init
<1>3. Matches(H, i, 0, id, matchIndex[i])
  BY <1>2 DEF Matches
<1>4. ASSUME NEW n \in Nat, n > commitIndex[i]
      PROVE  Few(i, n, {i}) /\ Covers(H, i, 0, id, matchIndex[i], n, {i})
  <2>1. \A c \in Command : ~Active(c)
    BY <1>2 DEF Active, UnderWay
  <2>2. Few(i, n, {i})
    BY <2>1, AloneIsFew DEF Few
  <2>3. Covers(H, i, 0, id, matchIndex[i], n, {i})
    BY <1>2, <1>4 DEF Covers
  <2> QED
    BY <2>2, <2>3
<1>5. \A n \in Nat : n > commitIndex[i] =>
        \E W \in SUBSET Node :
          Few(i, n, W) /\ Covers(H, i, 0, id, matchIndex[i], n, W)
  BY <1>4
<1> QED
  BY <1>1, <1>2, <1>3, <1>5 DEF Spread

-----------------------------------------------------------------------------
(***************************************************************************)
(* probNSituation commits nothing.                                         *)
(***************************************************************************)

(* Those of a majority that are not of a few, and one more, leave no       *)
(* majority without them.  Of seven nodes they would.                      *)
LEMMA NoneWithoutThem ==
  ASSUME NumPeers < 7, NEW i \in Node, NEW W \in SUBSET Node, i \in W,
         ~IsMajority(Cardinality(W)),
         NEW Q \in SUBSET Node, i \notin Q, IsMajority(Cardinality(Q)),
         NEW B \in SUBSET Node, IsMajority(Cardinality(B))
  PROVE  Q \ W # {} /\ \E q \in B : q = i \/ q \in Q \ W
<1> DEFINE R == Q \ W
           V == W \ {i}
           X == R \cup {i}
<1>1. /\ IsFiniteSet(W) /\ IsFiniteSet(Q) /\ IsFiniteSet(B) /\ IsFiniteSet(R)
      /\ IsFiniteSet(V) /\ IsFiniteSet(X) /\ IsFiniteSet(Node)
      /\ Cardinality(W) \in Nat /\ Cardinality(Q) \in Nat
      /\ Cardinality(B) \in Nat /\ Cardinality(R) \in Nat
      /\ Cardinality(V) \in Nat /\ Cardinality(X) \in Nat
      /\ Cardinality(Node) = NumPeers
  <2>1. R \in SUBSET Node /\ V \in SUBSET Node /\ X \in SUBSET Node
    OBVIOUS
  <2> QED
    BY <2>1, NodesAreFinite
<1>2. Cardinality(V) = Cardinality(W) - 1
  BY <1>1, FS_RemoveElement
<1>3. Cardinality(Q) <= Cardinality(R) + Cardinality(V)
  <2>1. Q \subseteq R \cup V
    OBVIOUS
  <2>2. /\ IsFiniteSet(R \cup V)
        /\ Cardinality(R \cup V)
             = Cardinality(R) + Cardinality(V) - Cardinality(R \cap V)
    BY <1>1, FS_Union
  <2>3. Cardinality(R \cap V) = 0
    <3>1. R \cap V = {}
      OBVIOUS
    <3> QED
      BY <3>1, FS_EmptySet
  <2>4. Cardinality(R \cup V) = Cardinality(R) + Cardinality(V)
    <3> HIDE DEF R, V
    <3> QED
      BY <1>1, <2>2, <2>3
  <2>5. Cardinality(Q) <= Cardinality(R \cup V)
    BY <2>1, <2>2, FS_Subset
  <2> QED
    BY <2>4, <2>5
<1>4. Cardinality(X) = Cardinality(R) + 1
  BY <1>1, FS_AddElement
<1> HIDE DEF R, V, X
<1>5. Cardinality(R) >= 2
  BY <1>1, <1>2, <1>3, NumPeersAssumption DEF IsMajority
<1>6. R # {}
  BY <1>5, FS_EmptySet
<1>7. Cardinality(B) + Cardinality(X) > Cardinality(Node)
  BY <1>1, <1>4, <1>5, NumPeersAssumption DEF IsMajority
<1>8. X \subseteq Node
  BY DEF X, R
<1>9. B \cap X # {}
  BY <1>1, <1>7, <1>8, FS_MajoritiesIntersect
<1> QED
  BY <1>6, <1>9 DEF X, R

LEMMA EndCommitsNothing ==
  ASSUME NumPeers < 7, Races = {}, NEW H, CommitInv(H),
         NEW c \in Command, NEW k \in Node, ThreadEnds(c, k),
         Spread(H, operator[c].leader)
  PROVE  UNCHANGED commitIndex
<1> DEFINE i == operator[c].leader
<1>1. /\ StayInv(H) /\ LogInv(H) /\ TypeInv /\ TypeOK /\ PastHolds(H)
      /\ H \subseteq Moment
  BY PastKnown DEF CommitInv, StayInv, PastHolds
<1>2. i \in Node
  <2>1. thread[c][k].phase # "none"
    BY DEF ThreadEnds
  <2> QED
    BY <1>1, <2>1, PhaseUnderWay
<1>3. role[i] # "LEADER"
  BY DEF ThreadEnds
<1>4. PICK g \in Sorted(matchIndex[i]) :
        commitIndex' = [commitIndex EXCEPT ![i] =
          IF /\ g[Middle] > commitIndex[i] /\ g[Middle] + 1 <= Len(log[i])
             /\ log[i][g[Middle] + 1].term = currentTerm[i]
          THEN g[Middle] ELSE commitIndex[i]]
  BY DEF ThreadEnds
<1>5. PICK T \in Nat, p \in OneToOne :
        /\ Matches(H, i, T, p, matchIndex[i])
        /\ \A j \in Node : matchIndex[i][j] > 0 => p[j] # i
        /\ \A n \in Nat : n > commitIndex[i] =>
             \E W \in SUBSET Node :
               Few(i, n, W) /\ Covers(H, i, T, p, matchIndex[i], n, W)
  BY DEF Spread
<1> HIDE DEF i
<1>6. /\ matchIndex[i] \in [Node -> Int] /\ commitIndex[i] \in Nat
      /\ log[i] \in Seq(Entry) /\ Len(log[i]) \in Nat
      /\ currentTerm[i] \in Nat /\ g[Middle] \in Int
  <2>1. matchIndex[i] \in [Node -> Int] /\ commitIndex[i] \in Nat
        /\ log[i] \in Seq(Entry) /\ currentTerm[i] \in Nat
    BY <1>1, <1>2 DEF TypeOK
  <2>2. g[Middle] \in Int
    BY <2>1, MiddleIsNode DEF Sorted
  <2> QED
    BY <2>1, <2>2, LenProperties
<1> DEFINE N == g[Middle]
<1> HIDE DEF N
<1>7. ASSUME N > commitIndex[i], N + 1 <= Len(log[i]),
             log[i][N + 1].term = currentTerm[i]
      PROVE  FALSE
  <2>1. N \in Nat /\ N > 0 /\ N + 1 \in Nat /\ N + 1 \in 1 .. Len(log[i])
    BY <1>6, <1>7 DEF N
  <2>2. PICK W \in SUBSET Node :
          Few(i, N, W) /\ Covers(H, i, T, p, matchIndex[i], N, W)
    BY <1>5, <1>7, <2>1
  <2>3. PICK r \in OneToOne :
          /\ Matches(H, i, T, r, g)
          /\ \A j \in Node : g[j] > 0 => r[j] # i
          /\ Covers(H, i, T, r, g, N, W)
    BY <1>4, <1>5, <1>6, <2>2, SortedCovers
  <2> DEFINE Q == {r[a] : a \in Middle .. NumPeers - 1}
  <2>4. Q \in SUBSET Node /\ IsMajority(Cardinality(Q))
    BY UpperHalf
  <2>5. ASSUME NEW q \in Q
        PROVE  /\ q # i
               /\ q \in W \/ /\ Accepted(H, q, T, N + 1)
                             /\ Accepted(H, i, T, N + 1)
    <3>1. PICK a \in Middle .. NumPeers - 1 : q = r[a]
      OBVIOUS
    <3>2. /\ Middle \in Node /\ a \in Node /\ Middle \in Int /\ a \in Int
          /\ Middle <= a
      BY MiddleIsNode, NumPeersAssumption DEF Node
    <3>3. /\ a = Middle \/ Middle < a
          /\ g[a] \in Int /\ g[Middle] \in Int
          /\ \A b, d \in Node : b < d => g[b] <= g[d]
      <4>1. matchIndex[i][a] \in Int /\ {matchIndex[i][b] : b \in Node} \subseteq Int
        BY <1>6, <3>2
      <4>2. /\ g \in [Node -> {matchIndex[i][b] : b \in Node}]
            /\ \A b, d \in Node : b < d => g[b] <= g[d]
        BY DEF Sorted
      <4>3. a = Middle \/ Middle < a
        BY <3>2
      <4> QED
        BY <3>2, <4>1, <4>2, <4>3
    <3>4. g[a] >= N /\ g[a] > 0
      BY <2>1, <3>2, <3>3 DEF N
    <3> QED
      BY <2>3, <3>1, <3>2, <3>4 DEF Covers
  <2> HIDE DEF Q
  <2>6. /\ i \in W /\ i \notin Q /\ ~IsMajority(Cardinality(W))
    BY <2>2, <2>5 DEF Covers, Few
  <2>7. ~Blocked(H, T, N + 1)
    <3> SUFFICES ASSUME Blocked(H, T, N + 1) PROVE FALSE
      OBVIOUS
    <3>1. PICK B \in SUBSET Node :
            /\ IsMajority(Cardinality(B))
            /\ \A q \in B : ~Accepted(H, q, T, N + 1)
      BY DEF Blocked
    <3>2. Q \ W # {} /\ \E q \in B : q = i \/ q \in Q \ W
      BY <1>2, <2>4, <2>6, <3>1, NoneWithoutThem
    <3> QED
      BY <2>5, <3>1, <3>2
  <2>8. Complete(H, T, N + 1)
    BY <1>1, <2>1, <2>7 DEF StayInv, Settled
  <2>9. T < currentTerm[i]
    <3>1. Led(H, i, T)
      BY <1>1, <1>4, <1>5, <1>6, <2>1, MiddleIsSafe DEF N
    <3>2. PICK h \in H : h.node = i /\ h.term = T /\ h.role = "LEADER"
      BY <3>1 DEF Led
    <3>3. T # currentTerm[i]
      BY <1>1, <1>3, <3>2 DEF LogInv, LeadersHold
    <3>4. T <= currentTerm[i]
      BY <1>1, <3>2 DEF PastHolds
    <3> QED
      BY <1>6, <3>3, <3>4
  <2>10. PICK h \in H : h.log = log[i]
    BY <1>1, <1>2, NowStays
  <2>11. HasFrom(log[i], N + 1, T)
    BY <1>6, <1>7, <2>1, <2>8, <2>9, <2>10 DEF Complete
  <2>12. PICK m \in 1 .. Len(log[i]) : N + 1 <= m /\ log[i][m].term = T
    BY <2>11 DEF HasFrom
  <2>13. log[i][N + 1].term <= log[i][m].term
    <3>1. Ascends(log[i], h.term)
      BY <1>1, <2>10 DEF StayInv, Ordered
    <3>2. N + 1 \in 1 .. m
      BY <1>6, <2>1, <2>12
    <3> QED
      BY <3>1, <3>2 DEF Ascends
  <2> QED
    BY <1>6, <1>7, <2>9, <2>12, <2>13
<1>8. commitIndex' = [commitIndex EXCEPT ![i] = commitIndex[i]]
  BY <1>4, <1>7 DEF N
<1> QED
  BY <1>1, <1>2, <1>8 DEF TypeOK

-----------------------------------------------------------------------------
(***************************************************************************)
(* What a node has applied, and what it takes to be applied.               *)
(***************************************************************************)

(* Node i has applied what is at the indexes up to a.                      *)
AppliedUpTo(i, a) == \A n \in Command : n <= a => logs[i][n] # 0

(* Where the loop of its handler is, or the commit index.                  *)
Reached(i) == IF handler[i] # None THEN handler[i] ELSE commitIndex[i]

ReachedHolds(i) == AppliedUpTo(i, Reached(i)) /\ AppliedUpTo(i, lastApplied[i])

(* So has a thread that applies, where it has come to.                     *)
ApplyingHolds(c, k) ==
  thread[c][k].phase = "applying" =>
    AppliedUpTo(operator[c].leader, thread[c][k].applied)

(* The first k places of s are filled, and no others.                      *)
Filled(s, k) == \A n \in Command : s[n] # 0 <=> n <= k

(* Node i has applied what any node has.                                   *)
HasMost(i) == \A j \in Node, n \in Command : logs[j][n] # 0 => logs[i][n] # 0

(* A command is in the logs at the index its operator has, or not at all.  *)
Placed(H) ==
  \A s \in LogsOf(H) : \A n \in 1 .. Len(s) : operator[s[n].command].index = n

OrderInv(H) ==
  /\ CommitInv(H)
  /\ \A i \in Node : Spread(H, i)
  /\ \A c \in Command : CommittedIsBehind(c)
  /\ \A i \in Node : ReachedHolds(i)
  /\ \A c \in Command, k \in Node : ApplyingHolds(c, k)
  /\ \A i \in Node : \E k \in 0 .. MaxCommand : Filled(logs[i], k)
  /\ \E i \in Node : HasMost(i)
  /\ Placed(H)

(* The one after what is applied is applied, and is of the log.            *)
Applies(H, i, a) ==
  /\ a \in Nat /\ a > 0 /\ a <= Len(log[i])
  /\ Apply(i, log[i], a - 1, a)
  /\ Durable(H, log[i], a)
  /\ AppliedUpTo(i, a - 1)

LEMMA ThreadApplies ==
  ASSUME NEW H, OrderInv(H), NEW c \in Command, NEW k \in Node, ApplyNext(c, k)
  PROVE  LET i == operator[c].leader
             a == thread[c][k].applied + 1
         IN  /\ i \in Node /\ Applies(H, i, a)
             /\ thread' = [thread EXCEPT ![c][k] = [@ EXCEPT !.applied = a]]
<1> DEFINE i == operator[c].leader
           N == operator[c].index
           a == thread[c][k].applied + 1
<1>1. CommitInv(H) /\ TypeOK /\ H \subseteq Moment
  BY PastKnown DEF OrderInv, CommitInv, StayInv, PastHolds
<1>2. /\ thread[c][k].phase = "applying" /\ a <= N
      /\ IF a <= Len(log[i])
         THEN /\ Apply(i, log[i], a - 1, a)
              /\ thread' = [thread EXCEPT ![c][k] = [@ EXCEPT !.applied = a]]
         ELSE thread' = End(c, k) /\ UNCHANGED logs
  BY DEF ApplyNext
<1>3. i \in Node /\ N \in Nat /\ Len(log[i]) = N /\ Durable(H, log[i], N)
  BY <1>1, <1>2, ApplyingIsDurable
<1>4. thread[c][k].applied \in Nat
  BY <1>1 DEF TypeOK, Thread
<1>5. AppliedUpTo(i, a - 1)
  BY <1>2, <1>4 DEF OrderInv, ApplyingHolds
<1>6. a \in Nat /\ a > 0
  BY <1>4
<1> HIDE DEF i, a, N
<1>7. Durable(H, log[i], a)
  BY <1>1, <1>2, <1>3, <1>6, DurableBelow
<1> QED
  BY <1>2, <1>3, <1>5, <1>6, <1>7 DEF Applies, i, a

LEMMA HandlerAppliesNext ==
  ASSUME NEW H, OrderInv(H), NEW i \in Node, HandlerApplies(i)
  PROVE  LET a == handler[i] + 1
         IN  /\ Applies(H, i, a) /\ handler[i] # None /\ a <= commitIndex[i]
             /\ handler' = [handler EXCEPT ![i] = a] /\ UNCHANGED thread
<1> DEFINE a == handler[i] + 1
<1>1. CommitInv(H) /\ TypeOK /\ H \subseteq Moment
  BY PastKnown DEF OrderInv, CommitInv, StayInv, PastHolds
<1>2. /\ handler[i] # None /\ a <= commitIndex[i]
      /\ a <= Len(log[i]) => /\ Apply(i, log[i], a - 1, a)
                             /\ handler' = [handler EXCEPT ![i] = a]
                             /\ UNCHANGED thread
  BY DEF HandlerApplies
<1>3. /\ handler[i] \in Nat /\ commitIndex[i] \in Nat /\ a \in Nat /\ a > 0
      /\ Len(log[i]) \in Nat
  <2>1. handler[i] \in Nat /\ commitIndex[i] \in Nat /\ log[i] \in Seq(Entry)
    BY <1>1, <1>2 DEF TypeOK
  <2> QED
    BY <2>1, LenProperties
<1>4. AppliedUpTo(i, a - 1)
  <2>1. a - 1 = Reached(i)
    BY <1>2, <1>3 DEF Reached
  <2> QED
    BY <2>1 DEF OrderInv, ReachedHolds
<1> HIDE DEF a
<1>5. Durable(H, log[i], commitIndex[i])
  BY <1>1, <1>2, <1>3 DEF CommitInv
<1>6. Durable(H, log[i], a)
  BY <1>1, <1>2, <1>3, <1>5, DurableBelow
<1>7. a <= Len(log[i])
  BY <1>3, <1>6, DurableIsThere
<1> QED
  BY <1>2, <1>3, <1>4, <1>6, <1>7 DEF Applies, a

LEMMA WhatIsApplied ==
  ASSUME NEW H, OrderInv(H), [Next]_vars
  PROVE  \/ UNCHANGED logs
         \/ \E i \in Node, a \in Nat :
              Applies(H, i, a) /\ UNCHANGED <<log, operator>>
<1>1. ASSUME NEW c \in Command, NEW k \in Node, ApplyNext(c, k)
      PROVE  \E i \in Node, a \in Nat :
               Applies(H, i, a) /\ UNCHANGED <<log, operator>>
  <2>1. UNCHANGED <<log, operator>>
    BY <1>1 DEF ApplyNext
  <2> QED
    BY <1>1, <2>1, ThreadApplies DEF Applies
<1>2. ASSUME NEW i \in Node, HandlerApplies(i)
      PROVE  \E a \in Nat : Applies(H, i, a) /\ UNCHANGED <<log, operator>>
  <2>1. UNCHANGED <<log, operator>>
    BY <1>2 DEF HandlerApplies
  <2> QED
    BY <1>2, <2>1, HandlerAppliesNext DEF Applies
<1> QED
  BY <1>1, <1>2, AppliedSteps

(* What is applied is applied for good, and what was applied before it     *)
(* makes it reach further.                                                 *)
LEMMA AppliedGrows ==
  ASSUME NEW H, OrderInv(H), [Next]_vars
  PROVE  /\ \A j \in Node, n \in Command : logs[j][n] # 0 => logs'[j][n] # 0
         /\ \A i \in Node, a \in Nat : Applies(H, i, a) =>
              \A n \in Command : n <= a => logs'[i][n] # 0
<1>1. TypeOK /\ CommitInv(H)
  BY PastKnown DEF OrderInv, CommitInv, StayInv
<1>2. ASSUME NEW i \in Node, NEW n \in Command, n <= Len(log[i])
      PROVE  log[i][n].command # 0
  <2>1. log[i] \in Seq(Entry) /\ Len(log[i]) \in Nat /\ n \in 1 .. Len(log[i])
    BY <1>1, <1>2, CommandsAreNumbers, LenProperties DEF TypeOK
  <2>2. log[i][n] \in Entry
    BY <2>1, ElementOfSeq
  <2> QED
    BY <2>2, CommandsAreNumbers DEF Entry, Idle
<1>3. ASSUME NEW j \in Node, NEW n \in Command, logs[j][n] # 0
      PROVE  logs'[j][n] # 0
  BY <1>1, <1>2, <1>3, NewlyApplied
<1>4. ASSUME NEW i \in Node, NEW a \in Nat, Applies(H, i, a),
             NEW n \in Command, n <= a
      PROVE  logs'[i][n] # 0
  <2>1. CASE n = a
    <3> DEFINE after == [m \in Command |-> IF a - 1 < m /\ m <= a
                                     THEN log[i][m].command ELSE logs[i][m]]
    <3>1. logs' = [logs EXCEPT ![i] = after]
      BY <1>4 DEF Applies, Apply
    <3>2. after[n] = log[i][n].command
      BY <2>1, CommandsAreNumbers
    <3> HIDE DEF after
    <3>3. logs'[i][n] = log[i][n].command
      BY <1>1, <3>1, <3>2 DEF TypeOK
    <3> QED
      BY <1>2, <1>4, <2>1, <3>3 DEF Applies
  <2>2. CASE n # a
    <3>1. n <= a - 1
      BY <1>4, <2>2, CommandsAreNumbers
    <3>2. logs[i][n] # 0
      BY <1>4, <3>1 DEF Applies, AppliedUpTo
    <3> QED
      BY <1>3, <3>2
  <2> QED
    BY <2>1, <2>2
<1> QED
  BY <1>3, <1>4

(* An entry that a node has not applied yet is the one after those it has. *)
LEMMA AppliesDoes ==
  ASSUME NEW H, OrderInv(H), NEW i \in Node, NEW a \in Nat, Applies(H, i, a)
  PROVE  \/ UNCHANGED logs
         \/ LET v == log[i][a].command
            IN  /\ a \in Command /\ v \in Command /\ logs[i][a] = 0
                /\ logs' = [logs EXCEPT ![i] = [logs[i] EXCEPT ![a] = v]]
                /\ Filled(logs[i], a - 1)
<1> DEFINE v == log[i][a].command
           after == [n \in Command |-> IF a - 1 < n /\ n <= a
                                     THEN log[i][n].command ELSE logs[i][n]]
<1>1. /\ TypeOK /\ CommitInv(H)
      /\ logs[i] \in [Command -> Command \cup {Idle}]
      /\ logs \in [Node -> [Command -> Command \cup {Idle}]]
  BY PastKnown DEF OrderInv, CommitInv, StayInv, TypeOK
<1>2. v \in Command
  <2>1. log[i] \in Seq(Entry) /\ Len(log[i]) \in Nat /\ a \in 1 .. Len(log[i])
    BY <1>1, LenProperties DEF TypeOK, Applies
  <2>2. log[i][a] \in Entry
    BY <2>1, ElementOfSeq
  <2> QED
    BY <2>2 DEF Entry
<1>3. logs' = [logs EXCEPT ![i] = after]
  BY DEF Applies, Apply
<1>4. \A n \in Command : after[n] = IF n = a THEN v ELSE logs[i][n]
  BY CommandsAreNumbers
<1> HIDE DEF v
<1>5. after = IF a \in Command THEN [logs[i] EXCEPT ![a] = v] ELSE logs[i]
  <2>1. CASE a \in Command
    <3>1. \A n \in Command : [logs[i] EXCEPT ![a] = v][n]
                                = IF n = a THEN v ELSE logs[i][n]
      BY <1>1, <2>1
    <3> QED
      BY <1>1, <1>4, <2>1, <3>1
  <2>2. CASE a \notin Command
    BY <1>1, <1>4, <2>2
  <2> QED
    BY <2>1, <2>2
<1> HIDE DEF after
<1>6. CASE a \notin Command
  BY <1>1, <1>3, <1>5, <1>6
<1>7. CASE a \in Command /\ logs[i][a] # 0
  <2>1. logs[i][a] = v
    BY <1>1, <1>7 DEF CommitInv, AppliedHolds, v
  <2> QED
    BY <1>1, <1>3, <1>5, <1>7, <2>1
<1>8. CASE a \in Command /\ logs[i][a] = 0
  <2>1. PICK k \in 0 .. MaxCommand : Filled(logs[i], k)
    BY DEF OrderInv
  <2>2. ~(a <= k) /\ k \in Nat
    BY <1>8, <2>1, BoundsAssumption DEF Filled
  <2>3. ASSUME NEW n \in Command PROVE logs[i][n] # 0 <=> n <= a - 1
    <3>1. n \in Nat /\ a \in Nat
      BY CommandsAreNumbers
    <3>2. CASE n <= a - 1
      BY <3>2 DEF Applies, AppliedUpTo
    <3>3. CASE ~(n <= a - 1)
      <4>1. ~(n <= k)
        BY <2>2, <3>1, <3>3
      <4> QED
        BY <2>1, <3>3, <4>1 DEF Filled
    <3> QED
      BY <3>2, <3>3
  <2> QED
    BY <1>2, <1>3, <1>5, <1>8, <2>3 DEF v, Filled
<1> QED
  BY <1>6, <1>7, <1>8

LEMMA FilledNext ==
  ASSUME NEW H, OrderInv(H), [Next]_vars
  PROVE  /\ \A j \in Node : \E k \in 0 .. MaxCommand : Filled(logs'[j], k)
         /\ (\E i \in Node : HasMost(i))'
<1>1. PICK t \in Node : HasMost(t)
  BY DEF OrderInv
<1>2. /\ TypeOK
      /\ logs \in [Node -> [Command -> Command \cup {Idle}]]
  BY PastKnown DEF OrderInv, CommitInv, StayInv, TypeOK
<1>3. CASE UNCHANGED logs
  BY <1>1, <1>3 DEF OrderInv, HasMost, Node, Command
<1>4. ASSUME NEW i \in Node, NEW a \in Command, NEW v \in Command,
             logs[i][a] = 0, Filled(logs[i], a - 1),
             logs' = [logs EXCEPT ![i] = [logs[i] EXCEPT ![a] = v]]
      PROVE  /\ \A j \in Node : \E k \in 0 .. MaxCommand : Filled(logs'[j], k)
             /\ (\E j \in Node : HasMost(j))'
  <2>1. /\ \A j \in Node : j # i => logs'[j] = logs[j]
        /\ \A n \in Command : logs'[i][n] = IF n = a THEN v ELSE logs[i][n]
    BY <1>2, <1>4
  <2>2. v # 0 /\ a \in Nat /\ a \in 0 .. MaxCommand
    BY CommandsAreNumbers DEF Command, Idle
  <2>3. Filled(logs'[i], a)
    <3> SUFFICES ASSUME NEW n \in Command PROVE logs'[i][n] # 0 <=> n <= a
      BY DEF Filled
    <3>1. n <= a <=> n = a \/ n <= a - 1
      BY <2>2, CommandsAreNumbers
    <3> QED
      BY <1>4, <2>1, <2>2, <3>1 DEF Filled
  <2>4. \A j \in Node : \E k \in 0 .. MaxCommand : Filled(logs'[j], k)
    BY <2>1, <2>2, <2>3 DEF OrderInv
  <2>5. CASE logs[t][a] # 0
    <3>1. \A j \in Node, n \in Command : logs'[j][n] # 0 => logs'[t][n] # 0
      BY <1>1, <2>1, <2>2, <2>5 DEF HasMost
    <3> QED
      BY <2>4, <3>1 DEF HasMost, Node, Command
  <2>6. CASE logs[t][a] = 0
    <3>1. PICK k \in 0 .. MaxCommand : Filled(logs[t], k)
      BY DEF OrderInv
    <3>2. ~(a <= k) /\ k \in Nat
      BY <2>6, <3>1, BoundsAssumption DEF Filled
    <3>3. ASSUME NEW j \in Node, NEW n \in Command, logs'[j][n] # 0
          PROVE  logs'[i][n] # 0
      <4>1. CASE n = a
        BY <2>1, <2>2, <4>1
      <4>2. CASE n # a
        <5>1. logs[t][n] # 0
          BY <1>1, <2>1, <3>3, <4>2 DEF HasMost
        <5>2. n <= k
          BY <3>1, <5>1 DEF Filled
        <5>3. n <= a - 1
          BY <2>2, <3>2, <5>2, CommandsAreNumbers
        <5> QED
          BY <1>4, <2>1, <2>2, <5>3 DEF Filled
      <4> QED
        BY <4>1, <4>2
    <3> QED
      BY <2>4, <3>3 DEF HasMost, Node, Command
  <2> QED
    BY <2>5, <2>6
<1>5. ASSUME NEW i \in Node, NEW a \in Nat, Applies(H, i, a)
      PROVE  /\ \A j \in Node : \E k \in 0 .. MaxCommand : Filled(logs'[j], k)
             /\ (\E j \in Node : HasMost(j))'
  BY <1>3, <1>4, <1>5, AppliesDoes
<1> QED
  BY <1>3, <1>5, WhatIsApplied

(* A client's call starts a command that had no operator.                  *)
LEMMA StartsAtNone ==
  ASSUME NEW c \in Command, NEW i \in Node, Start(i, c)
  PROVE  operator[c] = NoOperator /\ operator[c].index = 0
<1>1. operator[c] = NoOperator
  BY DEF Start
<1> QED
  BY <1>1 DEF NoOperator

LEMMA PlacedNext ==
  ASSUME NEW H, LogInv(H), Placed(H), [Next]_vars,
         NEW G, G = H \cup {Now(q)' : q \in Node}
  PROVE  Placed(G)'
<1>1. TypeInv /\ TypeOK
  BY PastKnown
<1> SUFFICES ASSUME NEW s \in LogsOf(G), NEW n \in 1 .. Len(s)
             PROVE  operator'[s[n].command].index = n
  BY DEF Placed, LogsOf
<1>2. ASSUME NEW r \in LogsOf(H), n \in 1 .. Len(r), s[n] = r[n]
      PROVE  operator'[s[n].command].index = n
  <2> DEFINE c == r[n].command
  <2>1. c \in Command
    <3>1. r \in Seq(Entry) /\ Len(r) \in Nat
      BY PastKnown
    <3>2. r[n] \in Entry
      BY <1>2, <3>1, ElementOfSeq
    <3> QED
      BY <3>2 DEF Entry
  <2>2. operator[c].index = n /\ n > 0
    BY <1>2 DEF Placed
  <2> HIDE DEF c
  <2>3. ~ \E i \in Node : Start(i, c)
    BY <2>1, <2>2, StartsAtNone
  <2>4. operator'[c].index = n
    BY <1>1, <2>1, <2>2, <2>3, CountersMove
  <2> QED
    BY <1>2, <2>4 DEF c
<1>3. ASSUME NEW r \in LogsOf(H), Extends(r, s)
      PROVE  operator'[s[n].command].index = n
  <2>1. n \in 1 .. Len(r) /\ s[n] = r[n]
    <3>1. Len(r) \in Nat
      BY PastKnown
    <3> QED
      BY <1>3, <3>1 DEF Extends
  <2> QED
    BY <1>2, <2>1
<1>4. ASSUME NEW i \in Node, NEW c \in Command, Start(i, c), s = log'[i]
      PROVE  operator'[s[n].command].index = n
  <2>1. log[i] \in LogsOf(H) /\ log[i] \in Seq(Entry) /\ Len(log[i]) \in Nat
        /\ currentTerm[i] \in Nat
    BY PastKnown, LenProperties
  <2> DEFINE e == [term |-> currentTerm[i], command |-> c]
  <2>2. s = Append(log[i], e)
    BY <1>1, <1>4 DEF Start, TypeOK
  <2>3. e \in Entry /\ e.command = c
    BY <2>1 DEF Entry
  <2> HIDE DEF e
  <2>4. /\ Len(s) = Len(log[i]) + 1 /\ s[Len(log[i]) + 1] = e
        /\ \A m \in 1 .. Len(log[i]) : s[m] = log[i][m]
    BY <2>1, <2>2, <2>3, AppendProperties
  <2>5. CASE n = Len(log[i]) + 1
    <3>1. operator'[c].index = Len(log'[i])
      BY <1>1, <1>4, StartThreads
    <3> QED
      BY <1>4, <2>3, <2>4, <2>5, <3>1
  <2>6. CASE n # Len(log[i]) + 1
    <3>1. n \in 1 .. Len(log[i]) /\ s[n] = log[i][n]
      BY <2>1, <2>4, <2>6
    <3> QED
      BY <1>2, <2>1, <3>1
  <2> QED
    BY <2>5, <2>6
<1> QED
  BY <1>3, <1>4, PastLogs

(* What becomes of a thread that applies after a step.                     *)
LEMMA ApplyingMoves ==
  ASSUME NEW H, OrderInv(H), [Next]_vars, Races = {},
         NEW c \in Command, NEW k \in Node, thread'[c][k].phase = "applying"
  PROVE  \/ /\ thread[c][k].phase = "applying"
            /\ thread'[c][k].applied = thread[c][k].applied
         \/ ApplyNext(c, k)
         \/ /\ ReceiveSuccess(c, k)
            /\ thread'[c][k].applied = lastApplied[operator[c].leader]
<1>1. /\ TypeInv /\ TypeOK /\ CommitInv(H) /\ StayInv(H)
      /\ thread[c][k] \in Thread
  BY PastKnown DEF OrderInv, CommitInv, StayInv, TypeOK
<1>2. UnderWay(thread'[c][k])
  BY DEF UnderWay, NoThread
<1>3. ~ \E i \in Node : Start(i, c)
  BY <1>1, <1>2, StartThreads
<1>4. ~DeliverAppend(c, k)
  <2> SUFFICES ASSUME DeliverAppend(c, k) PROVE FALSE
    OBVIOUS
  <2> DEFINE m == thread[c][k].message
  <2>1. thread' = [thread EXCEPT ![c][k] = [@ EXCEPT
          !.phase = IF Advances(k, m) THEN "handled" ELSE "replied",
          !.message = NoMessage,
          !.replyTerm = ReplyTerm(k, m),
          !.success = Accepts(k, m)]]
    BY DEF DeliverAppend
  <2>2. thread'[c][k].phase \in {"handled", "replied"}
    BY <1>1, <2>1 DEF TypeOK, Thread
  <2> QED
    BY <2>2
<1>5. CASE ReceiveSuccess(c, k)
  <2>1. \/ thread' = End(c, k)
        \/ thread' = [thread EXCEPT ![c][k] = [@ EXCEPT
             !.phase = "applying", !.applied = lastApplied[operator[c].leader]]]
    BY <1>5 DEF ReceiveSuccess, AppliesFrom
  <2>2. thread' # End(c, k)
    <3> SUFFICES ASSUME thread' = End(c, k) PROVE FALSE
      OBVIOUS
    <3>1. thread'[c][k] = NoThread
      BY <1>1 DEF End, TypeOK
    <3> QED
      BY <1>2, <3>1, ThreadEnded
  <2>3. thread'[c][k] = [thread[c][k] EXCEPT
          !.phase = "applying", !.applied = lastApplied[operator[c].leader]]
    BY <1>1, <2>1, <2>2 DEF TypeOK
  <2>4. thread'[c][k].applied = lastApplied[operator[c].leader]
    BY <1>1, <2>3 DEF Thread
  <2> QED
    BY <1>5, <2>4
<1>6. CASE Calm(c, k)
  <2>1. thread[c][k].phase = "applying" /\ ~Undisturbed
    BY <1>6 DEF Calm, Undisturbed
  <2>2. ASSUME thread'[c][k] = thread[c][k]
        PROVE  thread'[c][k].applied = thread[c][k].applied
    BY <2>2
  <2>3. ASSUME NEW d \in Command, NEW j \in Node, CommitStep(d, j),
               ~(d = c /\ j = k)
        PROVE  thread'[c][k] = thread[c][k]
    <3>1. \E t : thread' = [thread EXCEPT ![d][j] = t] \/ thread' = End(d, j)
      BY <2>3 DEF CommitStep, ApplyNext, FinishCommit
    <3>2. \E t : thread' = [thread EXCEPT ![d][j] = t]
      BY <3>1 DEF End
    <3> QED
      BY <1>1, <2>3, <3>2 DEF TypeOK
  <2>4. ~FinishCommit(c, k)
    <3> SUFFICES ASSUME FinishCommit(c, k) PROVE FALSE
      OBVIOUS
    <3>1. thread'[c][k] = NoThread
      BY <1>1 DEF FinishCommit, End, TypeOK
    <3> QED
      BY <1>2, <3>1, ThreadEnded
  <2>5. ASSUME NEW i \in Node, BeatSends(i) \/ HandlerStep(i)
        PROVE  thread'[c][k] = thread[c][k]
    <3>1. \/ UNCHANGED thread
          \/ CallersGoOn(i, TRUE) \/ CallersGoOn(i, FALSE)
      BY <2>5 DEF BeatSends, sendVars, HandlerStep, HandlerApplies,
         HandlerReturns
    <3>2. thread[c][k].phase # "handled"
      BY <2>1
    <3> QED
      BY <3>1, <3>2 DEF CallersGoOn
  <2>6. CASE UNCHANGED vars
    BY <2>1, <2>6 DEF vars
  <2>7. CASE Next
    BY <2>1, <2>2, <2>3, <2>4, <2>5, <2>7 DEF Next, CommitStep
  <2> QED
    BY <2>6, <2>7
<1> QED
  BY <1>1, <1>2, <1>3, <1>4, <1>5, <1>6, ThreadsCalm

LEMMA ApplyingHoldsNext ==
  ASSUME NEW H, OrderInv(H), [Next]_vars, Races = {},
         NEW c \in Command, NEW k \in Node
  PROVE  ApplyingHolds(c, k)'
<1>1. TypeInv /\ TypeOK /\ CommitInv(H) /\ StayInv(H) /\ LogInv(H)
  BY PastKnown DEF OrderInv, CommitInv, StayInv
<1> SUFFICES ASSUME thread'[c][k].phase = "applying"
             PROVE  \A n \in Command : n <= thread'[c][k].applied =>
                      logs'[operator'[c].leader][n] # 0
  BY DEF ApplyingHolds, AppliedUpTo, Command
<1>2. UnderWay(thread'[c][k])
  BY DEF UnderWay, NoThread
<1>3. /\ operator'[c].leader = operator[c].leader
      /\ UnderWay(thread[c][k]) /\ operator[c].leader \in Node
  <2>1. ~ \E i \in Node : Start(i, c)
    BY <1>1, <1>2, StartThreads
  <2>2. UnderWay(thread[c][k]) /\ operator'[c].leader = operator[c].leader
    BY <1>1, <1>2, <2>1, ThreadWas
  <2> QED
    BY <1>1, <2>2 DEF TypeInv, LeadersKnown
<1> DEFINE i == operator[c].leader
<1> HIDE DEF i
<1>4. i \in Node /\ operator'[c].leader = i
  BY <1>3 DEF i
<1>5. CASE /\ thread[c][k].phase = "applying"
           /\ thread'[c][k].applied = thread[c][k].applied
  <2>1. AppliedUpTo(i, thread[c][k].applied)
    BY <1>5 DEF OrderInv, ApplyingHolds, i
  <2> QED
    BY <1>4, <1>5, <2>1, AppliedGrows DEF AppliedUpTo
<1>6. CASE ApplyNext(c, k)
  <2> DEFINE a == thread[c][k].applied + 1
  <2>1. Applies(H, i, a)
        /\ thread' = [thread EXCEPT ![c][k] = [@ EXCEPT !.applied = a]]
    BY <1>6, ThreadApplies DEF i
  <2>2. thread'[c][k].applied = a /\ a \in Nat
    BY <1>1, <2>1 DEF TypeOK, Thread
  <2> HIDE DEF a
  <2>3. \A n \in Command : n <= a => logs'[i][n] # 0
    BY <1>4, <2>1, <2>2, AppliedGrows
  <2> QED
    BY <1>4, <2>2, <2>3
<1>7. CASE thread'[c][k].applied = lastApplied[i]
  <2>1. AppliedUpTo(i, lastApplied[i])
    BY <1>4 DEF OrderInv, ReachedHolds
  <2> QED
    BY <1>4, <1>7, <2>1, AppliedGrows DEF AppliedUpTo
<1> QED
  BY <1>5, <1>6, <1>7, ApplyingMoves DEF i

(* What may become of the indexes of node i up to which it has applied.    *)
ReachedAfter(i) ==
  \/ /\ handler'[i] = handler[i] /\ commitIndex'[i] = commitIndex[i]
     /\ \/ lastApplied'[i] = lastApplied[i]
        \/ handler[i] = None /\ lastApplied'[i] = commitIndex[i]
  \/ /\ handler[i] = None
     /\ handler'[i] = commitIndex[i] /\ lastApplied'[i] = commitIndex[i]
  \/ HandlerApplies(i)
  \/ HandlerReturns(i)
  \/ \E c \in Command, k \in Node : FinishCommit(c, k) /\ operator[c].leader = i

LEMMA ReachedMoves ==
  ASSUME NEW H, OrderInv(H), [Next]_vars, Races = {}, NumPeers < 7,
         NEW i \in Node
  PROVE  ReachedAfter(i)
<1>1. TypeInv /\ TypeOK /\ CommitInv(H) /\ StayInv(H)
  BY PastKnown DEF OrderInv, CommitInv, StayInv
<1>2. ASSUME UNCHANGED <<handler, commitIndex, lastApplied>>
      PROVE  ReachedAfter(i)
  BY <1>2 DEF ReachedAfter
<1>3. ASSUME NEW j \in Node, NEW m \in Message, ReplyToAppend(j, m)
      PROVE  ReachedAfter(i)
  <2>1. handler[j] = None
    BY <1>3 DEF ReplyToAppend, Unlocked
  <2>2. CASE j # i
    <3>1. /\ handler'[i] = handler[i] /\ commitIndex'[i] = commitIndex[i]
          /\ lastApplied'[i] = lastApplied[i]
      BY <1>1, <1>3, <2>2 DEF ReplyToAppend, TypeOK
    <3> QED
      BY <3>1 DEF ReachedAfter
  <2>3. CASE j = i /\ Advances(i, m)
    <3>1. handler'[i] = commitIndex[i] /\ lastApplied'[i] = commitIndex[i]
      BY <1>1, <1>3, <2>3 DEF ReplyToAppend, TypeOK
    <3> QED
      BY <2>1, <2>3, <3>1 DEF ReachedAfter
  <2>4. CASE j = i /\ ~Advances(i, m)
    <3>1. /\ handler'[i] = None /\ lastApplied'[i] = lastApplied[i]
          /\ commitIndex'[i] = commitIndex[i]
      BY <1>1, <1>3, <2>4 DEF ReplyToAppend, TypeOK, CommitAfter, Advances
    <3> QED
      BY <2>1, <2>4, <3>1 DEF ReachedAfter
  <2> QED
    BY <2>2, <2>3, <2>4
<1>4. ASSUME NEW j \in Node, NodeStep(j) PROVE ReachedAfter(i)
  <2>1. CASE BecomeCandidate(j) \/ BecomeLeader(j)
    BY <1>2, <2>1 DEF BecomeCandidate, BecomeLeader, commitVars, lockVars
  <2>2. CASE StartReturns(j) \/ BeatBegins(j) \/ BeatFails(j) \/ BeatRefused(j)
    BY <1>2, <2>2
       DEF StartReturns, BeatBegins, BeatFails, BeatRefused, commitVars, lockVars
  <2>3. CASE \E k \in Node : RequestVote(j, k) \/ VoteRefused(j, k)
    BY <1>2, <2>3 DEF RequestVote, VoteRefused, commitVars, lockVars
  <2>4. ASSUME NEW c \in Command, Start(j, c) PROVE ReachedAfter(i)
    <3>1. /\ UNCHANGED <<handler, commitIndex>> /\ handler[j] = None
          /\ lastApplied' = [lastApplied EXCEPT ![j] = commitIndex[j]]
      BY <2>4 DEF Start, Unlocked
    <3>2. lastApplied'[i] = IF i = j THEN commitIndex[i] ELSE lastApplied[i]
      BY <1>1, <3>1 DEF TypeOK
    <3> QED
      BY <3>1, <3>2 DEF ReachedAfter
  <2>5. CASE BeatDelivers(j)
    <3>1. beat[j].to \in Node /\ beat[j].message \in Message
          /\ ReplyToAppend(beat[j].to, beat[j].message)
      BY <1>1, <2>5, DeliveriesHold
    <3> QED
      BY <1>3, <3>1
  <2> QED
    BY <1>4, <2>1, <2>2, <2>3, <2>4, <2>5 DEF NodeStep
<1>5. ASSUME NEW c \in Command, NEW k \in Node,
             ThreadStep(c, k) \/ CommitStep(c, k)
      PROVE  ReachedAfter(i)
  <2>1. CASE SendAppend(c, k) \/ CallFails(c, k) \/ ApplyNext(c, k)
    BY <1>2, <2>1 DEF SendAppend, CallFails, ApplyNext, commitVars, lockVars
  <2>2. CASE ReceiveSuccess(c, k) \/ ReceiveRefusal(c, k)
    BY <1>2, <2>2 DEF ReceiveSuccess, ReceiveRefusal, commitVars, lockVars
  <2>3. CASE DeliverAppend(c, k)
    <3>1. /\ thread[c][k].message \in Message
          /\ ReplyToAppend(k, thread[c][k].message)
      BY <1>1, <2>3, DeliveriesHold
    <3> QED
      BY <1>3, <3>1
  <2>4. CASE ThreadEnds(c, k)
    <3>1. operator[c].leader \in Node
      <4>1. thread[c][k].phase # "none"
        BY <2>4 DEF ThreadEnds
      <4> QED
        BY <1>1, <4>1, PhaseUnderWay
    <3>2. UNCHANGED commitIndex
      BY <1>1, <2>4, <3>1, EndCommitsNothing DEF OrderInv
    <3>3. UNCHANGED <<handler, lastApplied>>
      BY <2>4 DEF ThreadEnds, lockVars
    <3> QED
      BY <1>2, <3>2, <3>3
  <2>5. CASE FinishCommit(c, k) /\ operator[c].leader = i
    BY <2>5 DEF ReachedAfter
  <2>6. CASE FinishCommit(c, k) /\ operator[c].leader # i
    <3>1. /\ handler'[i] = handler[i] /\ commitIndex'[i] = commitIndex[i]
          /\ lastApplied'[i] = lastApplied[i]
      BY <1>1, <2>6 DEF FinishCommit, TypeOK, lockVars
    <3> QED
      BY <3>1 DEF ReachedAfter
  <2> QED
    BY <1>5, <2>1, <2>2, <2>3, <2>4, <2>5, <2>6 DEF ThreadStep, CommitStep
<1>6. ASSUME NEW j \in Node, HandlerStep(j), j # i PROVE ReachedAfter(i)
  <2>1. /\ handler'[i] = handler[i] /\ commitIndex'[i] = commitIndex[i]
        /\ lastApplied'[i] = lastApplied[i]
    BY <1>1, <1>6 DEF HandlerStep, HandlerApplies, HandlerReturns, TypeOK
  <2> QED
    BY <2>1 DEF ReachedAfter
<1>7. CASE HandlerStep(i)
  BY <1>7 DEF HandlerStep, ReachedAfter
<1>8. ASSUME NEW j \in Node, BeatSends(j) PROVE ReachedAfter(i)
  BY <1>2, <1>8 DEF BeatSends, commitVars, lockVars
<1>9. CASE UNCHANGED vars
  BY <1>2, <1>9 DEF vars
<1>10. CASE Next
  BY <1>4, <1>5, <1>6, <1>7, <1>8, <1>10 DEF Next
<1> QED
  BY <1>9, <1>10

LEMMA ReachedNext ==
  ASSUME NEW H, OrderInv(H), [Next]_vars, Races = {}, NumPeers < 7,
         NEW i \in Node
  PROVE  ReachedHolds(i)'
<1>1. /\ TypeInv /\ TypeOK /\ TypeOK' /\ CommitInv(H) /\ StayInv(H)
      /\ ReachedHolds(i)
  BY PastKnown, NextTyped DEF OrderInv, CommitInv, StayInv, TypeInv
<1>2. /\ handler[i] \in Nat \cup {None} /\ commitIndex[i] \in Nat
      /\ lastApplied[i] \in Nat /\ handler'[i] \in Nat \cup {None}
      /\ None \notin Nat
  BY <1>1 DEF TypeOK, None
<1> DEFINE Done(a) == \A n \in Command : n <= a => logs'[i][n] # 0
<1> SUFFICES /\ handler'[i] # None => Done(handler'[i])
             /\ handler'[i] = None => Done(commitIndex'[i])
             /\ Done(lastApplied'[i])
  BY DEF ReachedHolds, Reached, AppliedUpTo, Command, None
<1>3. /\ handler[i] # None => Done(handler[i])
      /\ handler[i] = None => Done(commitIndex[i])
      /\ Done(lastApplied[i])
  BY <1>1, AppliedGrows DEF ReachedHolds, Reached, AppliedUpTo
<1>4. CASE /\ handler'[i] = handler[i] /\ commitIndex'[i] = commitIndex[i]
           /\ \/ lastApplied'[i] = lastApplied[i]
              \/ handler[i] = None /\ lastApplied'[i] = commitIndex[i]
  BY <1>3, <1>4
<1>5. CASE /\ handler[i] = None
           /\ handler'[i] = commitIndex[i] /\ lastApplied'[i] = commitIndex[i]
  BY <1>2, <1>3, <1>5
<1>6. CASE HandlerApplies(i)
  <2> DEFINE a == handler[i] + 1
  <2>1. /\ Applies(H, i, a) /\ handler[i] # None
        /\ handler' = [handler EXCEPT ![i] = a]
    BY <1>6, HandlerAppliesNext
  <2>2. a \in Nat /\ handler'[i] = a
    BY <1>1, <1>2, <2>1 DEF TypeOK
  <2> HIDE DEF a
  <2>3. Done(a)
    BY <2>1, <2>2, AppliedGrows
  <2>4. lastApplied' = lastApplied
    BY <1>6 DEF HandlerApplies
  <2> QED
    BY <1>2, <1>3, <2>2, <2>3, <2>4
<1>7. CASE HandlerReturns(i)
  <2>1. /\ handler[i] # None /\ handler[i] >= commitIndex[i]
        /\ handler'[i] = None /\ lastApplied'[i] = commitIndex[i]
        /\ commitIndex'[i] = commitIndex[i]
    BY <1>1, <1>7 DEF HandlerReturns, TypeOK
  <2>2. Done(commitIndex[i])
    <3> SUFFICES ASSUME NEW n \in Command, n <= commitIndex[i]
                 PROVE  logs'[i][n] # 0
      OBVIOUS
    <3>1. n <= handler[i]
      BY <1>2, <2>1, CommandsAreNumbers
    <3> QED
      BY <1>3, <2>1, <3>1
  <2> QED
    BY <2>1, <2>2
<1>8. ASSUME NEW c \in Command, NEW k \in Node, FinishCommit(c, k),
             operator[c].leader = i
      PROVE  /\ handler'[i] # None => Done(handler'[i])
             /\ handler'[i] = None => Done(commitIndex'[i])
             /\ Done(lastApplied'[i])
  <2> DEFINE N == operator[c].index
             a == thread[c][k].applied
  <2>1. /\ thread[c][k].phase = "applying" /\ a >= N
        /\ handler'[i] = handler[i]
        /\ commitIndex'[i] = N /\ lastApplied'[i] = N
    BY <1>1, <1>8 DEF FinishCommit, TypeOK, lockVars
  <2>2. N \in Nat /\ a \in Nat
    <3>1. operator[c] \in Operator /\ thread[c][k] \in Thread
      BY <1>1 DEF TypeOK
    <3> QED
      BY <3>1 DEF Operator, Thread
  <2>3. AppliedUpTo(i, a)
    BY <1>8, <2>1 DEF OrderInv, ApplyingHolds
  <2> HIDE DEF N, a
  <2>4. Done(N)
    <3> SUFFICES ASSUME NEW n \in Command, n <= N PROVE logs'[i][n] # 0
      OBVIOUS
    <3>1. n <= a
      BY <2>1, <2>2, CommandsAreNumbers
    <3>2. logs[i][n] # 0
      BY <2>3, <3>1 DEF AppliedUpTo
    <3> QED
      BY <3>2, AppliedGrows
  <2> QED
    BY <1>3, <2>1, <2>4
<1> QED
  BY <1>4, <1>5, <1>6, <1>7, <1>8, ReachedMoves DEF ReachedAfter

LEMMA OrderInvInit ==
  ASSUME Init, NEW H, H = {Now(q) : q \in Node}
  PROVE  OrderInv(H)
<1>1. CommitInv(H) /\ \A i \in Node : Spread(H, i)
  BY CommitInvInit, SpreadInit
<1>2. \A c \in Command : CommittedIsBehind(c)
  BY DEF Init, NoOperator, CommittedIsBehind
<1>3. ASSUME NEW i \in Node PROVE ReachedHolds(i)
  <2>1. handler[i] = None /\ commitIndex[i] = 0 /\ lastApplied[i] = 0
    BY <1>3 DEF Init
  <2> QED
    BY <2>1, CommandsAreNumbers DEF ReachedHolds, Reached, AppliedUpTo
<1>4. \A c \in Command, k \in Node : ApplyingHolds(c, k)
  BY DEF Init, NoThread, ApplyingHolds
<1>5. \A i \in Node : Filled(logs[i], 0) /\ HasMost(i)
  BY CommandsAreNumbers DEF Init, Filled, HasMost
<1>6. 0 \in 0 .. MaxCommand /\ 0 \in Node
  BY BoundsAssumption, NodesAreNumbers
<1>7. Placed(H)
  <2>1. \A s \in LogsOf(H) : s = <<>>
    BY DEF LogsOf, Now, Init
  <2> QED
    BY <2>1 DEF Placed
<1> QED
  BY <1>1, <1>2, <1>3, <1>4, <1>5, <1>6, <1>7 DEF OrderInv

LEMMA OrderInvNext ==
  ASSUME NEW H, OrderInv(H), [Next]_vars, Races = {}, NumPeers < 7,
         NEW G, G = H \cup {Now(q)' : q \in Node}
  PROVE  OrderInv(G)'
<1>1. CommitInv(H) /\ \A c \in Command : CommittedIsBehind(c)
  BY DEF OrderInv
<1>2. CommitInv(G)'
  BY <1>1, CommitInvNext
<1>3. ASSUME NEW i \in Node PROVE Spread(G, i)'
  BY <1>1, SpreadNext DEF OrderInv
<1>4. ASSUME NEW c \in Command PROVE CommittedIsBehind(c)'
  BY <1>1, CommittedIsBehindNext
<1>5. ASSUME NEW i \in Node PROVE ReachedHolds(i)'
  BY ReachedNext
<1>6. ASSUME NEW c \in Command, NEW k \in Node PROVE ApplyingHolds(c, k)'
  BY ApplyingHoldsNext
<1>7. /\ (\A i \in Node : \E k \in 0 .. MaxCommand : Filled(logs[i], k))'
      /\ (\E i \in Node : HasMost(i))'
  BY FilledNext DEF Filled, Node, Command
<1>8. Placed(G)'
  BY <1>1, PlacedNext DEF OrderInv, CommitInv, StayInv
<1> QED
  BY <1>2, <1>3, <1>4, <1>5, <1>6, <1>7, <1>8 DEF OrderInv, Node, Command

(* There was a past that explains what is applied.                         *)
InOrder == \E H : OrderInv(H)

LEMMA InOrderAlways ==
  ASSUME Races = {}, NumPeers < 7
  PROVE  Spec => []InOrder
<1>1. Init => InOrder
  BY OrderInvInit DEF InOrder
<1>2. InOrder /\ [Next]_vars => InOrder'
  <2> SUFFICES ASSUME NEW H, OrderInv(H), [Next]_vars PROVE InOrder'
    BY DEF InOrder
  <2>1. PICK G : G = H \cup {Now(q)' : q \in Node}
    OBVIOUS
  <2>2. OrderInv(G)'
    BY <2>1, OrderInvNext
  <2> QED
    BY <2>2 DEF InOrder
<1> QED
  BY <1>1, <1>2, PTL DEF Spec

(* With the windows closed and fewer than seven nodes, no node hands an    *)
(* entry to applyChannel before the one ahead of it: what                  *)
(* Config.listenRaftPeer reports as "apply out of order" does not come up, *)
(* though start sets lastApplied to the commit index and both loops that   *)
(* apply begin there.  The commit index never moves but with its entries:  *)
(* where probNSituation finds a majority in matchIndex, of the successes   *)
(* of several commands, the log has no entry of the term behind it.        *)
THEOREM EntriesAreAppliedInOrder ==
  ASSUME Races = {}, NumPeers < 7
  PROVE  Spec => []AppliedInOrder
<1>1. InOrder => AppliedInOrder
  <2> SUFFICES ASSUME NEW H, OrderInv(H), NEW i \in Node, NEW n \in Command,
                      n > 1, logs[i][n] # 0
               PROVE  logs[i][n - 1] # 0
    BY DEF InOrder, AppliedInOrder
  <2>1. PICK k \in 0 .. MaxCommand : Filled(logs[i], k)
    BY DEF OrderInv
  <2>2. n - 1 \in Command /\ n - 1 <= k
    BY <2>1, BoundsAssumption DEF Filled, Command
  <2> QED
    BY <2>1, <2>2 DEF Filled
<1> QED
  BY <1>1, InOrderAlways, PTL

-----------------------------------------------------------------------------
(***************************************************************************)
(* What the nodes apply is the one sequence of Agreement.                  *)
(***************************************************************************)

(* Only a client's call gives a command its operator.                      *)
LEMMA StartedStays ==
  ASSUME TypeInv, [Next]_vars, NEW c \in Command,
         ~ \E i \in Node : Start(i, c)
  PROVE  operator'[c] = NoOperator <=> operator[c] = NoOperator
<1> DEFINE P == operator'[c] = operator[c] \/ operator[c].leader \in Node
<1>1. TypeOK
  BY DEF TypeInv
<1>2. ASSUME UNCHANGED operator PROVE P
  BY <1>2
<1>3. ASSUME NEW i \in Node, NodeStep(i) PROVE P
  <2>1. ASSUME NEW d \in Command, Start(i, d) PROVE P
    <3>1. d # c
      BY <2>1
    <3>2. operator'[c] = operator[c]
      BY <1>1, <2>1, <3>1 DEF Start, TypeOK
    <3> QED
      BY <3>2
  <2> QED
    BY <1>2, <1>3, <2>1 DEF NodeStep, BecomeCandidate, BecomeLeader,
       StartReturns, BeatBegins, BeatDelivers, BeatFails, BeatRefused,
       RequestVote, VoteRefused, sendVars
<1>4. ASSUME NEW d \in Command, NEW k \in Node,
             ThreadStep(d, k) \/ CommitStep(d, k)
      PROVE  P
  <2>1. CASE ReceiveSuccess(d, k)
    <3>1. PICK n : operator' = [operator EXCEPT ![d].count = n]
      BY <2>1 DEF ReceiveSuccess
    <3>2. d # c => operator'[c] = operator[c]
      BY <1>1, <3>1 DEF TypeOK
    <3>3. thread[d][k].phase = "replied"
      BY <2>1 DEF ReceiveSuccess
    <3> QED
      BY <3>2, <3>3, PhaseUnderWay
  <2>2. CASE FinishCommit(d, k)
    <3>1. operator' = [operator EXCEPT ![d].committed = TRUE]
      BY <2>2 DEF FinishCommit
    <3>2. d # c => operator'[c] = operator[c]
      BY <1>1, <3>1 DEF TypeOK
    <3>3. thread[d][k].phase = "applying"
      BY <2>2 DEF FinishCommit
    <3> QED
      BY <3>2, <3>3, PhaseUnderWay
  <2> QED
    BY <1>2, <1>4, <2>1, <2>2 DEF ThreadStep, SendAppend, ThreadEnds,
       CallFails, DeliverAppend, ReceiveRefusal, CommitStep, ApplyNext
<1>5. ASSUME NEW i \in Node, BeatSends(i) \/ HandlerStep(i) PROVE P
  BY <1>2, <1>5
     DEF BeatSends, HandlerStep, HandlerApplies, HandlerReturns, sendVars
<1>6. P
  BY <1>2, <1>3, <1>4, <1>5 DEF Next, vars
<1>7. CASE operator[c].leader \in Node
  <2>1. operator'[c].leader = operator[c].leader
    BY CountersMove
  <2> QED
    BY <1>7, <2>1, NodesAreNumbers DEF NoOperator
<1> QED
  BY <1>6, <1>7

(* The operators of FiniteSets mean the same through the instance.         *)
LEMMA SameCardinality ==
  \A S : Service!Cardinality(S) = Cardinality(S)
BY DEF Service!Cardinality, Service!IsFiniteSet, Cardinality, IsFiniteSet

LEMMA IndexIsCommand == Service!Index = Command
<1>1. Cardinality(Command) = MaxCommand
  BY FS_Interval, BoundsAssumption DEF Command
<1> QED
  BY <1>1, SameCardinality DEF Service!Index, Command

LEMMA LengthOfFilled ==
  ASSUME NEW k \in 0 .. MaxCommand, NEW s, Filled(s, k)
  PROVE  Service!Length(s) = k
<1>1. {n \in Command : s[n] # 0} = 1 .. k
  BY BoundsAssumption DEF Filled, Command
<1>2. Cardinality(1 .. k) = k
  BY FS_Interval
<1> QED
  BY <1>1, <1>2, SameCardinality, IndexIsCommand DEF Service!Length

(* Two nodes that have applied the same places have applied the same.      *)
LEMMA AppliedIsOne ==
  ASSUME NEW H, CommitInv(H), NEW i \in Node, NEW j \in Node, NEW n \in Command,
         logs[i][n] # 0, logs[j][n] # 0
  PROVE  logs[i][n] = logs[j][n]
<1>1. AppliedHolds(H, i, n) /\ AppliedHolds(H, j, n) /\ StayInv(H)
  BY DEF CommitInv
<1>2. n \in Nat /\ n > 0
  BY CommandsAreNumbers
<1>3. log[i][n] = log[j][n]
  BY <1>1, <1>2, DurableIsOne DEF AppliedHolds
<1> QED
  BY <1>1, <1>3 DEF AppliedHolds

(* What is decided is what any node that has applied most has applied.     *)
DecidedOK == \A t \in Node : HasMost(t) => Decided = logs[t]

LEMMA DecidedIsMost == InOrder => DecidedOK
<1> SUFFICES ASSUME NEW H, OrderInv(H), NEW t \in Node, HasMost(t)
             PROVE  Decided = logs[t]
  BY DEF InOrder, DecidedOK
<1> DEFINE u == CHOOSE i \in Node : \A j \in Node, n \in Command :
                  logs[j][n] # 0 => logs[i][n] # 0
<1>1. u \in Node /\ \A j \in Node, n \in Command : logs[j][n] # 0 => logs[u][n] # 0
  BY DEF HasMost
<1>2. Decided = logs[u]
  BY DEF Decided
<1> HIDE DEF u
<1>3. logs \in [Node -> [Command -> Command \cup {Idle}]]
  BY PastKnown DEF OrderInv, CommitInv, StayInv, TypeOK
<1>4. ASSUME NEW n \in Command PROVE logs[u][n] = logs[t][n]
  <2>1. logs[u][n] # 0 <=> logs[t][n] # 0
    BY <1>1 DEF HasMost
  <2> QED
    BY <1>1, <2>1, AppliedIsOne DEF OrderInv
<1> QED
  BY <1>1, <1>2, <1>3, <1>4

LEMMA ServiceInit ==
  ASSUME Init
  PROVE  Service!Init
<1>1. /\ {c \in Command : operator[c] # NoOperator} = {}
      /\ logs = [i \in Node |-> [n \in Command |-> 0]]
  BY DEF Init
<1>2. Service!Empty = [n \in Command |-> 0]
  BY IndexIsCommand DEF Service!Empty
<1>3. Decided = Service!Empty
  <2> DEFINE u == CHOOSE i \in Node : \A j \in Node, n \in Command :
                    logs[j][n] # 0 => logs[i][n] # 0
  <2>1. \E i \in Node : \A j \in Node, n \in Command :
          logs[j][n] # 0 => logs[i][n] # 0
    BY <1>1, NodesAreNumbers
  <2>2. u \in Node
    BY <2>1
  <2>3. Decided = logs[u]
    BY DEF Decided
  <2> HIDE DEF u
  <2> QED
    BY <1>1, <1>2, <2>2, <2>3
<1> QED
  BY <1>1, <1>2, <1>3 DEF Service!Init

(* A client's call.                                                        *)
LEMMA StartsAtService ==
  ASSUME InOrder, DecidedOK, DecidedOK', NEW i \in Node, NEW c \in Command,
         Start(i, c)
  PROVE  Service!Start
<1>1. PICK H : OrderInv(H)
  BY DEF InOrder
<1>2. TypeOK
  BY <1>1, PastKnown DEF OrderInv, CommitInv, StayInv
<1>3. operator[c] = NoOperator
  BY StartsAtNone
<1>4. /\ \A d \in Command \ {c} : operator'[d] = operator[d]
      /\ operator'[c] # NoOperator
  <2>1. PICK n : operator' = [operator EXCEPT ![c] =
            [leader |-> i, index |-> n, count |-> 1, committed |-> FALSE]]
    BY DEF Start
  <2> QED
    BY <1>2, <2>1, NodesAreNumbers DEF TypeOK, NoOperator
<1>5. UNCHANGED logs
  BY DEF Start
<1>6. PICK t \in Node : HasMost(t)
  BY <1>1 DEF OrderInv
<1>7. Decided' = Decided
  <2>1. \A j \in Node, n \in Command : logs'[j][n] # 0 => logs'[t][n] # 0
    BY <1>5, <1>6 DEF HasMost
  <2>2. Decided' = logs'[t]
    BY <2>1 DEF DecidedOK, HasMost
  <2> QED
    BY <1>5, <1>6, <2>2 DEF DecidedOK
<1> QED
  BY <1>3, <1>4, <1>5, <1>7 DEF Service!Start

(* Nothing is applied.                                                     *)
LEMMA QuietAtService ==
  ASSUME InOrder, DecidedOK, DecidedOK', [Next]_vars, UNCHANGED logs,
         ~ \E i \in Node, c \in Command : Start(i, c)
  PROVE  UNCHANGED Service!vars
<1>1. PICK H : OrderInv(H)
  BY DEF InOrder
<1>2. TypeInv
  BY <1>1, PastKnown DEF OrderInv, CommitInv, StayInv
<1>3. \A c \in Command : operator'[c] = NoOperator <=> operator[c] = NoOperator
  BY <1>2, StartedStays
<1>4. PICK t \in Node : HasMost(t)
  BY <1>1 DEF OrderInv
<1>5. Decided' = Decided
  <2>1. \A j \in Node, n \in Command : logs'[j][n] # 0 => logs'[t][n] # 0
    BY <1>4 DEF HasMost
  <2>2. Decided' = logs'[t]
    BY <2>1 DEF DecidedOK, HasMost
  <2> QED
    BY <1>4, <2>2 DEF DecidedOK
<1> QED
  BY <1>3, <1>5 DEF Service!vars

(* A node applies an entry: that of a place decided, or the next one.      *)
LEMMA AppliesAtService ==
  ASSUME InOrder, DecidedOK, DecidedOK', NEW H, OrderInv(H),
         NEW i \in Node, NEW a \in Command, NEW v \in Command,
         Durable(H, log[i], a), a <= Len(log[i]), v = log[i][a].command,
         logs[i][a] = 0, Filled(logs[i], a - 1),
         logs' = [logs EXCEPT ![i] = [logs[i] EXCEPT ![a] = v]],
         UNCHANGED operator
  PROVE  Service!Learn(i) \/ Service!Choose(i)
<1>1. /\ LogInv(H) /\ StayInv(H) /\ CommitInv(H) /\ Placed(H)
      /\ TypeOK
      /\ logs \in [Node -> [Command -> Command \cup {Idle}]]
  BY PastKnown DEF OrderInv, CommitInv, StayInv, TypeOK
<1>2. a \in Nat /\ a > 0 /\ v # 0 /\ a - 1 \in 0 .. MaxCommand
  BY CommandsAreNumbers, BoundsAssumption DEF Command, Idle
<1>3. PICK t \in Node : HasMost(t)
  BY DEF OrderInv
<1>4. Decided = logs[t] /\ Decided \in [Command -> Command \cup {Idle}]
  BY <1>1, <1>3 DEF DecidedOK
<1>5. Service!Length(logs[i]) = a - 1
  BY <1>2, LengthOfFilled
<1>6. /\ \A j \in Node : j # i => logs'[j] = logs[j]
      /\ logs'[i] = [logs[i] EXCEPT ![a] = v]
      /\ \A n \in Command : logs'[i][n] = IF n = a THEN v ELSE logs[i][n]
  BY <1>1
<1>7. UNCHANGED {c \in Command : operator[c] # NoOperator}
  OBVIOUS
<1>8. CASE logs[t][a] # 0
  <2>1. t # i
    BY <1>8
  <2>2. PICK k \in 0 .. MaxCommand : Filled(logs[t], k)
    BY DEF OrderInv
  <2>3. Service!Length(Decided) = k
    BY <1>4, <2>2, LengthOfFilled
  <2>4. a <= k
    BY <1>8, <2>2 DEF Filled
  <2>5. AppliedHolds(H, t, a)
    BY <1>1 DEF CommitInv
  <2>6. logs[t][a] = v
    <3>1. log[t][a] = log[i][a]
      BY <1>1, <1>2, <1>8, <2>5, DurableIsOne DEF AppliedHolds
    <3> QED
      BY <1>8, <2>5, <3>1 DEF AppliedHolds
  <2>7. logs'[i] = Service!Prefix(Decided, a)
    <3>1. ASSUME NEW n \in Command
          PROVE  logs'[i][n] = IF n <= a THEN Decided[n] ELSE 0
      <4>1. n \in Nat
        BY CommandsAreNumbers
      <4>2. CASE n = a
        BY <1>4, <1>6, <2>6, <4>2, <1>2
      <4>3. CASE n # a /\ n <= a
        <5>1. n <= a - 1
          BY <1>2, <4>1, <4>3
        <5>2. logs[i][n] # 0
          BY <5>1 DEF Filled
        <5>3. logs[t][n] # 0
          BY <1>3, <5>2 DEF HasMost
        <5>4. logs[i][n] = logs[t][n]
          BY <1>1, <5>2, <5>3, AppliedIsOne
        <5> QED
          BY <1>4, <1>6, <4>3, <5>4
      <4>4. CASE ~(n <= a)
        <5>1. ~(n <= a - 1) /\ n # a
          BY <1>2, <4>1, <4>4
        <5>2. logs[i][n] = 0
          BY <5>1 DEF Filled
        <5> QED
          BY <1>6, <4>4, <5>1, <5>2
      <4> QED
        BY <4>2, <4>3, <4>4
    <3>2. logs'[i] = [n \in Command |-> IF n <= a THEN Decided[n] ELSE 0]
      <4>1. logs'[i] \in [Command -> Command \cup {Idle}]
        BY <1>1, <1>6
      <4> QED
        BY <3>1, <4>1
    <3> QED
      BY <3>2, IndexIsCommand DEF Service!Prefix
  <2>8. Decided' = Decided
    <3>1. \A j \in Node, n \in Command : logs'[j][n] # 0 => logs'[t][n] # 0
      BY <1>3, <1>6, <1>8, <2>1 DEF HasMost
    <3>2. Decided' = logs'[t]
      BY <3>1 DEF DecidedOK, HasMost
    <3> QED
      BY <1>4, <1>6, <2>1, <3>2
  <2>9. a \in Service!Length(logs[i]) + 1 .. Service!Length(Decided)
    BY <1>2, <1>5, <2>3, <2>4
  <2>10. logs' = [logs EXCEPT ![i] = Service!Prefix(Decided, a)]
    BY <1>6, <2>7
  <2> QED
    BY <1>7, <2>8, <2>9, <2>10 DEF Service!Learn
<1>9. CASE logs[t][a] = 0
  <2>1. \A n \in Command : logs[t][n] # 0 => logs[i][n] # 0
    <3> SUFFICES ASSUME NEW n \in Command, logs[t][n] # 0
                 PROVE  logs[i][n] # 0
      OBVIOUS
    <3>1. PICK k \in 0 .. MaxCommand : Filled(logs[t], k)
      BY DEF OrderInv
    <3>2. ~(a <= k) /\ n <= k /\ k \in Nat
      BY <1>9, <3>1, BoundsAssumption DEF Filled
    <3>3. n <= a - 1
      BY <1>2, <3>2, CommandsAreNumbers
    <3> QED
      BY <3>3 DEF Filled
  <2>2. HasMost(i)
    BY <1>3, <2>1 DEF HasMost
  <2>3. Decided = logs[i]
    BY <2>2 DEF DecidedOK
  <2>4. \A j \in Node, n \in Command : logs'[j][n] # 0 => logs'[i][n] # 0
    BY <1>2, <1>6, <2>2 DEF HasMost
  <2>5. Decided' = logs'[i]
    BY <2>4 DEF DecidedOK, HasMost
  <2>6. Decided' = [Decided EXCEPT ![Service!Length(Decided) + 1] = v]
    BY <1>2, <1>5, <1>6, <2>3, <2>5
  <2>7. operator[v].index = a
    <3>1. log[i] \in LogsOf(H) /\ a \in 1 .. Len(log[i])
      BY <1>1, <1>2, PastKnown
    <3> QED
      BY <1>1, <3>1 DEF Placed
  <2>8. operator[v] # NoOperator
    BY <1>2, <2>7 DEF NoOperator
  <2>9. ASSUME v \in Service!Commands(Decided) PROVE FALSE
    <3>1. PICK n \in Command : logs[i][n] = v
      BY <2>3, <2>9, IndexIsCommand DEF Service!Commands
    <3>2. AppliedHolds(H, i, n)
      BY <1>1 DEF CommitInv
    <3>3. n \in 1 .. Len(log[i]) /\ log[i][n].command = v
      BY <1>2, <3>1, <3>2, CommandsAreNumbers, PastKnown, <1>1 DEF AppliedHolds
    <3>4. log[i] \in LogsOf(H)
      BY <1>1, PastKnown
    <3>5. operator[v].index = n
      BY <1>1, <3>3, <3>4 DEF Placed
    <3> QED
      BY <1>2, <1>9, <2>7, <3>1, <3>5
  <2>10. logs' = [logs EXCEPT ![i] = Decided']
    BY <1>6, <2>5
  <2> QED
    BY <1>7, <2>6, <2>8, <2>9, <2>10 DEF Service!Choose
<1> QED
  BY <1>8, <1>9

LEMMA StepImplements ==
  ASSUME Races = {}, NumPeers < 7, InOrder, DecidedOK, DecidedOK', [Next]_vars
  PROVE  [Service!Next]_(Service!vars)
<1>1. PICK H : OrderInv(H)
  BY DEF InOrder
<1>2. ASSUME NEW i \in Node, NEW c \in Command, Start(i, c)
      PROVE  Service!Next
  BY <1>2, StartsAtService DEF Service!Next
<1>3. CASE /\ UNCHANGED logs
           /\ ~ \E i \in Node, c \in Command : Start(i, c)
  BY <1>3, QuietAtService
<1>4. ASSUME NEW i \in Node, NEW a \in Nat, Applies(H, i, a),
             UNCHANGED <<log, operator>>, ~UNCHANGED logs
      PROVE  Service!Next
  <2> DEFINE v == log[i][a].command
  <2>1. /\ a \in Command /\ v \in Command /\ logs[i][a] = 0
        /\ logs' = [logs EXCEPT ![i] = [logs[i] EXCEPT ![a] = v]]
        /\ Filled(logs[i], a - 1)
    BY <1>1, <1>4, AppliesDoes
  <2>2. Durable(H, log[i], a) /\ a <= Len(log[i])
    BY <1>4 DEF Applies
  <2> HIDE DEF v
  <2>3. v = log[i][a].command
    BY DEF v
  <2>4. Service!Learn(i) \/ Service!Choose(i)
    BY <1>1, <1>4, <2>1, <2>2, <2>3, AppliesAtService
  <2> QED
    BY <2>4 DEF Service!Next
<1> QED
  BY <1>1, <1>2, <1>3, <1>4, WhatIsApplied

(* With the windows closed and fewer than seven nodes, replication is the  *)
(* service of Agreement.  A client's call starts a command; a thread or a  *)
(* handler that applies takes the next place of what has been decided, or  *)
(* is the first to apply what is new, behind all that any node has applied *)
(* before: a command that was started and that nobody has applied yet.     *)
(* No other step of the program is seen from outside, no election, no      *)
(* rewritten log, no lost answer.                                          *)
THEOREM ReplicationIsTheService ==
  ASSUME Races = {}, NumPeers < 7
  PROVE  Spec => AgreesOnOneSequence
<1>1. Init => Service!Init
  BY ServiceInit
<1>2. InOrder /\ DecidedOK /\ DecidedOK' /\ [Next]_vars
        => [Service!Next]_(Service!vars)
  BY StepImplements
<1> QED
  BY <1>1, <1>2, InOrderAlways, DecidedIsMost, PTL
     DEF Spec, AgreesOnOneSequence, Service!Spec

=============================================================================
