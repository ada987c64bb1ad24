--------------------------- MODULE RaftCommitProofs ---------------------------
(***************************************************************************)
(* What is committed stays: StateMachineSafety, AppliedEntriesStay and     *)
(* CommitNeverRetreats of RaftReplication, for every number of nodes and   *)
(* every bound, as long as its windows are closed.                         *)
(*                                                                         *)
(* The argument is that of Raft, told of the past H.  Either a majority    *)
(* has accepted an entry of term T, or a majority has left term T without  *)
(* it, or whoever leads later has it.                                      *)
(***************************************************************************)
EXTENDS RaftLogProofs

(* Log s has an entry of term T at index k or later.                       *)
HasFrom(s, k, T) == \E n \in 1 .. Len(s) : k <= n /\ s[n].term = T

(* Node q, in term T, had an entry of the term at index k or later.        *)
Accepted(H, q, T, k) ==
  \E h \in H : h.node = q /\ h.term = T /\ HasFrom(h.log, k, T)

(* A majority accepted it.                                                 *)
Safe(H, T, k) ==
  \E Q \in SUBSET Node : /\ IsMajority(Cardinality(Q))
                         /\ \A q \in Q : Accepted(H, q, T, k)

(* A majority has left the term and never will.                            *)
Blocked(H, T, k) ==
  \E Q \in SUBSET Node :
    /\ IsMajority(Cardinality(Q))
    /\ \A q \in Q : currentTerm[q] > T /\ ~Accepted(H, q, T, k)

(* Log s has what a majority accepted at index k.                          *)
Durable(H, s, k) == \E T \in Nat : Safe(H, T, k) /\ HasFrom(s, k, T)

(* The terms of log s grow, up to t.                                       *)
Ascends(s, t) ==
  \A n \in 1 .. Len(s) : /\ s[n].term <= t
                         /\ \A m \in 1 .. n : s[m].term <= s[n].term

Ordered(H) == \A h \in H : Ascends(h.log, h.term)

(* A log with an entry of a term agrees, up to it, with all that the       *)
(* leader of the term had.                                                 *)
Follows(s, g) ==
  \A n \in 1 .. Len(s) : s[n].term = g.term =>
    \A m \in 1 .. n : m <= Len(g.log) => s[m] = g.log[m]

LeadersAgree(H) ==
  \A g \in H : g.role = "LEADER" => \A s \in LogsOf(H) : Follows(s, g)

(* A leader only adds to its log.                                          *)
LeadersAdd(H) ==
  \A g \in H : /\ g.role = "LEADER" /\ role[g.node] = "LEADER"
               /\ currentTerm[g.node] = g.term
               => Extends(log[g.node], g.log)

(* No log has an entry of term t behind the end of log s.                  *)
HasAll(H, s, t) ==
  \A r \in LogsOf(H) : \A n \in 1 .. Len(r) : r[n].term = t => n <= Len(s)

(* What a thread has copied is all there is of its term: its node waits    *)
(* for its threads before it starts the next command.                      *)
CopyHolds(H, c, j) ==
  UnderWay(thread[c][j]) => HasAll(H, thread[c][j].copy, thread[c][j].term)

(* Later leaders, and logs with later entries, have the entry.             *)
Complete(H, T, k) ==
  \A h \in H : \/ h.role = "LEADER" /\ h.term > T
               \/ \E n \in 1 .. Len(h.log) : h.log[n].term > T
               => HasFrom(h.log, k, T)

(* Who accepted it has it still.                                           *)
Kept(H, T, k) ==
  \A q \in Node : Accepted(H, q, T, k) => HasFrom(log[q], k, T)

(* A candidate for whom one of them voted has it.                          *)
Informed(H, T, k) ==
  \A i \in Node : role[i] = "CANDIDATE" /\ currentTerm[i] > T =>
    \A v \in votes[i] : Accepted(H, v, T, k) => HasFrom(log[i], k, T)

Settled(H, T, k) == Complete(H, T, k) /\ Kept(H, T, k) /\ Informed(H, T, k)

StayInv(H) ==
  /\ LogInv(H)
  /\ Ordered(H)
  /\ LeadersAgree(H)
  /\ LeadersAdd(H)
  /\ \A c \in Command, j \in Node : CopyHolds(H, c, j)
  /\ \A T, k \in Nat : Blocked(H, T, k) \/ Settled(H, T, k)

-----------------------------------------------------------------------------
(***************************************************************************)
(* The past, again.                                                        *)
(***************************************************************************)

LEMMA PastKnown ==
  ASSUME NEW H, LogInv(H)
  PROVE  /\ TypeInv /\ TypeOK /\ PastHolds(H) /\ LogsCohere(H)
         /\ \A s \in LogsOf(H) : s \in Seq(Entry) /\ Len(s) \in Nat
         /\ \A h \in H : /\ h.node \in Node /\ h.term \in Nat
                         /\ h.term <= currentTerm[h.node]
                         /\ h.log \in LogsOf(H)
         /\ \A q \in Node : /\ currentTerm[q] \in Nat
                            /\ log[q] \in LogsOf(H) /\ log[q] \in Seq(Entry)
<1>1. TypeInv /\ TypeOK /\ PastHolds(H) /\ LogsCohere(H) /\ H \subseteq Moment
  BY DEF LogInv, TypeInv, PastHolds
<1>2. \A h \in H : /\ h.node \in Node /\ h.term \in Nat
                   /\ h.log \in Seq(Entry) /\ h.log \in LogsOf(H)
                   /\ h.term <= currentTerm[h.node]
  BY <1>1 DEF Moment, LogsOf, PastHolds
<1>3. \A s \in LogsOf(H) : s \in Seq(Entry) /\ Len(s) \in Nat
  BY <1>2, LenProperties DEF LogsOf
<1>4. \A q \in Node : /\ currentTerm[q] \in Nat
                      /\ log[q] \in LogsOf(H) /\ log[q] \in Seq(Entry)
  BY <1>1, LogsAreKnown DEF TypeOK
<1> QED
  BY <1>1, <1>2, <1>3, <1>4

(* The entries of a log have terms.                                        *)
LEMMA EntriesHaveTerms ==
  ASSUME NEW s \in Seq(Entry)
  PROVE  /\ Len(s) \in Nat
         /\ \A n \in 1 .. Len(s) : s[n].term \in Nat /\ n \in Nat
<1>1. Len(s) \in Nat
  BY LenProperties
<1>2. \A n \in 1 .. Len(s) : s[n] \in Entry
  BY <1>1, ElementOfSeq
<1> QED
  BY <1>1, <1>2 DEF Entry

(* What node q is now, field by field.                                     *)
LEMMA NowFields ==
  ASSUME NEW q \in Node
  PROVE  /\ Now(q).node = q /\ Now(q).term = currentTerm[q]
         /\ Now(q).role = role[q] /\ Now(q).log = log[q]
         /\ Now(q)'.node = q /\ Now(q)'.term = currentTerm'[q]
         /\ Now(q)'.role = role'[q] /\ Now(q)'.log = log'[q]
BY DEF Now

(* A moment of the past after the step was past, or is what a node is now. *)
LEMMA PastOrNow ==
  ASSUME NEW H, NEW G, G = H \cup {Now(q)' : q \in Node}, NEW h \in G
  PROVE  \/ h \in H
         \/ \E q \in Node : /\ h.node = q /\ h.term = currentTerm'[q]
                            /\ h.role = role'[q] /\ h.log = log'[q]
<1>1. CASE h \notin H
  <2>1. PICK q \in Node : h = Now(q)'
    BY <1>1
  <2> QED
    BY <2>1, NowFields
<1> QED
  BY <1>1

LEMMA NowStays ==
  ASSUME NEW H, PastHolds(H), NEW q \in Node
  PROVE  /\ \E h \in H : /\ h.node = q /\ h.term = currentTerm[q]
                         /\ h.role = role[q] /\ h.log = log[q]
         /\ log[q] \in LogsOf(H)
<1>1. Now(q) \in H
  BY DEF PastHolds
<1> QED
  BY <1>1, NowFields, LogsAreKnown

-----------------------------------------------------------------------------
(***************************************************************************)
(* Entries of a term.                                                      *)
(***************************************************************************)

LEMMA HasFromLog ==
  ASSUME NEW s, NEW T, NEW k \in Nat
  PROVE  /\ \A r : Extends(r, s) /\ Len(r) \in Nat /\ Len(s) \in Nat
                     /\ HasFrom(s, k, T) => HasFrom(r, k, T)
         /\ \A n \in Nat : n <= k /\ Len(s) \in Nat /\ HasFrom(s, k, T)
                             => HasFrom(s, n, T)
BY DEF HasFrom, Extends

(* What was accepted, or safe, is so whatever is added to the past.        *)
LEMMA AcceptedStays ==
  ASSUME NEW H, NEW G, H \subseteq G
  PROVE  /\ \A q, T, k : Accepted(H, q, T, k) => Accepted(G, q, T, k)
         /\ \A T, k : Safe(H, T, k) => Safe(G, T, k)
<1>1. \A q, T, k : Accepted(H, q, T, k) => Accepted(G, q, T, k)
  BY DEF Accepted
<1>2. ASSUME NEW T, NEW k, Safe(H, T, k) PROVE Safe(G, T, k)
  <2>1. PICK Q \in SUBSET Node : /\ IsMajority(Cardinality(Q))
                                 /\ \A q \in Q : Accepted(H, q, T, k)
    BY <1>2 DEF Safe
  <2> QED
    BY <1>1, <2>1 DEF Safe
<1> QED
  BY <1>1, <1>2

(* What is safe at an index is safe at every earlier one.                  *)
LEMMA SafeBelow ==
  ASSUME NEW H, H \subseteq Moment, NEW T, NEW k \in Nat, NEW n \in Nat, n <= k
  PROVE  /\ \A q : Accepted(H, q, T, k) => Accepted(H, q, T, n)
         /\ Safe(H, T, k) => Safe(H, T, n)
<1>1. \A h \in H : Len(h.log) \in Nat
  BY LenProperties DEF Moment
<1>2. ASSUME NEW q, Accepted(H, q, T, k) PROVE Accepted(H, q, T, n)
  <2>1. PICK h \in H : h.node = q /\ h.term = T /\ HasFrom(h.log, k, T)
    BY <1>2 DEF Accepted
  <2>2. HasFrom(h.log, n, T)
    BY <1>1, <2>1, HasFromLog
  <2> QED
    BY <2>1, <2>2 DEF Accepted
<1>3. ASSUME Safe(H, T, k) PROVE Safe(H, T, n)
  <2>1. PICK Q \in SUBSET Node : /\ IsMajority(Cardinality(Q))
                                 /\ \A q \in Q : Accepted(H, q, T, k)
    BY <1>3 DEF Safe
  <2> QED
    BY <1>2, <2>1 DEF Safe
<1> QED
  BY <1>2, <1>3

(* Not both: the majorities share a node.                                  *)
LEMMA SafeNotBlocked ==
  ASSUME NEW H, NEW T, NEW k, Safe(H, T, k)
  PROVE  ~Blocked(H, T, k)
<1> SUFFICES ASSUME Blocked(H, T, k) PROVE FALSE
  OBVIOUS
<1>1. PICK Q \in SUBSET Node : /\ IsMajority(Cardinality(Q))
                               /\ \A q \in Q : Accepted(H, q, T, k)
  BY DEF Safe
<1>2. PICK R \in SUBSET Node : /\ IsMajority(Cardinality(R))
                               /\ \A q \in R : ~Accepted(H, q, T, k)
  BY DEF Blocked
<1>3. PICK v \in Node : v \in Q /\ v \in R
  BY <1>1, <1>2, MajoritiesMeet
<1> QED
  BY <1>1, <1>2, <1>3

(* Logs with the same entry, or later ones of its term, agree up to it.    *)
LEMMA SameEntries ==
  ASSUME NEW s \in Seq(Entry), NEW r \in Seq(Entry), Coherent(s, r),
         Coherent(r, s), NEW T, NEW k \in Nat,
         HasFrom(s, k, T), HasFrom(r, k, T)
  PROVE  /\ k <= Len(s) /\ k <= Len(r)
         /\ \A m \in 1 .. k : s[m] = r[m]
<1>1. Len(s) \in Nat /\ Len(r) \in Nat
  BY LenProperties
<1>2. PICK a \in 1 .. Len(s) : k <= a /\ s[a].term = T
  BY DEF HasFrom
<1>3. PICK b \in 1 .. Len(r) : k <= b /\ r[b].term = T
  BY DEF HasFrom
<1>4. CASE a <= b
  <2>1. \A m \in 1 .. a : s[m] = r[m]
    BY <1>2, <1>3, <1>4 DEF Coherent
  <2> QED
    BY <1>1, <1>2, <1>3, <2>1
<1>5. CASE b <= a
  <2>1. \A m \in 1 .. b : r[m] = s[m]
    BY <1>2, <1>3, <1>5 DEF Coherent
  <2> QED
    BY <1>1, <1>2, <1>3, <2>1
<1> QED
  BY <1>1, <1>4, <1>5

-----------------------------------------------------------------------------
(***************************************************************************)
(* What a step does to the logs, again.                                    *)
(***************************************************************************)

(* Message m to node j is another node's that led its term, of a log that  *)
(* was; unless it is empty, the log has all that there is of the term.     *)
Delivery(H, j, m) ==
  \E s \in LogsOf(H), l \in Node \ {j} :
    /\ Sends(m, s, m.term) /\ LedWith(H, l, m.term, s)
    /\ m.entries # <<>> => HasAll(H, s, m.term)

LEMMA LogSteps ==
  ASSUME [Next]_vars
  PROVE  \/ UNCHANGED log
         \/ \E i \in Node, c \in Command : Start(i, c)
         \/ \E c \in Command, j \in Node : DeliverAppend(c, j)
         \/ \E i \in Node : BeatDelivers(i)
<1> DEFINE Kinds == \/ UNCHANGED log
                    \/ \E i \in Node, c \in Command : Start(i, c)
                    \/ \E c \in Command, j \in Node : DeliverAppend(c, j)
                    \/ \E i \in Node : BeatDelivers(i)
<1>1. ASSUME NEW i \in Node, NodeStep(i) PROVE Kinds
  <2>1. CASE BecomeCandidate(i) \/ BecomeLeader(i)
    BY <2>1 DEF BecomeCandidate, BecomeLeader
  <2>2. CASE StartReturns(i) \/ BeatBegins(i) \/ BeatFails(i) \/ BeatRefused(i)
    BY <2>2 DEF StartReturns, BeatBegins, BeatFails, BeatRefused
  <2>3. CASE \E j \in Node : RequestVote(i, j) \/ VoteRefused(i, j)
    BY <2>3 DEF RequestVote, VoteRefused
  <2>4. CASE BeatDelivers(i) \/ \E c \in Command : Start(i, c)
    BY <2>4
  <2> QED
    BY <1>1, <2>1, <2>2, <2>3, <2>4 DEF NodeStep
<1>2. ASSUME NEW c \in Command, NEW j \in Node, ThreadStep(c, j) PROVE Kinds
  <2>1. CASE SendAppend(c, j) \/ ThreadEnds(c, j)
    BY <2>1 DEF SendAppend, ThreadEnds
  <2>2. CASE CallFails(c, j) \/ ReceiveSuccess(c, j) \/ ReceiveRefusal(c, j)
    BY <2>2 DEF CallFails, ReceiveSuccess, ReceiveRefusal
  <2>3. CASE DeliverAppend(c, j)
    BY <2>3
  <2> QED
    BY <1>2, <2>1, <2>2, <2>3 DEF ThreadStep
<1>3. ASSUME NEW i \in Node, BeatSends(i) \/ HandlerStep(i) PROVE Kinds
  BY <1>3 DEF BeatSends, HandlerStep, HandlerApplies, HandlerReturns
<1>4. ASSUME NEW c \in Command, NEW j \in Node, CommitStep(c, j) PROVE Kinds
  BY <1>4 DEF CommitStep, ApplyNext, FinishCommit
<1>5. CASE UNCHANGED vars
  BY <1>5 DEF vars
<1>6. CASE Next
  BY <1>1, <1>2, <1>3, <1>4, <1>6 DEF Next
<1> QED
  BY <1>5, <1>6

LEMMA DeliveriesHold ==
  ASSUME NEW H, StayInv(H)
  PROVE  /\ \A c \in Command, j \in Node : DeliverAppend(c, j) =>
              LET m == thread[c][j].message
              IN  m \in Message /\ ReplyToAppend(j, m) /\ Delivery(H, j, m)
         /\ \A i \in Node : BeatDelivers(i) =>
              LET j == beat[i].to
                  m == beat[i].message
              IN  /\ j \in Node /\ m \in Message
                  /\ ReplyToAppend(j, m) /\ Delivery(H, j, m)
<1>1. LogInv(H) /\ \A c \in Command, j \in Node : CopyHolds(H, c, j)
  BY DEF StayInv
<1>2. TypeInv /\ TypeOK
  BY <1>1, PastKnown
<1>3. ASSUME NEW c \in Command, NEW j \in Node, DeliverAppend(c, j)
      PROVE  LET m == thread[c][j].message
             IN  m \in Message /\ ReplyToAppend(j, m) /\ Delivery(H, j, m)
  <2> DEFINE m == thread[c][j].message
             s == thread[c][j].copy
             l == operator[c].leader
  <2>1. thread[c][j].phase = "sent" /\ ReplyToAppend(j, m)
    BY <1>3 DEF DeliverAppend
  <2>2. UnderWay(thread[c][j]) /\ m \in Message /\ l \in Node \ {j}
    BY <1>2, <2>1, PhaseUnderWay DEF Thread
  <2>3. /\ LedWith(H, l, thread[c][j].term, s) /\ Sends(m, s, thread[c][j].term)
        /\ s \in LogsOf(H)
    BY <1>1, <2>1, <2>2, LedWithLog DEF LogInv, ThreadHolds
  <2>4. HasAll(H, s, thread[c][j].term)
    BY <1>1, <2>2 DEF CopyHolds
  <2>5. m.term = thread[c][j].term
    BY <2>3 DEF Sends
  <2> HIDE DEF m, s, l
  <2>6. Delivery(H, j, m)
    BY <2>2, <2>3, <2>4, <2>5 DEF Delivery
  <2> QED
    BY <2>1, <2>2, <2>6 DEF m
<1>4. ASSUME NEW i \in Node, BeatDelivers(i)
      PROVE  LET j == beat[i].to
                 m == beat[i].message
             IN  /\ j \in Node /\ m \in Message
                 /\ ReplyToAppend(j, m) /\ Delivery(H, j, m)
  <2> DEFINE j == beat[i].to
             m == beat[i].message
  <2>1. j \in Node /\ m \in Message /\ beat[i].phase = "sent"
    BY <1>2, <1>4 DEF BeatDelivers, TypeOK, Beat
  <2>2. ReplyToAppend(j, m)
    BY <1>4 DEF BeatDelivers
  <2>3. j # i /\ \E s \in LogsOf(H) : /\ LedWith(H, i, m.term, s)
                                      /\ Sends(m, s, m.term) /\ m.prev = Len(s)
    BY <1>1, <2>1 DEF LogInv, BeatHolds, Beats
  <2>4. PICK s \in LogsOf(H) : /\ LedWith(H, i, m.term, s)
                               /\ Sends(m, s, m.term) /\ m.prev = Len(s)
    BY <2>3
  <2>5. m.entries = <<>>
    <3>1. Len(s) \in Nat /\ s \in Seq(Entry)
      BY <1>1, PastKnown
    <3>2. SubSeq(s, Len(s) + 1, Len(s)) = <<>>
      BY <3>1, SubSeqEmpty
    <3> QED
      BY <2>4, <3>2 DEF Sends
  <2> HIDE DEF j, m
  <2>6. Delivery(H, j, m)
    BY <2>3, <2>4, <2>5 DEF Delivery
  <2> QED
    BY <2>1, <2>2, <2>6 DEF j, m
<1> QED
  BY <1>3, <1>4

LEMMA ReplyDoes ==
  ASSUME TypeOK, NEW j \in Node, NEW m \in Message, ReplyToAppend(j, m)
  PROVE  /\ log'[j] = LogAfter(j, m) /\ \A q \in Node \ {j} : log'[q] = log[q]
         /\ currentTerm'[j] >= m.term
         /\ m.term >= currentTerm[j] => currentTerm'[j] = m.term
<1>1. /\ log' = [log EXCEPT ![j] = LogAfter(j, m)] /\ RefreshTerm(j, m.term)
      /\ log \in [Node -> Seq(Entry)] /\ currentTerm \in [Node -> Nat]
      /\ m.term \in Nat
  BY DEF ReplyToAppend, TypeOK, Message
<1>2. log'[j] = LogAfter(j, m) /\ \A q \in Node \ {j} : log'[q] = log[q]
  BY <1>1
<1>3. CASE m.term > currentTerm[j]
  BY <1>1, <1>2, <1>3 DEF RefreshTerm
<1>4. CASE ~(m.term > currentTerm[j])
  <2>1. currentTerm'[j] = currentTerm[j]
    BY <1>1, <1>4 DEF RefreshTerm, electionVars
  <2> QED
    BY <1>1, <1>2, <1>4, <2>1
<1> QED
  BY <1>3, <1>4

(* The log of a node stays, grows by start, or is what a message makes of  *)
(* it.                                                                     *)
LEMMA LogMoves ==
  ASSUME NEW H, StayInv(H), [Next]_vars, NEW q \in Node
  PROVE  \/ log'[q] = log[q]
         \/ \E c \in Command : Start(q, c)
         \/ \E m \in Message : ReplyToAppend(q, m) /\ Delivery(H, q, m)
<1>1. TypeOK
  BY PastKnown DEF StayInv
<1>2. ASSUME NEW i \in Node, NEW c \in Command, Start(i, c), q # i
      PROVE  log'[q] = log[q]
  BY <1>1, <1>2, StartDoes
<1>3. ASSUME NEW j \in Node, NEW m \in Message, ReplyToAppend(j, m), q # j
      PROVE  log'[q] = log[q]
  BY <1>1, <1>3, ReplyDoes
<1>4. CASE \E c \in Command, j \in Node : DeliverAppend(c, j)
  <2>1. PICK c \in Command, j \in Node : DeliverAppend(c, j)
    BY <1>4
  <2>2. /\ thread[c][j].message \in Message
        /\ ReplyToAppend(j, thread[c][j].message)
        /\ Delivery(H, j, thread[c][j].message)
    BY <2>1, DeliveriesHold
  <2> QED
    BY <1>3, <2>2
<1>5. CASE \E i \in Node : BeatDelivers(i)
  <2>1. PICK i \in Node : BeatDelivers(i)
    BY <1>5
  <2>2. /\ beat[i].to \in Node /\ beat[i].message \in Message
        /\ ReplyToAppend(beat[i].to, beat[i].message)
        /\ Delivery(H, beat[i].to, beat[i].message)
    BY <2>1, DeliveriesHold
  <2> QED
    BY <1>3, <2>2
<1> QED
  BY <1>2, <1>4, <1>5, LogSteps

(* An entry stays that the log shares with the one that is sent, unless    *)
(* the message has entries and ends before it.                             *)
LEMMA EntryKept ==
  ASSUME TypeOK, NEW j \in Node, NEW m \in Message, NEW s \in Seq(Entry),
         Sends(m, s, m.term), NEW n \in 1 .. Len(log[j]),
         \A k \in 1 .. n : k <= Len(s) => log[j][k] = s[k],
         n <= Len(s) \/ m.entries = <<>>
  PROVE  n \in 1 .. Len(LogAfter(j, m)) /\ LogAfter(j, m)[n] = log[j][n]
<1>1. /\ log[j] \in Seq(Entry) /\ Len(log[j]) \in Nat /\ Len(s) \in Nat
      /\ m.prev \in Nat /\ m.prev <= Len(s)
      /\ m.entries = SubSeq(s, m.prev + 1, Len(s))
  BY LenProperties DEF TypeOK, Message, Sends
<1>2. CASE LogAfter(j, m) = log[j]
  BY <1>2
<1> DEFINE a == Truncate(log[j], m.prev)
           b == m.entries
<1>3. /\ a \in Seq(Entry) /\ Len(a) = Smaller(m.prev, Len(log[j]))
      /\ Extends(log[j], a)
  BY <1>1, TruncateStarts
<1>4. CASE ~IsLegal(j, m) /\ LogAfter(j, m) # log[j]
  <2>1. LogAfter(j, m) = a \o <<>>
    BY <1>4 DEF LogAfter
  <2>2. LogAfter(j, m) = a
    BY <1>3, <2>1, ConcatEmptySeq
  <2>3. n <= m.prev
    <3>1. CASE Len(log[j]) < m.prev
      BY <1>1, <3>1
    <3>2. CASE ~(Len(log[j]) < m.prev)
      <4>1. m.prev > 0 /\ log[j][m.prev].term # s[m.prev].term
        BY <1>1, <1>4, <3>2 DEF IsLegal, Sends
      <4>2. ~(m.prev \in 1 .. n)
        BY <1>1, <4>1
      <4> QED
        BY <1>1, <4>1, <4>2
    <3> QED
      BY <3>1, <3>2
  <2> HIDE DEF a
  <2>4. n \in 1 .. Len(a)
    BY <1>1, <1>3, <2>3 DEF Smaller
  <2> QED
    BY <1>3, <2>2, <2>4 DEF Extends
<1>5. CASE IsLegal(j, m) /\ LogAfter(j, m) # log[j]
  <2>1. LogAfter(j, m) = a \o b /\ b # <<>> /\ Len(log[j]) >= m.prev
    BY <1>5 DEF LogAfter, IsLegal
  <2>2. n <= Len(s) /\ n \in Nat
    BY <1>1, <2>1
  <2>3. /\ b \in Seq(Entry) /\ Len(b) = Len(s) - m.prev
        /\ \A k \in 1 .. Len(s) - m.prev : b[k] = s[m.prev + k]
    BY <1>1, SubSeqProperties
  <2> HIDE DEF a, b
  <2>4. Len(a) = m.prev
    BY <1>1, <1>3, <2>1 DEF Smaller
  <2>5. /\ Len(a \o b) = Len(a) + Len(b)
        /\ \A k \in 1 .. Len(a) + Len(b) :
             (a \o b)[k] = IF k <= Len(a) THEN a[k] ELSE b[k - Len(a)]
    BY <1>3, <2>3, ConcatProperties
  <2>6. Len(a \o b) = Len(s)
    BY <1>1, <2>3, <2>4, <2>5
  <2>7. n \in 1 .. Len(a) + Len(b)
    BY <1>1, <2>2, <2>3, <2>4
  <2>8. CASE n <= m.prev
    <3>1. (a \o b)[n] = a[n] /\ n \in 1 .. Len(a)
      BY <2>4, <2>5, <2>7, <2>8
    <3>2. a[n] = log[j][n]
      BY <1>3, <3>1 DEF Extends
    <3> QED
      BY <2>1, <2>2, <2>6, <3>1, <3>2
  <2>9. CASE n > m.prev
    <3>1. PICK d \in 1 .. Len(s) - m.prev : d = n - m.prev
      BY <1>1, <2>2, <2>9
    <3>2. (a \o b)[n] = b[d]
      BY <1>1, <2>2, <2>4, <2>5, <2>7, <2>9, <3>1
    <3>3. b[d] = s[m.prev + d] /\ m.prev + d = n
      BY <1>1, <2>2, <2>3, <3>1
    <3>4. s[n] = log[j][n]
      BY <2>2
    <3> QED
      BY <2>1, <2>2, <2>6, <3>2, <3>3, <3>4
  <2> QED
    BY <1>1, <2>2, <2>8, <2>9
<1> QED
  BY <1>2, <1>4, <1>5

-----------------------------------------------------------------------------
(***************************************************************************)
(* Terms in a log, and the logs of leaders.                                *)
(***************************************************************************)

LEMMA AscendsStart ==
  ASSUME NEW s \in Seq(Entry), NEW r \in Seq(Entry), Extends(s, r),
         NEW t \in Nat, NEW u \in Nat, t <= u, Ascends(s, t)
  PROVE  Ascends(r, u)
<1>1. Len(s) \in Nat /\ Len(r) \in Nat /\ Len(r) <= Len(s)
  BY LenProperties DEF Extends
<1>2. ASSUME NEW n \in 1 .. Len(r)
      PROVE  /\ r[n].term <= u
             /\ \A m \in 1 .. n : r[m].term <= r[n].term
  <2>1. n \in 1 .. Len(s) /\ \A m \in 1 .. n : m \in 1 .. Len(r)
    BY <1>1
  <2>2. \A m \in 1 .. n : r[m] = s[m]
    BY <2>1 DEF Extends
  <2>3. r[n] = s[n] /\ s[n].term \in Nat
    BY <2>1, EntriesHaveTerms DEF Extends
  <2>4. s[n].term <= t /\ \A m \in 1 .. n : s[m].term <= s[n].term
    BY <2>1 DEF Ascends
  <2> QED
    BY <2>2, <2>3, <2>4
<1> QED
  BY <1>2 DEF Ascends

LEMMA OrderedNext ==
  ASSUME NEW H, StayInv(H), [Next]_vars,
         NEW G, G = H \cup {Now(q)' : q \in Node}
  PROVE  Ordered(G)
<1>1. LogInv(H) /\ Ordered(H) /\ TypeInv /\ TypeOK /\ PastHolds(H)
  BY PastKnown DEF StayInv
<1>2. TypeOK'
  BY <1>1, NextTyped DEF TypeInv
<1>3. ASSUME NEW q \in Node PROVE Ascends(log'[q], currentTerm'[q])
  <2>1. /\ currentTerm[q] \in Nat /\ currentTerm'[q] \in Nat
        /\ currentTerm[q] <= currentTerm'[q]
        /\ log[q] \in Seq(Entry) /\ log'[q] \in Seq(Entry)
    BY <1>1, <1>2, TermsOnlyGrow DEF TypeOK, TermsGrow
  <2>2. Ascends(log[q], currentTerm[q])
    BY <1>1, NowStays DEF Ordered
  <2>3. CASE log'[q] = log[q]
    BY <2>1, <2>2, <2>3, AscendsStart, ExtendsItself
  <2>4. ASSUME NEW c \in Command, Start(q, c)
        PROVE  Ascends(log'[q], currentTerm'[q])
    <3>1. /\ UNCHANGED electionVars /\ Len(log'[q]) = Len(log[q]) + 1
          /\ Extends(log'[q], log[q])
          /\ log'[q][Len(log[q]) + 1].term = currentTerm[q]
      BY <1>1, <2>4, StartDoes
    <3>2. currentTerm'[q] = currentTerm[q] /\ Len(log[q]) \in Nat
      BY <2>1, <3>1, LenProperties DEF electionVars
    <3>3. ASSUME NEW n \in 1 .. Len(log'[q])
          PROVE  /\ log'[q][n].term <= currentTerm[q]
                 /\ \A m \in 1 .. n : log'[q][m].term <= log'[q][n].term
      <4>1. CASE n = Len(log[q]) + 1
        <5>1. log'[q][n].term = currentTerm[q]
          BY <3>1, <4>1
        <5>2. ASSUME NEW m \in 1 .. n PROVE log'[q][m].term <= currentTerm[q]
          <6>1. CASE m = n
            BY <2>1, <5>1, <6>1
          <6>2. CASE m # n
            <7>1. m \in 1 .. Len(log[q])
              BY <3>2, <4>1, <6>2
            <7> QED
              BY <2>2, <3>1, <7>1 DEF Extends, Ascends
          <6> QED
            BY <6>1, <6>2
        <5> QED
          BY <2>1, <5>1, <5>2
      <4>2. CASE n # Len(log[q]) + 1
        <5>1. /\ n \in 1 .. Len(log[q])
              /\ \A m \in 1 .. n : m \in 1 .. Len(log[q])
          BY <3>1, <3>2, <4>2
        <5>2. \A m \in 1 .. n : log'[q][m] = log[q][m]
          BY <3>1, <5>1 DEF Extends
        <5>3. log'[q][n] = log[q][n]
          BY <3>1, <5>1 DEF Extends
        <5> QED
          BY <2>2, <5>1, <5>2, <5>3 DEF Ascends
      <4> QED
        BY <4>1, <4>2
    <3> QED
      BY <3>2, <3>3 DEF Ascends
  <2>5. ASSUME NEW m \in Message, ReplyToAppend(q, m), Delivery(H, q, m)
        PROVE  Ascends(log'[q], currentTerm'[q])
    <3>1. log'[q] = LogAfter(q, m) /\ currentTerm'[q] >= m.term
      BY <1>1, <2>5, ReplyDoes
    <3>2. PICK s \in LogsOf(H), l \in Node :
            Sends(m, s, m.term) /\ LedWith(H, l, m.term, s)
      BY <2>5 DEF Delivery
    <3>3. Ascends(s, m.term)
      BY <1>1, <3>2 DEF LedWith, Ordered
    <3>4. s \in Seq(Entry) /\ Coherent(log[q], s) /\ m.term \in Nat
      BY <1>1, PastKnown DEF LogsCohere, Message
    <3>5. LogAfter(q, m) = s \/ Extends(log[q], LogAfter(q, m))
      BY <1>1, <3>2, <3>4, LogReplaced
    <3>6. CASE log'[q] = s
      <4>1. Extends(s, log'[q])
        BY <3>4, <3>6, ExtendsItself
      <4> QED
        BY <2>1, <3>1, <3>3, <3>4, <4>1, AscendsStart
    <3>7. CASE Extends(log[q], log'[q])
      BY <2>1, <2>2, <3>7, AscendsStart
    <3> QED
      BY <3>1, <3>5, <3>6, <3>7
  <2> QED
    BY <2>3, <2>4, <2>5, LogMoves
<1> QED
  BY <1>1, <1>3, PastOrNow DEF Ordered

(* A leader of a term is the one leader of it.                             *)
LEMMA OneLeader ==
  ASSUME NEW H, LogInv(H), NEW i \in Node, role[i] = "LEADER"
  PROVE  \A g \in H : g.role = "LEADER" /\ g.term = currentTerm[i] => g.node = i
<1>1. VotesOnce(H) /\ Elected(H, i, currentTerm[i])
  BY DEF LogInv, PastHolds, ElectionsHold
<1>2. ASSUME NEW g \in H, g.role = "LEADER", g.term = currentTerm[i]
      PROVE  g.node = i
  <2>1. Elected(H, g.node, currentTerm[i]) /\ g.node \in Node
    BY <1>2, PastKnown DEF LogInv, LeadersHold
  <2> QED
    BY <1>1, <2>1, ElectedOnce
<1> QED
  BY <1>2

LEMMA LeadersAddNext ==
  ASSUME NEW H, StayInv(H), [Next]_vars,
         NEW G, G = H \cup {Now(q)' : q \in Node}
  PROVE  LeadersAdd(G)'
<1>1. LogInv(H) /\ LeadersAdd(H) /\ TypeInv /\ TypeOK /\ PastHolds(H)
  BY PastKnown DEF StayInv
<1>2. TypeOK'
  BY <1>1, NextTyped DEF TypeInv
<1> SUFFICES ASSUME NEW g \in G, g.role = "LEADER", role'[g.node] = "LEADER",
                    currentTerm'[g.node] = g.term
             PROVE  Extends(log'[g.node], g.log)
  BY DEF LeadersAdd, Extends
<1>3. CASE g \in H
  <2>1. PICK q \in Node : q = g.node
    BY <1>1, <1>3, PastKnown
  <2>2. currentTerm'[q] = currentTerm[q] /\ role[q] \in {"LEADER", "CANDIDATE"}
    BY <1>1, <2>1, LeadersMove
  <2>3. role[q] = "LEADER"
    BY <1>1, <1>3, <2>1, <2>2 DEF LogInv, LeadersHold
  <2>4. Extends(log[q], g.log)
    BY <1>1, <1>3, <2>1, <2>2, <2>3 DEF LeadersAdd
  <2>5. Extends(log'[q], log[q])
    <3>1. log[q] \in Seq(Entry)
      BY <1>1 DEF TypeOK
    <3>2. Extends(log[q], log[q])
      BY <3>1, ExtendsItself
    <3>3. log'[q] = log[q] \/ \E c \in Command : Start(q, c)
      BY <1>1, <2>1, <2>3, LeaderLogs
    <3> QED
      BY <1>1, <3>2, <3>3, StartDoes
  <2>6. log'[q] \in Seq(Entry) /\ log[q] \in Seq(Entry) /\ g.log \in Seq(Entry)
    BY <1>1, <1>2, <1>3, PastKnown DEF TypeOK
  <2> QED
    BY <2>1, <2>4, <2>5, <2>6, ExtendsOn
<1>4. CASE g \notin H
  <2>1. PICK q \in Node : g.node = q /\ g.log = log'[q]
    BY <1>4, PastOrNow
  <2>2. log'[q] \in Seq(Entry)
    BY <1>2 DEF TypeOK
  <2> QED
    BY <2>1, <2>2, ExtendsItself
<1> QED
  BY <1>3, <1>4

LEMMA FollowsStart ==
  ASSUME NEW r \in Seq(Entry), NEW s \in Seq(Entry), Extends(r, s),
         NEW g, Follows(r, g)
  PROVE  Follows(s, g)
<1>1. Len(s) \in Nat /\ Len(r) \in Nat /\ Len(s) <= Len(r)
  BY LenProperties DEF Extends
<1> SUFFICES ASSUME NEW n \in 1 .. Len(s), s[n].term = g.term,
                    NEW m \in 1 .. n, m <= Len(g.log)
             PROVE  s[m] = g.log[m]
  BY DEF Follows
<1>2. n \in 1 .. Len(r) /\ m \in 1 .. Len(s)
  BY <1>1
<1>3. r[n] = s[n] /\ r[m] = s[m]
  BY <1>2 DEF Extends
<1> QED
  BY <1>2, <1>3 DEF Follows

(* Logs go on agreeing with the leaders there were.                        *)
LEMMA LogsFollow ==
  ASSUME NEW H, StayInv(H), [Next]_vars,
         NEW G, G = H \cup {Now(q)' : q \in Node},
         NEW g \in H, g.role = "LEADER", NEW s \in LogsOf(G)
  PROVE  Follows(s, g)
<1>1. /\ LogInv(H) /\ TypeOK /\ LeadersAgree(H) /\ LeadersAdd(H)
      /\ \A r \in LogsOf(H) : r \in Seq(Entry) /\ Follows(r, g)
  BY PastKnown DEF StayInv, LeadersAgree
<1>2. ASSUME NEW r \in LogsOf(H), Extends(r, s) PROVE Follows(s, g)
  <2>1. s \in Seq(Entry)
    <3>1. TypeOK'
      BY <1>1, PastKnown, NextTyped DEF TypeInv
    <3>2. PICK h \in G : s = h.log
      BY DEF LogsOf
    <3>3. CASE h \in H
      BY <1>1, <3>2, <3>3, PastKnown
    <3>4. ASSUME NEW q \in Node, h.log = log'[q] PROVE s \in Seq(Entry)
      BY <3>1, <3>2, <3>4 DEF TypeOK
    <3> QED
      BY <3>3, <3>4, PastOrNow
  <2> QED
    BY <1>1, <1>2, <2>1, FollowsStart
<1>3. ASSUME NEW i \in Node, NEW c \in Command, Start(i, c), s = log'[i]
      PROVE  Follows(s, g)
  <2>1. /\ role[i] = "LEADER" /\ s \in Seq(Entry)
        /\ Len(s) = Len(log[i]) + 1 /\ Extends(s, log[i])
        /\ s[Len(log[i]) + 1].term = currentTerm[i]
    BY <1>1, <1>3, StartDoes
  <2>2. Follows(log[i], g) /\ Len(log[i]) \in Nat
    BY <1>1, PastKnown
  <2> SUFFICES ASSUME NEW n \in 1 .. Len(s), s[n].term = g.term,
                      NEW m \in 1 .. n, m <= Len(g.log)
               PROVE  s[m] = g.log[m]
    BY DEF Follows
  <2>3. CASE n = Len(log[i]) + 1
    <3>1. g.node = i /\ g.term = currentTerm[i]
      BY <1>1, <2>1, <2>3, OneLeader
    <3>2. Extends(log[i], g.log)
      BY <1>1, <2>1, <3>1 DEF LeadersAdd
    <3>3. Len(g.log) \in Nat /\ Len(g.log) <= Len(log[i])
      BY <1>1, <3>2, PastKnown DEF Extends
    <3>4. m \in 1 .. Len(g.log) /\ m \in 1 .. Len(log[i])
      BY <2>2, <2>3, <3>3
    <3> QED
      BY <2>1, <3>2, <3>4 DEF Extends
  <2>4. CASE n # Len(log[i]) + 1
    <3>1. n \in 1 .. Len(log[i]) /\ m \in 1 .. Len(log[i])
      BY <2>1, <2>2, <2>4
    <3>2. s[n] = log[i][n] /\ s[m] = log[i][m]
      BY <2>1, <3>1 DEF Extends
    <3> QED
      BY <2>2, <3>1, <3>2 DEF Follows
  <2> QED
    BY <2>3, <2>4
<1> QED
  BY <1>1, <1>2, <1>3, PastLogs

LEMMA LeadersAgreeNext ==
  ASSUME NEW H, StayInv(H), [Next]_vars,
         NEW G, G = H \cup {Now(q)' : q \in Node},
         PastHolds(G)', ElectionsHold(G)'
  PROVE  LeadersAgree(G)
<1>1. /\ LogInv(H) /\ TypeOK /\ TypeInv /\ PastHolds(H) /\ LeadersHaveAll(H)
  BY PastKnown DEF StayInv, LogInv
<1> SUFFICES ASSUME NEW g \in G, g.role = "LEADER", NEW s \in LogsOf(G)
             PROVE  Follows(s, g)
  BY DEF LeadersAgree
<1>2. CASE g \in H
  BY <1>2, LogsFollow
<1>3. ASSUME NEW q \in Node, g.term = currentTerm'[q], g.log = log'[q],
             role'[q] = "LEADER"
      PROVE  Follows(s, g)
  <2>1. /\ currentTerm'[q] = currentTerm[q]
        /\ role[q] = "LEADER" \/ (role[q] = "CANDIDATE" /\ BecomeLeader(q))
    BY <1>1, <1>3, LeadersMove
  <2>2. CASE role[q] = "LEADER"
    <3>1. PICK h \in H : /\ h.term = currentTerm[q] /\ h.role = "LEADER"
                         /\ h.log = log[q]
      BY <1>1, <2>2, NowStays
    <3>2. Follows(s, h)
      BY <3>1, LogsFollow
    <3>3. CASE log'[q] = log[q]
      BY <1>3, <2>1, <3>1, <3>2, <3>3 DEF Follows
    <3>4. ASSUME NEW c \in Command, Start(q, c) PROVE Follows(s, g)
      <4>1. /\ Extends(log'[q], log[q]) /\ Len(log'[q]) = Len(log[q]) + 1
            /\ Len(log[q]) \in Nat
        BY <1>1, <3>4, StartDoes, PastKnown
      <4>2. ASSUME NEW r \in LogsOf(H), Extends(r, s) PROVE Follows(s, g)
        <5> SUFFICES ASSUME NEW n \in 1 .. Len(s), s[n].term = g.term,
                            NEW m \in 1 .. n, m <= Len(g.log)
                     PROVE  s[m] = g.log[m]
          BY DEF Follows
        <5>1. Len(r) \in Nat
          BY <1>1, PastKnown
        <5>2. n \in 1 .. Len(r) /\ r[n] = s[n] /\ Len(s) <= Len(r)
          BY <4>2, <5>1 DEF Extends
        <5>3. n <= Len(log[q])
          BY <1>1, <1>3, <2>1, <2>2, <5>2 DEF LeadersHaveAll
        <5>4. m \in 1 .. Len(log[q])
          BY <4>1, <5>2, <5>3
        <5>5. s[m] = log[q][m]
          BY <1>3, <2>1, <3>1, <3>2, <4>1, <5>4 DEF Follows
        <5> QED
          BY <1>3, <4>1, <5>4, <5>5 DEF Extends
      <4>3. ASSUME NEW i \in Node, NEW d \in Command, Start(i, d), s = log'[i]
            PROVE  Follows(s, g)
        <5>1. i = q
          <6>1. i # q => log'[q] = log[q]
            BY <1>1, <4>3, StartDoes
          <6>2. log'[q] # log[q]
            BY <4>1
          <6> QED
            BY <6>1, <6>2
        <5> QED
          BY <1>3, <4>3, <5>1 DEF Follows
      <4> QED
        BY <1>1, <4>2, <4>3, PastLogs
    <3> QED
      BY <1>1, <1>3, <2>2, <3>3, <3>4, LeaderLogs
  <2>3. CASE role[q] = "CANDIDATE"
    <3> SUFFICES ASSUME NEW n \in 1 .. Len(s), s[n].term = g.term PROVE FALSE
      BY DEF Follows
    <3>1. ASSUME NEW r \in LogsOf(H), Extends(r, s) PROVE FALSE
      <4>1. Len(r) \in Nat
        BY <1>1, PastKnown
      <4>2. n \in 1 .. Len(r) /\ r[n] = s[n]
        BY <3>1, <4>1 DEF Extends
      <4> QED
        BY <1>1, <1>3, <2>3, <4>2, NewTermIsNew
    <3>2. ASSUME NEW i \in Node, NEW d \in Command, Start(i, d) PROVE FALSE
      BY <1>1, <1>3, <2>3, <3>2, StartDoes DEF electionVars
    <3> QED
      BY <1>1, <3>1, <3>2, PastLogs
  <2> QED
    BY <2>1, <2>2, <2>3
<1> QED
  BY <1>2, <1>3, PastOrNow

LEMMA CopiesHoldNext ==
  ASSUME NEW H, StayInv(H), [Next]_vars, "overtake" \notin Races,
         NEW G, G = H \cup {Now(q)' : q \in Node},
         NEW c \in Command, NEW j \in Node
  PROVE  CopyHolds(G, c, j)'
<1>1. /\ LogInv(H) /\ TypeOK /\ TypeInv /\ PastHolds(H) /\ LeadersHaveAll(H)
      /\ CopyHolds(H, c, j)
  BY PastKnown DEF StayInv, LogInv
<1> DEFINE t == thread'[c][j]
<1> SUFFICES ASSUME UnderWay(t), NEW s \in LogsOf(G), NEW n \in 1 .. Len(s),
                    s[n].term = t.term
             PROVE  n <= Len(t.copy)
  BY DEF CopyHolds, HasAll, LogsOf
<1>2. ASSUME UnderWay(thread[c][j]), t.term = thread[c][j].term,
             t.copy = thread[c][j].copy
      PROVE  n <= Len(t.copy)
  <2>1. HasAll(H, t.copy, t.term)
    BY <1>1, <1>2 DEF CopyHolds
  <2> HIDE DEF t
  <2>2. ASSUME NEW r \in LogsOf(H), n \in 1 .. Len(r), r[n] = s[n]
        PROVE  n <= Len(t.copy)
    BY <2>1, <2>2 DEF HasAll
  <2>3. ASSUME NEW r \in LogsOf(H), Extends(r, s) PROVE n <= Len(t.copy)
    <3>1. Len(r) \in Nat
      BY <1>1, PastKnown
    <3>2. n \in 1 .. Len(r) /\ r[n] = s[n]
      BY <2>3, <3>1 DEF Extends
    <3> QED
      BY <2>2, <3>2
  <2>4. ASSUME NEW i \in Node, NEW d \in Command, Start(i, d), s = log'[i]
        PROVE  n <= Len(t.copy)
    <3>1. /\ role[i] = "LEADER" /\ Len(s) = Len(log[i]) + 1
          /\ Extends(s, log[i]) /\ Len(log[i]) \in Nat
          /\ s[Len(log[i]) + 1].term = currentTerm[i]
      BY <1>1, <2>4, StartDoes, PastKnown
    <3>2. CASE n = Len(log[i]) + 1
      <4>1. t.term = currentTerm[i]
        BY <3>1, <3>2
      <4>2. LedWith(H, operator[c].leader, t.term, t.copy)
        BY <1>1, <1>2 DEF LogInv, ThreadHolds
      <4>3. operator[c].leader = i
        BY <1>1, <3>1, <4>1, <4>2, OneLeader DEF LedWith
      <4>4. Sending(i)
        BY <1>2, <4>3 DEF Sending
      <4> QED
        BY <2>4, <4>4 DEF Start
    <3>3. CASE n # Len(log[i]) + 1
      <4>1. n \in 1 .. Len(log[i])
        BY <3>1, <3>3
      <4>2. log[i][n] = s[n] /\ log[i] \in LogsOf(H)
        BY <1>1, <3>1, <4>1, LogsAreKnown DEF Extends
      <4> QED
        BY <2>2, <4>1, <4>2
    <3> QED
      BY <3>2, <3>3
  <2> QED
    BY <1>1, <2>3, <2>4, PastLogs
<1>3. ASSUME NEW i \in Node, Start(i, c) PROVE n <= Len(t.copy)
  <2>1. /\ role[i] = "LEADER" /\ Len(log'[i]) = Len(log[i]) + 1
        /\ Len(log[i]) \in Nat
    BY <1>1, <1>3, StartDoes, PastKnown
  <2>2. t.term = currentTerm[i] /\ t.copy = log'[i]
    <3> DEFINE new == [NoThread EXCEPT !.phase = "new", !.term = currentTerm[i],
                                       !.copy = log'[i]]
    <3>1. t = IF j = i THEN NoThread ELSE new
      BY <1>1, <1>3 DEF Start, TypeOK
    <3>2. t = new
      BY <3>1, ThreadEnded
    <3>3. new.term = currentTerm[i] /\ new.copy = log'[i]
      BY DEF NoThread
    <3> QED
      BY <3>2, <3>3
  <2> HIDE DEF t
  <2>3. ASSUME NEW r \in LogsOf(H), Extends(r, s) PROVE n <= Len(t.copy)
    <3>1. Len(r) \in Nat
      BY <1>1, PastKnown
    <3>2. n \in 1 .. Len(r) /\ r[n] = s[n]
      BY <2>3, <3>1 DEF Extends
    <3>3. n <= Len(log[i])
      BY <1>1, <2>1, <2>2, <3>2 DEF LeadersHaveAll
    <3> QED
      BY <2>1, <2>2, <3>2, <3>3
  <2>4. ASSUME NEW k \in Node, NEW d \in Command, Start(k, d), s = log'[k]
        PROVE  n <= Len(t.copy)
    <3>1. k = i
      <4>1. k # i => log'[i] = log[i]
        BY <1>1, <2>4, StartDoes
      <4>2. log'[i] # log[i]
        BY <2>1
      <4> QED
        BY <4>1, <4>2
    <3>2. s = t.copy
      BY <2>2, <2>4, <3>1
    <3> QED
      BY <2>1, <2>2, <3>2
  <2> QED
    BY <1>1, <2>3, <2>4, PastLogs
<1>4. CASE SameThread(c, j)
  BY <1>2, <1>4 DEF SameThread
<1>5. CASE SendAppend(c, j)
  BY <1>1, <1>2, <1>5, SendAppendSends
<1> QED
  BY <1>1, <1>3, <1>4, <1>5, ThreadsMove

-----------------------------------------------------------------------------
(***************************************************************************)
(* Entries that stay.                                                      *)
(***************************************************************************)

LEMMA BlockedStays ==
  ASSUME NEW H, LogInv(H), [Next]_vars,
         NEW G, G = H \cup {Now(q)' : q \in Node},
         NEW T \in Nat, NEW k \in Nat, Blocked(H, T, k)
  PROVE  Blocked(G, T, k)'
<1>1. PICK Q \in SUBSET Node :
        /\ IsMajority(Cardinality(Q))
        /\ \A q \in Q : currentTerm[q] > T /\ ~Accepted(H, q, T, k)
  BY DEF Blocked
<1>2. ASSUME NEW q \in Q
      PROVE  currentTerm'[q] > T /\ ~Accepted(G, q, T, k)
  <2>1. currentTerm'[q] > T
    <3>1. TypeOK /\ TypeOK' /\ TypeInv
      BY PastKnown, NextTyped DEF TypeInv
    <3>2. currentTerm[q] \in Nat /\ currentTerm'[q] \in Nat
      BY <3>1 DEF TypeOK
    <3>3. currentTerm'[q] >= currentTerm[q]
      BY <3>1, TermsOnlyGrow DEF TermsGrow
    <3> QED
      BY <1>1, <3>2, <3>3
  <2>2. ASSUME NEW h \in G, h.node = q, h.term = T PROVE h \in H
    BY <2>1, <2>2, PastOrNow
  <2> QED
    BY <1>1, <2>1, <2>2 DEF Accepted
<1> QED
  BY <1>1, <1>2 DEF Blocked, Accepted, HasFrom, IsMajority, Node

(* An entry that later leaders have is not lost: who sends a message has   *)
(* it too, and a refused one ends behind it.                               *)
LEMMA EntryStays ==
  ASSUME NEW H, StayInv(H), [Next]_vars, NEW q \in Node,
         NEW T \in Nat, NEW k \in Nat, Complete(H, T, k),
         HasFrom(log[q], k, T)
  PROVE  HasFrom(log'[q], k, T)
<1>1. /\ LogInv(H) /\ TypeOK /\ PastHolds(H) /\ LogsCohere(H)
      /\ log[q] \in Seq(Entry) /\ log[q] \in LogsOf(H)
      /\ Len(log[q]) \in Nat
  BY PastKnown, LenProperties DEF StayInv
<1>2. PICK n \in 1 .. Len(log[q]) : k <= n /\ log[q][n].term = T
  BY DEF HasFrom
<1>3. ASSUME NEW c \in Command, Start(q, c) PROVE HasFrom(log'[q], k, T)
  <2>1. /\ Extends(log'[q], log[q]) /\ Len(log'[q]) = Len(log[q]) + 1
    BY <1>1, <1>3, StartDoes
  <2> QED
    BY <1>1, <2>1, HasFromLog
<1>4. ASSUME NEW m \in Message, ReplyToAppend(q, m), Delivery(H, q, m)
      PROVE  HasFrom(log'[q], k, T)
  <2>1. log'[q] = LogAfter(q, m)
    BY <1>1, <1>4, ReplyDoes
  <2>2. CASE m.term < currentTerm[q]
    BY <2>1, <2>2 DEF LogAfter
  <2>3. CASE ~(m.term < currentTerm[q])
    <3>1. m.term \in Nat /\ currentTerm[q] \in Nat
      BY <1>1, PastKnown DEF Message
    <3>2. T <= currentTerm[q]
      <4>1. Ascends(log[q], currentTerm[q])
        BY <1>1, NowStays DEF StayInv, Ordered
      <4> QED
        BY <1>2, <4>1 DEF Ascends
    <3>3. PICK s \in LogsOf(H), l \in Node \ {q} :
            /\ Sends(m, s, m.term) /\ LedWith(H, l, m.term, s)
            /\ m.entries # <<>> => HasAll(H, s, m.term)
      BY <1>4 DEF Delivery
    <3>4. s \in Seq(Entry) /\ Len(s) \in Nat
      BY <1>1, PastKnown
    <3>5. PICK g \in H : /\ g.node = l /\ g.term = m.term
                         /\ g.role = "LEADER" /\ g.log = s
      BY <3>3 DEF LedWith
    <3>6. ASSUME NEW a \in 1 .. Len(log[q]), log[q][a].term = T, k <= a,
                 \A x \in 1 .. a : x <= Len(s) => log[q][x] = s[x],
                 a <= Len(s) \/ m.entries = <<>>
          PROVE  HasFrom(log'[q], k, T)
      <4>1. a \in 1 .. Len(log'[q]) /\ log'[q][a] = log[q][a]
        BY <1>1, <2>1, <3>3, <3>4, <3>6, EntryKept
      <4> QED
        BY <3>6, <4>1 DEF HasFrom
    <3>7. CASE m.term = T
      <4>1. Follows(log[q], g)
        BY <1>1, <3>5 DEF StayInv, LeadersAgree
      <4>2. \A x \in 1 .. n : x <= Len(s) => log[q][x] = s[x]
        BY <1>2, <3>5, <3>7, <4>1 DEF Follows
      <4>3. n <= Len(s) \/ m.entries = <<>>
        BY <1>1, <1>2, <3>3, <3>7 DEF HasAll
      <4> QED
        BY <1>2, <3>6, <4>2, <4>3
    <3>8. CASE m.term # T
      <4>1. HasFrom(s, k, T)
        <5>1. m.term > T
          BY <2>3, <3>1, <3>2, <3>8
        <5> QED
          BY <3>5, <5>1 DEF Complete
      <4>2. PICK b \in 1 .. Len(s) : k <= b /\ s[b].term = T
        BY <4>1 DEF HasFrom
      <4>3. Coherent(log[q], s) /\ Coherent(s, log[q])
        BY <1>1 DEF LogsCohere
      <4>4. CASE n <= b
        <5>1. \A x \in 1 .. n : log[q][x] = s[x]
          BY <1>2, <4>2, <4>3, <4>4 DEF Coherent
        <5>2. n <= Len(s)
          BY <3>4, <4>2, <4>4
        <5> QED
          BY <1>2, <3>6, <5>1, <5>2
      <4>5. CASE ~(n <= b)
        <5>1. b <= n /\ b \in 1 .. Len(log[q])
          BY <1>1, <3>4, <4>2, <4>5
        <5>2. \A x \in 1 .. b : s[x] = log[q][x]
          BY <1>2, <4>2, <4>3, <5>1 DEF Coherent
        <5>3. log[q][b].term = T /\ b <= Len(s)
          BY <3>4, <4>2, <5>2
        <5> QED
          BY <3>6, <4>2, <5>1, <5>2, <5>3
      <4> QED
        BY <4>4, <4>5
    <3> QED
      BY <3>7, <3>8
  <2> QED
    BY <2>2, <2>3
<1> QED
  BY <1>3, <1>4, LogMoves

(* A candidate with a majority has been told of the entry.                 *)
LEMMA LeadersHaveIt ==
  ASSUME NEW H, StayInv(H), [Next]_vars, NEW q \in Node, role'[q] = "LEADER",
         NEW T \in Nat, NEW k \in Nat, ~Blocked(H, T, k), Settled(H, T, k),
         currentTerm'[q] > T
  PROVE  HasFrom(log[q], k, T)
<1>1. LogInv(H) /\ TypeInv /\ TypeOK /\ PastHolds(H)
  BY PastKnown DEF StayInv
<1>2. /\ currentTerm'[q] = currentTerm[q]
      /\ role[q] = "LEADER" \/ (role[q] = "CANDIDATE" /\ BecomeLeader(q))
  BY <1>1, LeadersMove
<1>3. CASE role[q] = "LEADER"
  BY <1>1, <1>2, <1>3, NowStays DEF Settled, Complete
<1>4. CASE role[q] = "CANDIDATE" /\ BecomeLeader(q)
  <2>1. /\ votes[q] \in SUBSET Node /\ IsMajority(Cardinality(votes[q]))
        /\ \A v \in votes[q] : Voted(H, v, currentTerm[q], q)
    BY <1>1, <1>4 DEF BecomeLeader, TypeOK, LogInv, ElectionsHold
  <2>2. \A v \in votes[q] : currentTerm[v] > T
    <3> SUFFICES ASSUME NEW v \in votes[q] PROVE currentTerm[v] > T
      OBVIOUS
    <3>1. PICK h \in H : h.node = v /\ h.term = currentTerm[q]
      BY <2>1 DEF Voted
    <3>2. h.term <= currentTerm[v] /\ h.term \in Nat /\ currentTerm[v] \in Nat
      BY <1>1, <2>1, <3>1, PastKnown
    <3> QED
      BY <1>2, <3>1, <3>2
  <2>3. PICK v \in votes[q] : Accepted(H, v, T, k)
    BY <2>1, <2>2 DEF Blocked
  <2> QED
    BY <1>2, <1>4, <2>3 DEF Settled, Informed
<1> QED
  BY <1>2, <1>3, <1>4

LEMMA CompleteStays ==
  ASSUME NEW H, StayInv(H), [Next]_vars,
         NEW G, G = H \cup {Now(q)' : q \in Node},
         NEW T \in Nat, NEW k \in Nat, ~Blocked(H, T, k), Settled(H, T, k)
  PROVE  Complete(G, T, k)
<1>1. /\ LogInv(H) /\ TypeInv /\ TypeOK /\ PastHolds(H) /\ Complete(H, T, k)
      /\ Ordered(H)
  BY PastKnown DEF StayInv, Settled
<1>2. ASSUME NEW q \in Node, role'[q] = "LEADER", currentTerm'[q] > T
      PROVE  HasFrom(log'[q], k, T)
  BY <1>1, <1>2, LeadersHaveIt, EntryStays
<1>3. ASSUME NEW r \in LogsOf(H), NEW n \in 1 .. Len(r), r[n].term > T
      PROVE  \E b \in 1 .. Len(r) : b < n /\ k <= b /\ r[b].term = T
  <2>1. PICK h \in H : h.log = r
    BY DEF LogsOf
  <2>2. PICK b \in 1 .. Len(r) : k <= b /\ r[b].term = T
    BY <1>1, <1>3, <2>1 DEF Complete, HasFrom
  <2>3. Ascends(r, h.term) /\ r \in Seq(Entry) /\ Len(r) \in Nat
    BY <1>1, <2>1, PastKnown DEF Ordered
  <2>4. b < n
    <3>1. CASE n <= b
      <4>1. n \in 1 .. b
        BY <2>3, <3>1
      <4>2. r[n].term <= r[b].term
        BY <2>2, <2>3, <4>1 DEF Ascends
      <4>3. r[n].term \in Nat
        BY <2>3, EntriesHaveTerms
      <4> QED
        BY <1>3, <2>2, <4>2, <4>3
    <3> QED
      BY <2>3, <3>1
  <2> QED
    BY <2>2, <2>4
<1>4. ASSUME NEW q \in Node, NEW n \in 1 .. Len(log'[q]), log'[q][n].term > T
      PROVE  HasFrom(log'[q], k, T)
  <2>1. ASSUME NEW r \in LogsOf(H), Extends(r, log'[q])
        PROVE  HasFrom(log'[q], k, T)
    <3>1. Len(r) \in Nat
      BY <1>1, PastKnown
    <3>2. n \in 1 .. Len(r) /\ r[n] = log'[q][n]
      BY <2>1, <3>1 DEF Extends
    <3>3. PICK b \in 1 .. Len(r) : b < n /\ k <= b /\ r[b].term = T
      BY <1>3, <1>4, <3>2
    <3>4. b \in 1 .. Len(log'[q])
      BY <3>1, <3>3
    <3>5. log'[q][b] = r[b]
      BY <2>1, <3>4 DEF Extends
    <3> QED
      BY <3>3, <3>4, <3>5 DEF HasFrom
  <2>2. ASSUME NEW c \in Command, Start(q, c)
        PROVE  HasFrom(log'[q], k, T)
    <3>1. /\ role[q] = "LEADER" /\ UNCHANGED electionVars
          /\ Len(log'[q]) = Len(log[q]) + 1 /\ Extends(log'[q], log[q])
          /\ log'[q][Len(log[q]) + 1].term = currentTerm[q]
          /\ Len(log[q]) \in Nat /\ log[q] \in LogsOf(H)
      BY <1>1, <2>2, StartDoes, PastKnown
    <3>2. CASE n = Len(log[q]) + 1
      <4>1. role'[q] = "LEADER" /\ currentTerm'[q] > T
        BY <1>4, <3>1, <3>2 DEF electionVars
      <4> QED
        BY <1>2, <4>1
    <3>3. CASE n # Len(log[q]) + 1
      <4>1. n \in 1 .. Len(log[q]) /\ log[q][n] = log'[q][n]
        BY <3>1, <3>3 DEF Extends
      <4>2. HasFrom(log[q], k, T)
        BY <1>3, <1>4, <3>1, <4>1 DEF HasFrom
      <4> QED
        BY <1>1, <4>2, EntryStays
    <3> QED
      BY <3>2, <3>3
  <2> QED
    BY <1>1, <2>1, <2>2, LogsComeFrom
<1> SUFFICES ASSUME NEW h \in G,
                    \/ h.role = "LEADER" /\ h.term > T
                    \/ \E n \in 1 .. Len(h.log) : h.log[n].term > T
             PROVE  HasFrom(h.log, k, T)
  BY DEF Complete
<1>5. CASE h \in H
  BY <1>1, <1>5 DEF Complete
<1>6. ASSUME NEW q \in Node, h.term = currentTerm'[q], h.role = role'[q],
             h.log = log'[q]
      PROVE  HasFrom(h.log, k, T)
  BY <1>2, <1>4, <1>6
<1> QED
  BY <1>5, <1>6, PastOrNow

(* A candidate has the votes it had, its own, or one more from a node      *)
(* whose last entry is not ahead of its own.                               *)
LEMMA VotesMove ==
  ASSUME NEW H, LogInv(H), [Next]_vars, NEW i \in Node,
         role'[i] = "CANDIDATE", NEW v \in votes'[i]
  PROVE  \/ v = i
         \/ /\ role[i] = "CANDIDATE" /\ currentTerm'[i] = currentTerm[i]
            /\ \/ v \in votes[i]
               \/ /\ v \in Node
                  /\ AtLeastAsUpToDate(Last(log[v]), Last(log[i]))
<1> DEFINE P == \/ v = i
                \/ /\ role[i] = "CANDIDATE" /\ currentTerm'[i] = currentTerm[i]
                   /\ \/ v \in votes[i]
                      \/ /\ v \in Node
                         /\ AtLeastAsUpToDate(Last(log[v]), Last(log[i]))
<1>1. TypeInv /\ TypeOK
  BY PastKnown
<1>2. CASE UNCHANGED electionVars
  BY <1>2 DEF electionVars
<1>3. ASSUME NEW j \in Node, StepsDown(j) PROVE P
  BY <1>1, <1>3 DEF StepsDown, RefreshTerm, TypeOK
<1>4. ASSUME NEW j \in Node, BecomeCandidate(j) PROVE P
  BY <1>1, <1>4 DEF BecomeCandidate, TypeOK
<1>5. ASSUME NEW j \in Node, BecomeLeader(j) PROVE P
  BY <1>1, <1>5 DEF BecomeLeader, TypeOK
<1>6. ASSUME NEW x \in Node, NEW y \in Node, RequestVote(x, y) PROVE P
  <2>1. x # y
    BY <1>6 DEF RequestVote, LogInv, ElectionsHold
  <2>2. /\ \A q \in Node \ {y} : /\ currentTerm'[q] = currentTerm[q]
                                 /\ role'[q] = role[q]
        /\ \A q \in Node \ {x, y} : votes'[q] = votes[q]
        /\ currentTerm'[y] = currentTerm[x]
        /\ \/ votes'[x] = votes[x]
           \/ /\ votes'[x] = votes[x] \cup {y}
              /\ AtLeastAsUpToDate(Last(log[y]), Last(log[x]))
        /\ \/ currentTerm[x] > currentTerm[y] /\ role'[y] = "FOLLOWER"
           \/ /\ currentTerm[x] = currentTerm[y]
              /\ role'[y] = role[y] /\ votes'[y] = votes[y]
    BY <1>1, <1>6, <2>1, RequestVoteDoes
  <2>3. CASE i = y
    BY <2>2, <2>3
  <2>4. CASE i = x
    BY <2>1, <2>2, <2>4
  <2>5. CASE i # x /\ i # y
    BY <2>2, <2>5
  <2> QED
    BY <2>3, <2>4, <2>5
<1> QED
  BY <1>1, <1>2, <1>3, <1>4, <1>5, <1>6, ElectionKinds

(* Who is at least as up to date as a node that has the entry has it too.  *)
LEMMA UpToDate ==
  ASSUME NEW H, StayInv(H), NEW i \in Node, NEW v \in Node,
         AtLeastAsUpToDate(Last(log[v]), Last(log[i])),
         NEW T \in Nat, NEW k \in Nat, Complete(H, T, k),
         HasFrom(log[v], k, T)
  PROVE  HasFrom(log[i], k, T)
<1>1. /\ LogInv(H) /\ TypeOK /\ PastHolds(H) /\ LogsCohere(H) /\ Ordered(H)
      /\ \A q \in Node : /\ log[q] \in LogsOf(H) /\ log[q] \in Seq(Entry)
                         /\ Len(log[q]) \in Nat
                         /\ Ascends(log[q], currentTerm[q])
  <2>1. LogInv(H) /\ Ordered(H) /\ PastHolds(H)
    BY PastKnown DEF StayInv
  <2> QED
    BY <2>1, PastKnown, NowStays DEF Ordered
<1>2. PICK n \in 1 .. Len(log[v]) : k <= n /\ log[v][n].term = T
  BY DEF HasFrom
<1> DEFINE a == Len(log[v])
           b == Len(log[i])
<1>3. /\ a \in Nat /\ b \in Nat /\ a > 0 /\ n \in 1 .. a /\ a \in 1 .. a
  BY <1>1, <1>2
<1>4. log[v][a].term \in Nat /\ T <= log[v][a].term
  BY <1>1, <1>2, <1>3, EntriesHaveTerms DEF Ascends
<1>5. /\ Last(log[v]).term = log[v][a].term /\ Last(log[v]).index = a
      /\ Last(log[i]).index = b
      /\ b > 0 => Last(log[i]).term = log[i][b].term
      /\ b = 0 => Last(log[i]).term = 0
  <2>1. b = 0 => log[i] = <<>>
    BY <1>1, EmptySeq
  <2> QED
    BY <1>1, <1>3, <2>1, LastOfLog DEF Last
<1> HIDE DEF a, b
<1>6. CASE Last(log[i]).term = Last(log[v]).term /\ b >= a
  <2>1. b \in 1 .. b /\ a \in 1 .. b
    BY <1>3, <1>6
  <2>2. log[v][a].term = log[i][b].term
    BY <1>3, <1>5, <1>6, <2>1
  <2>3. Coherent(log[v], log[i])
    BY <1>1 DEF LogsCohere
  <2>4. \A m \in 1 .. a : log[v][m] = log[i][m]
    BY <1>3, <1>6, <2>1, <2>2, <2>3 DEF Coherent, a, b
  <2>5. n \in 1 .. b /\ log[i][n] = log[v][n]
    BY <1>3, <1>6, <2>4
  <2> QED
    BY <1>2, <2>5 DEF HasFrom, b
<1>7. CASE Last(log[i]).term > Last(log[v]).term
  <2>1. b > 0
    BY <1>3, <1>4, <1>5, <1>7
  <2>2. b \in 1 .. b /\ log[i][b].term > T
    <3>1. log[i][b].term \in Nat
      BY <1>1, <1>3, <2>1, EntriesHaveTerms DEF b
    <3> QED
      BY <1>3, <1>4, <1>5, <1>7, <2>1, <3>1
  <2>3. \E h \in H : h.log = log[i]
    BY <1>1, NowStays
  <2> QED
    BY <2>2, <2>3 DEF Complete, b
<1> QED
  BY <1>5, <1>6, <1>7 DEF AtLeastAsUpToDate

(* Who has left a term accepts nothing of it any more.                     *)
LEMMA AcceptedBefore ==
  ASSUME NEW H, LogInv(H), [Next]_vars,
         NEW G, G = H \cup {Now(q)' : q \in Node}, NEW v \in Node,
         NEW T \in Nat, NEW k, Accepted(G, v, T, k)
  PROVE  Accepted(H, v, T, k) \/ (currentTerm'[v] = T /\ HasFrom(log'[v], k, T))
<1>1. PICK h \in G : h.node = v /\ h.term = T /\ HasFrom(h.log, k, T)
  BY DEF Accepted
<1>2. CASE h \in H
  BY <1>1, <1>2 DEF Accepted
<1> QED
  BY <1>1, <1>2, PastOrNow

LEMMA SettledStays ==
  ASSUME NEW H, StayInv(H), [Next]_vars,
         NEW G, G = H \cup {Now(q)' : q \in Node}, ElectionsHold(G)',
         PastHolds(G)',
         NEW T \in Nat, NEW k \in Nat, ~Blocked(H, T, k), Settled(H, T, k)
  PROVE  Settled(G, T, k)'
<1>1. /\ LogInv(H) /\ TypeInv /\ TypeOK /\ Complete(H, T, k) /\ Kept(H, T, k)
      /\ Informed(H, T, k)
  BY PastKnown DEF StayInv, Settled
<1>2. TypeOK'
  BY <1>1, NextTyped DEF TypeInv
<1>3. ASSUME NEW q \in Node, HasFrom(log[q], k, T)
      PROVE  HasFrom(log'[q], k, T)
  BY <1>1, <1>3, EntryStays
<1>4. Complete(G, T, k)
  BY CompleteStays
<1>5. ASSUME NEW q \in Node, Accepted(G, q, T, k)
      PROVE  HasFrom(log'[q], k, T)
  BY <1>1, <1>3, <1>5, AcceptedBefore DEF Kept
<1>6. ASSUME NEW i \in Node, role'[i] = "CANDIDATE", currentTerm'[i] > T,
             NEW v \in votes'[i], Accepted(G, v, T, k)
      PROVE  HasFrom(log'[i], k, T)
  <2>1. v \in Node /\ Voted(G, v, currentTerm'[i], i)
    <3>1. v \in Node
      BY <1>2, <1>6 DEF TypeOK
    <3>2. \E h \in G : h.node = v /\ h.term = currentTerm'[i] /\ h.vote = i
      BY <1>6 DEF ElectionsHold, Voted
    <3> QED
      BY <3>1, <3>2 DEF Voted
  <2>2. currentTerm'[v] > T
    <3>1. PICK h \in G : h.node = v /\ h.term = currentTerm'[i]
      BY <2>1 DEF Voted
    <3>2. h.term <= currentTerm'[v]
      BY <3>1 DEF PastHolds
    <3> QED
      BY <1>2, <1>6, <2>1, <3>1, <3>2 DEF TypeOK
  <2>3. Accepted(H, v, T, k)
    BY <1>1, <1>6, <2>1, <2>2, AcceptedBefore
  <2>4. HasFrom(log[v], k, T)
    BY <1>1, <2>1, <2>3 DEF Kept
  <2>5. HasFrom(log[i], k, T)
    <3>1. CASE v = i
      BY <2>4, <3>1
    <3>2. CASE /\ role[i] = "CANDIDATE" /\ currentTerm'[i] = currentTerm[i]
               /\ v \in votes[i]
      BY <1>1, <1>6, <2>3, <3>2 DEF Informed
    <3>3. CASE AtLeastAsUpToDate(Last(log[v]), Last(log[i]))
      BY <1>1, <2>1, <2>4, <3>3, UpToDate
    <3> QED
      BY <1>1, <1>6, <3>1, <3>2, <3>3, VotesMove
  <2> QED
    BY <1>3, <2>5
<1>7. Complete(G, T, k)'
  BY <1>4 DEF Complete, HasFrom
<1>8. Kept(G, T, k)'
  BY <1>5 DEF Kept, Accepted, HasFrom, Node
<1>9. Informed(G, T, k)'
  BY <1>6 DEF Informed, Accepted, HasFrom, Node
<1> QED
  BY <1>7, <1>8, <1>9 DEF Settled

LEMMA StayInvInit ==
  ASSUME Init, NEW H, H = {Now(q) : q \in Node}
  PROVE  StayInv(H)
<1>1. LogInv(H)
  BY LogInvInit
<1>2. \A h \in H : /\ h.role = "FOLLOWER" /\ Len(h.log) = 0 /\ h.log = <<>>
                   /\ 1 .. Len(h.log) = {}
  <2>1. \A q \in Node : Now(q).role = "FOLLOWER" /\ Now(q).log = <<>>
    BY DEF Init, Now
  <2> HIDE DEF Now
  <2> QED
    BY <2>1
<1>3. Ordered(H) /\ LeadersAgree(H) /\ LeadersAdd(H)
  BY <1>2 DEF Ordered, Ascends, LeadersAgree, LeadersAdd
<1>4. \A c \in Command, j \in Node : CopyHolds(H, c, j)
  BY DEF Init, CopyHolds, UnderWay
<1>5. ASSUME NEW T \in Nat, NEW k \in Nat PROVE Settled(H, T, k)
  <2>1. \A h \in H : ~HasFrom(h.log, k, T)
    BY <1>2 DEF HasFrom
  <2>2. \A q \in Node : ~Accepted(H, q, T, k)
    BY <2>1 DEF Accepted
  <2>3. \A q \in Node : role[q] = "FOLLOWER"
    BY DEF Init
  <2> QED
    BY <1>2, <2>2, <2>3 DEF Settled, Complete, Kept, Informed
<1> QED
  BY <1>1, <1>3, <1>4, <1>5 DEF StayInv

LEMMA StayInvNext ==
  ASSUME NEW H, StayInv(H), [Next]_vars,
         Races \cap {"overtake", "beat", "return"} = {},
         NEW G, G = H \cup {Now(q)' : q \in Node}
  PROVE  StayInv(G)'
<1>1. LogInv(H) /\ "overtake" \notin Races
  BY DEF StayInv
<1>2. LogInv(G)'
  BY <1>1, LogInvNext
<1>3. PastHolds(G)' /\ ElectionsHold(G)'
  BY <1>2 DEF LogInv
<1>4. Ordered(G)'
  <2>1. Ordered(G)
    BY OrderedNext
  <2> QED
    BY <2>1 DEF Ordered, Ascends
<1>5. LeadersAgree(G)'
  <2>1. LeadersAgree(G)
    BY <1>3, LeadersAgreeNext
  <2> QED
    BY <2>1 DEF LeadersAgree, Follows, LogsOf
<1>6. LeadersAdd(G)'
  BY LeadersAddNext
<1>7. \A c \in Command, j \in Node : CopyHolds(G, c, j)'
  BY <1>1, CopiesHoldNext
<1>8. ASSUME NEW T \in Nat, NEW k \in Nat
      PROVE  (Blocked(G, T, k) \/ Settled(G, T, k))'
  <2>1. CASE Blocked(H, T, k)
    BY <1>1, <2>1, BlockedStays
  <2>2. CASE ~Blocked(H, T, k)
    <3>1. Settled(H, T, k)
      BY <2>2 DEF StayInv
    <3> QED
      BY <1>3, <2>2, <3>1, SettledStays
  <2> QED
    BY <2>1, <2>2
<1> QED
  BY <1>2, <1>4, <1>5, <1>6, <1>7, <1>8 DEF StayInv, Node, Command

-----------------------------------------------------------------------------
(***************************************************************************)
(* What a node has committed and applied.                                  *)
(***************************************************************************)

(* All threads under way of a node are of one command.                     *)
OneCommand ==
  \A c, d \in Command : \A j, k \in Node :
    /\ UnderWay(thread[c][j]) /\ UnderWay(thread[d][k])
    /\ operator[c].leader = operator[d].leader
    => c = d

(* The counter of a command counts nodes that have accepted it.            *)
Counted(H, c) ==
  \E T \in Nat, Q \in SUBSET Node :
    /\ Cardinality(Q) = operator[c].count
    /\ \A j \in Node : UnderWay(thread[c][j]) => thread[c][j].term = T
    /\ \A q \in Q : /\ Accepted(H, q, T, operator[c].index)
                    /\ UnderWay(thread[c][q]) => thread[c][q].phase = "applying"

(* A thread that was answered with success was answered by a node that     *)
(* accepted the command, one that applies has counted a majority of them.  *)
Replied(H, c, j) ==
  LET t == thread[c][j]
      o == operator[c]
  IN UnderWay(t) =>
       /\ t.success => Accepted(H, j, t.term, o.index)
       /\ t.phase = "applying" =>
            t.success /\ role[o.leader] = "LEADER" /\ Safe(H, t.term, o.index)

(* nextIndex of a leader is not behind the end of its log, nor behind the  *)
(* command that is on its way.                                             *)
NextHolds(i, j) ==
  role[i] = "LEADER" =>
    /\ nextIndex[i][j] <= Len(log[i]) + 1
    /\ \A c \in Command : operator[c].leader = i /\ UnderWay(thread[c][j])
                            => nextIndex[i][j] <= operator[c].index

(* What f says of each node, node l led term T and the node at position p  *)
(* has accepted.                                                           *)
Matches(H, l, T, p, f) ==
  \A j \in Node : f[j] > 0 => Led(H, l, T) /\ Accepted(H, p[j], T, f[j])

OneToOne == {p \in [Node -> Node] : \A a, b \in Node : p[a] = p[b] => a = b}

(* matchIndex of a node says, of the term it led last, what the nodes have *)
(* accepted, each node at a position of its own: while the node leads, at  *)
(* its own position.                                                       *)
MatchHolds(H, i) ==
  \E T \in Nat, p \in OneToOne :
    /\ role[i] = "LEADER" => T = currentTerm[i] /\ \A j \in Node : p[j] = j
    /\ Matches(H, i, T, p, matchIndex[i])

(* A commit index that is sent is that of the log that is sent.            *)
CommitSent(H, s, m) == m.commit > 0 => Durable(H, s, m.commit)

BeatCommits(H, i) ==
  LET m == beat[i].message
  IN beat[i].phase \in Beats =>
       \E s \in LogsOf(H) : /\ Sends(m, s, m.term) /\ LedWith(H, i, m.term, s)
                            /\ CommitSent(H, s, m)

(* What is committed or applied is durable.                                *)
AppliedHolds(H, i, n) ==
  logs[i][n] # 0 => /\ Durable(H, log[i], n)
                    /\ n <= Len(log[i]) /\ logs[i][n] = log[i][n].command

CommitInv(H) ==
  /\ StayInv(H)
  /\ OneCommand
  /\ \A c \in Command : Counted(H, c)
  /\ \A c \in Command, j \in Node :
       /\ Replied(H, c, j)
       /\ thread[c][j].phase = "sent" =>
            CommitSent(H, thread[c][j].copy, thread[c][j].message)
  /\ \A i, j \in Node : NextHolds(i, j)
  /\ \A i \in Node : MatchHolds(H, i)
  /\ \A i \in Node : BeatCommits(H, i)
  /\ \A i \in Node : commitIndex[i] > 0 => Durable(H, log[i], commitIndex[i])
  /\ \A i \in Node, n \in Command : AppliedHolds(H, i, n)

(* What is durable has the log it is of.                                   *)
LEMMA DurableIsThere ==
  ASSUME NEW H, NEW s, Len(s) \in Nat, NEW k \in Nat, Durable(H, s, k)
  PROVE  k <= Len(s)
BY DEF Durable, HasFrom

LEMMA DurableBelow ==
  ASSUME NEW H, H \subseteq Moment, NEW s, Len(s) \in Nat,
         NEW k \in Nat, Durable(H, s, k), NEW n \in Nat, n <= k
  PROVE  Durable(H, s, n)
<1>1. PICK T \in Nat : Safe(H, T, k) /\ HasFrom(s, k, T)
  BY DEF Durable
<1>2. Safe(H, T, n)
  BY <1>1, SafeBelow
<1>3. HasFrom(s, n, T)
  BY <1>1, HasFromLog
<1> QED
  BY <1>2, <1>3 DEF Durable

LEMMA DurableOn ==
  ASSUME NEW H, NEW G, H \subseteq G, NEW s, NEW r, Len(s) \in Nat,
         Len(r) \in Nat, Extends(r, s), NEW k \in Nat, Durable(H, s, k)
  PROVE  Durable(G, r, k)
<1>1. PICK T \in Nat : Safe(H, T, k) /\ HasFrom(s, k, T)
  BY DEF Durable
<1>2. Safe(G, T, k)
  BY <1>1, AcceptedStays
<1>3. HasFrom(r, k, T)
  BY <1>1, HasFromLog
<1> QED
  BY <1>2, <1>3 DEF Durable

(* What a majority accepted is in every log of a later leader.             *)
LEMMA SafeIsComplete ==
  ASSUME NEW H, StayInv(H), NEW T \in Nat, NEW k \in Nat, Safe(H, T, k)
  PROVE  Settled(H, T, k) /\ Complete(H, T, k) /\ Kept(H, T, k)
<1>1. ~Blocked(H, T, k)
  BY SafeNotBlocked
<1>2. Settled(H, T, k)
  BY <1>1 DEF StayInv
<1> QED
  BY <1>2 DEF Settled

(* It stays in the log of a node, whatever a step makes of the log.        *)
LEMMA DurableStays ==
  ASSUME NEW H, StayInv(H), [Next]_vars, NEW G, H \subseteq G,
         NEW q \in Node, NEW k \in Nat, Durable(H, log[q], k)
  PROVE  Durable(G, log'[q], k)
<1>1. PICK T \in Nat : Safe(H, T, k) /\ HasFrom(log[q], k, T)
  BY DEF Durable
<1>2. Complete(H, T, k)
  BY <1>1, SafeIsComplete
<1>3. HasFrom(log'[q], k, T)
  BY <1>1, <1>2, EntryStays
<1>4. Safe(G, T, k)
  BY <1>1, AcceptedStays
<1> QED
  BY <1>3, <1>4 DEF Durable

-----------------------------------------------------------------------------
(***************************************************************************)
(* What a step does to the append threads, again.                          *)
(***************************************************************************)

(* No answer comes to the thread, nor does it begin or cease to apply.     *)
Calm(c, j) ==
  /\ thread'[c][j].success = thread[c][j].success
  /\ thread'[c][j].phase = "applying" <=> thread[c][j].phase = "applying"

LEMMA OneThreadCalm ==
  ASSUME TypeOK, NEW d \in Command, NEW k \in Node, NEW t,
         thread' = [thread EXCEPT ![d][k] = t],
         UnderWay(t) => /\ t.success = thread[d][k].success
                        /\ t.phase = "applying"
                             <=> thread[d][k].phase = "applying",
         NEW c \in Command, NEW j \in Node, UnderWay(thread'[c][j])
  PROVE  Calm(c, j)
<1>1. CASE c = d /\ j = k
  <2>1. thread'[c][j] = t
    BY <1>1 DEF TypeOK
  <2> QED
    BY <1>1, <2>1 DEF Calm
<1>2. CASE ~(c = d /\ j = k)
  <2>1. thread'[c][j] = thread[c][j]
    BY <1>2 DEF TypeOK
  <2> QED
    BY <2>1 DEF Calm
<1> QED
  BY <1>1, <1>2

LEMMA NodesLeaveCalm ==
  ASSUME TypeInv, NEW i \in Node, NodeStep(i),
         NEW c \in Command, NEW j \in Node, UnderWay(thread'[c][j])
  PROVE  Calm(c, j) \/ Start(i, c)
<1>1. TypeOK
  BY DEF TypeInv
<1>2. CASE StartReturns(i)
  <2> DEFINE d == starting[i]
             k == LastPeer(i)
             t == IF UnderWay(thread[d][k])
                  THEN [thread[d][k] EXCEPT !.stopped = TRUE]
                  ELSE thread[d][k]
  <2>1. d \in Command /\ k \in Node
    BY <1>1, <1>2, LastPeerIsNode DEF StartReturns, TypeOK
  <2>2. thread[d][k] \in Thread
    BY <1>1, <2>1 DEF TypeOK
  <2>3. t.success = thread[d][k].success /\ t.phase = thread[d][k].phase
    BY <2>2 DEF Thread
  <2>4. thread' = [thread EXCEPT ![d][k] = t]
    BY <1>1, <1>2, <2>1 DEF StartReturns, TypeOK
  <2> HIDE DEF t, d, k
  <2> QED
    BY <1>1, <2>1, <2>3, <2>4, OneThreadCalm
<1>3. ASSUME NEW d \in Command, Start(i, d), d # c
      PROVE  Calm(c, j)
  <2>1. thread'[c] = thread[c]
    BY <1>1, <1>3 DEF Start, TypeOK
  <2> QED
    BY <2>1 DEF Calm
<1>4. ASSUME UNCHANGED thread PROVE Calm(c, j)
  BY <1>4 DEF Calm
<1>5. CASE BecomeCandidate(i) \/ BecomeLeader(i)
  BY <1>4, <1>5 DEF BecomeCandidate, BecomeLeader, sendVars
<1>6. CASE BeatBegins(i) \/ BeatDelivers(i) \/ BeatFails(i) \/ BeatRefused(i)
  BY <1>4, <1>6
     DEF BeatBegins, BeatDelivers, BeatFails, BeatRefused, sendVars
<1>7. CASE \E k \in Node : RequestVote(i, k) \/ VoteRefused(i, k)
  BY <1>4, <1>7 DEF RequestVote, VoteRefused, sendVars
<1>8. CASE \E d \in Command : Start(i, d)
  BY <1>3, <1>8
<1> QED
  BY <1>2, <1>5, <1>6, <1>7, <1>8 DEF NodeStep

LEMMA ThreadStepsCalm ==
  ASSUME TypeInv, NEW d \in Command, NEW k \in Node,
         ThreadStep(d, k) \/ CommitStep(d, k),
         NEW c \in Command, NEW j \in Node, UnderWay(thread'[c][j])
  PROVE  Calm(c, j) \/ DeliverAppend(c, j) \/ ReceiveSuccess(c, j)
<1>1. TypeOK
  BY DEF TypeInv
<1>2. thread[d][k] \in Thread
  BY <1>1 DEF TypeOK
<1>3. ASSUME thread' = End(d, k) PROVE Calm(c, j)
  <2>1. thread' = [thread EXCEPT ![d][k] = NoThread]
    BY <1>3 DEF End
  <2> QED
    BY <1>1, <2>1, ThreadEnded, OneThreadCalm
<1>4. CASE ThreadEnds(d, k) \/ CallFails(d, k) \/ FinishCommit(d, k)
  BY <1>3, <1>4 DEF ThreadEnds, CallFails, FinishCommit
<1>5. ASSUME NEW t, thread' = [thread EXCEPT ![d][k] = t], ~(c = d /\ j = k)
      PROVE  Calm(c, j)
  <2>1. thread'[c][j] = thread[c][j]
    BY <1>1, <1>5 DEF TypeOK
  <2> QED
    BY <2>1 DEF Calm
<1>6. CASE DeliverAppend(d, k)
  <2>1. PICK t : thread' = [thread EXCEPT ![d][k] = t]
    BY <1>6 DEF DeliverAppend
  <2> QED
    BY <1>5, <1>6, <2>1
<1>7. CASE ReceiveSuccess(d, k)
  <2>1. PICK t : thread' = [thread EXCEPT ![d][k] = t] \/ thread' = End(d, k)
    BY <1>7 DEF ReceiveSuccess
  <2> QED
    BY <1>3, <1>5, <1>7, <2>1
<1>8. CASE ReceiveRefusal(d, k)
  <2> DEFINE t == [thread[d][k] EXCEPT !.phase = "again", !.replyTerm = 0]
  <2>1. thread[d][k].phase = "replied" /\ thread' = [thread EXCEPT ![d][k] = t]
    BY <1>8 DEF ReceiveRefusal
  <2>2. t.success = thread[d][k].success /\ t.phase = "again"
    BY <1>2 DEF Thread
  <2> HIDE DEF t
  <2> QED
    BY <1>1, <2>1, <2>2, OneThreadCalm
<1>9. CASE SendAppend(d, k)
  <2>1. PICK m : \/ thread' = [thread EXCEPT ![d][k] =
                       [thread[d][k] EXCEPT !.phase = "sent", !.message = m]]
                 \/ thread' = [thread EXCEPT ![d][k] = NoThread]
    BY <1>9 DEF SendAppend
  <2> DEFINE t == [thread[d][k] EXCEPT !.phase = "sent", !.message = m]
  <2>2. thread[d][k].phase \in {"new", "again"}
    BY <1>9 DEF SendAppend
  <2>3. t.success = thread[d][k].success /\ t.phase = "sent"
    BY <1>2 DEF Thread
  <2>4. thread' \in {[thread EXCEPT ![d][k] = t],
                     [thread EXCEPT ![d][k] = NoThread]}
    BY <2>1
  <2> HIDE DEF t
  <2> QED
    BY <1>1, <2>2, <2>3, <2>4, ThreadEnded, OneThreadCalm
<1>10. CASE ApplyNext(d, k)
  <2> DEFINE n == thread[d][k].applied + 1
             t == [thread[d][k] EXCEPT !.applied = n]
  <2>1. thread' = [thread EXCEPT ![d][k] = t] \/ thread' = End(d, k)
    BY <1>10 DEF ApplyNext
  <2>2. t.success = thread[d][k].success /\ t.phase = thread[d][k].phase
    BY <1>2 DEF Thread
  <2> HIDE DEF t
  <2>3. CASE thread' = [thread EXCEPT ![d][k] = t]
    BY <1>1, <2>2, <2>3, OneThreadCalm
  <2> QED
    BY <1>3, <2>1, <2>3
<1> QED
  BY <1>4, <1>6, <1>7, <1>8, <1>9, <1>10 DEF ThreadStep, CommitStep

LEMMA CallersCalm ==
  ASSUME TypeOK, NEW k \in Node, NEW answered, CallersGoOn(k, answered),
         NEW c \in Command, NEW j \in Node, UnderWay(thread'[c][j])
  PROVE  Calm(c, j)
<1>1. thread[c][j] \in Thread
  BY DEF TypeOK
<1> DEFINE t == [thread[c][j] EXCEPT !.phase = "replied"]
<1>2. \/ thread'[c][j] = thread[c][j]
      \/ thread[c][j].phase = "handled" /\ thread'[c][j] \in {t, NoThread}
  BY DEF CallersGoOn
<1>3. t.phase = "replied" /\ t.success = thread[c][j].success
  BY <1>1 DEF Thread
<1> HIDE DEF t
<1> QED
  BY <1>2, <1>3, ThreadEnded DEF Calm

LEMMA ThreadsCalm ==
  ASSUME TypeInv, [Next]_vars,
         NEW c \in Command, NEW j \in Node, UnderWay(thread'[c][j])
  PROVE  \/ Calm(c, j) \/ DeliverAppend(c, j) \/ ReceiveSuccess(c, j)
         \/ \E i \in Node : Start(i, c)
<1>1. TypeOK
  BY DEF TypeInv
<1>2. ASSUME UNCHANGED thread PROVE Calm(c, j)
  BY <1>2 DEF Calm
<1>3. ASSUME NEW i \in Node, HandlerStep(i) PROVE Calm(c, j)
  <2>1. \/ UNCHANGED thread
        \/ CallersGoOn(i, TRUE) \/ CallersGoOn(i, FALSE)
    BY <1>3 DEF HandlerStep, HandlerApplies, HandlerReturns
  <2> QED
    BY <1>1, <1>2, <2>1, CallersCalm
<1>4. ASSUME NEW i \in Node, BeatSends(i) PROVE Calm(c, j)
  BY <1>2, <1>4 DEF BeatSends, sendVars
<1>5. CASE UNCHANGED vars
  BY <1>2, <1>5 DEF vars
<1>6. CASE Next
  BY <1>3, <1>4, <1>6, NodesLeaveCalm, ThreadStepsCalm DEF Next
<1> QED
  BY <1>5, <1>6

(* The counter of a command.                                               *)
LEMMA CountersMove ==
  ASSUME TypeInv, [Next]_vars, NEW c \in Command
  PROVE  \/ \E i \in Node : Start(i, c)
         \/ /\ operator'[c].leader = operator[c].leader
            /\ operator'[c].index = operator[c].index
            /\ \/ operator'[c].count = operator[c].count
               \/ \E j \in Node : ReceiveSuccess(c, j)
<1> DEFINE P == \/ \E i \in Node : Start(i, c)
                \/ /\ operator'[c].leader = operator[c].leader
                   /\ operator'[c].index = operator[c].index
                   /\ \/ operator'[c].count = operator[c].count
                      \/ \E j \in Node : ReceiveSuccess(c, j)
<1>1. TypeOK
  BY DEF TypeInv
<1>2. ASSUME UNCHANGED operator PROVE P
  BY <1>2
<1>3. ASSUME NEW i \in Node, NodeStep(i) PROVE P
  <2>1. CASE UNCHANGED operator
    BY <2>1
  <2>2. ASSUME NEW d \in Command, Start(i, d), d # c PROVE P
    <3>1. operator'[c] = operator[c]
      BY <1>1, <2>2 DEF Start, TypeOK
    <3> QED
      BY <3>1
  <2> QED
    BY <1>3, <2>1, <2>2 DEF NodeStep, BecomeCandidate, BecomeLeader,
       StartReturns, BeatBegins, BeatDelivers, BeatFails, BeatRefused,
       RequestVote, VoteRefused, sendVars
<1>4. ASSUME NEW d \in Command, NEW k \in Node,
             ThreadStep(d, k) \/ CommitStep(d, k)
      PROVE  P
  <2>1. CASE ReceiveSuccess(d, k)
    <3>1. PICK n : operator' = [operator EXCEPT ![d].count = n]
      BY <2>1 DEF ReceiveSuccess
    <3>2. d # c => operator'[c].count = operator[c].count
      BY <1>1, <3>1 DEF TypeOK
    <3>3. /\ operator'[c].leader = operator[c].leader
          /\ operator'[c].index = operator[c].index
      BY <1>1, <3>1 DEF TypeOK, Operator
    <3> QED
      BY <2>1, <3>2, <3>3
  <2>2. CASE FinishCommit(d, k)
    <3>1. operator' = [operator EXCEPT ![d].committed = TRUE]
      BY <2>2 DEF FinishCommit
    <3> QED
      BY <1>1, <3>1 DEF TypeOK, Operator
  <2>3. CASE UNCHANGED operator
    BY <2>3
  <2> QED
    BY <1>4, <2>1, <2>2, <2>3 DEF ThreadStep, SendAppend, ThreadEnds,
       CallFails, DeliverAppend, ReceiveRefusal, CommitStep, ApplyNext
<1>5. ASSUME NEW i \in Node, BeatSends(i) \/ HandlerStep(i) PROVE P
  BY <1>2, <1>5
     DEF BeatSends, HandlerStep, HandlerApplies, HandlerReturns, sendVars
<1>6. CASE UNCHANGED vars
  BY <1>2, <1>6 DEF vars
<1>7. CASE Next
  BY <1>3, <1>4, <1>5, <1>7 DEF Next
<1> QED
  BY <1>6, <1>7

(* A thread that a command has not just started was under way before.      *)
LEMMA ThreadWas ==
  ASSUME NEW H, LogInv(H), [Next]_vars,
         NEW c \in Command, NEW j \in Node, UnderWay(thread'[c][j])
  PROVE  \/ /\ UnderWay(thread[c][j])
            /\ thread'[c][j].term = thread[c][j].term
            /\ thread'[c][j].copy = thread[c][j].copy
            /\ operator'[c].leader = operator[c].leader
            /\ operator'[c].index = operator[c].index
         \/ \E i \in Node : Start(i, c)
<1>1. TypeInv
  BY DEF LogInv
<1>2. CASE SameThread(c, j)
  BY <1>2 DEF SameThread
<1>3. CASE SendAppend(c, j)
  BY <1>3, SendAppendSends
<1> QED
  BY <1>1, <1>2, <1>3, ThreadsMove

(* What start does to its threads.                                         *)
LEMMA StartThreads ==
  ASSUME TypeOK, NEW i \in Node, NEW c \in Command, Start(i, c)
  PROVE  /\ operator[c] = NoOperator
         /\ operator'[c].leader = i /\ operator'[c].index = Len(log'[i])
         /\ operator'[c].count = 1
         /\ \A d \in Command : d # c => /\ operator'[d] = operator[d]
                                        /\ thread'[d] = thread[d]
         /\ \A j \in Node : UnderWay(thread'[c][j]) =>
              /\ j # i /\ thread'[c][j].term = currentTerm[i]
              /\ thread'[c][j].copy = log'[i]
              /\ thread'[c][j].phase = "new" /\ ~thread'[c][j].success
<1>1. /\ operator[c] = NoOperator
      /\ operator'[c].leader = i /\ operator'[c].index = Len(log'[i])
      /\ operator'[c].count = 1
      /\ \A d \in Command : d # c => /\ operator'[d] = operator[d]
                                     /\ thread'[d] = thread[d]
  BY DEF Start, TypeOK
<1>2. ASSUME NEW j \in Node, UnderWay(thread'[c][j])
      PROVE  /\ j # i /\ thread'[c][j].term = currentTerm[i]
             /\ thread'[c][j].copy = log'[i]
             /\ thread'[c][j].phase = "new" /\ ~thread'[c][j].success
  <2> DEFINE new == [NoThread EXCEPT !.phase = "new", !.term = currentTerm[i],
                                     !.copy = log'[i]]
  <2>1. thread'[c][j] = IF j = i THEN NoThread ELSE new
    BY DEF Start, TypeOK
  <2>2. thread'[c][j] = new /\ j # i
    BY <1>2, <2>1, ThreadEnded
  <2>3. /\ new.term = currentTerm[i] /\ new.copy = log'[i]
        /\ new.phase = "new" /\ ~new.success
    BY DEF NoThread
  <2> QED
    BY <2>2, <2>3
<1> QED
  BY <1>1, <1>2

LEMMA OneCommandNext ==
  ASSUME NEW H, LogInv(H), OneCommand, [Next]_vars, "overtake" \notin Races
  PROVE  OneCommand'
<1>1. TypeOK
  BY PastKnown
<1>2. ASSUME NEW i \in Node, NEW c \in Command, Start(i, c),
             NEW d \in Command, NEW k \in Node, UnderWay(thread'[d][k]),
             operator'[d].leader = i
      PROVE  c = d
  <2> SUFFICES ASSUME c # d PROVE FALSE
    OBVIOUS
  <2>1. UnderWay(thread[d][k]) /\ operator[d].leader = i
    BY <1>1, <1>2, StartThreads
  <2> QED
    BY <1>2, <2>1 DEF Start, Sending
<1> SUFFICES ASSUME NEW c \in Command, NEW d \in Command,
                    NEW j \in Node, NEW k \in Node,
                    UnderWay(thread'[c][j]), UnderWay(thread'[d][k]),
                    operator'[c].leader = operator'[d].leader
             PROVE  c = d
  BY DEF OneCommand
<1>3. CASE \E i \in Node : Start(i, c)
  BY <1>1, <1>2, <1>3, StartThreads
<1>4. CASE \E i \in Node : Start(i, d)
  BY <1>1, <1>2, <1>4, StartThreads
<1>5. CASE /\ UnderWay(thread[c][j]) /\ operator'[c].leader = operator[c].leader
           /\ UnderWay(thread[d][k]) /\ operator'[d].leader = operator[d].leader
  BY <1>5 DEF OneCommand
<1> QED
  BY <1>3, <1>4, <1>5, ThreadWas

(* A node has accepted what it has just taken or made.                     *)
LEMMA AcceptedNow ==
  ASSUME NEW G, NEW q \in Node, Now(q)' \in G, NEW n \in 1 .. Len(log'[q]),
         NEW k, k <= n, log'[q][n].term = currentTerm'[q]
  PROVE  Accepted(G, q, currentTerm'[q], k)
<1>1. HasFrom(log'[q], k, currentTerm'[q])
  BY DEF HasFrom
<1> QED
  BY <1>1, NowFields DEF Accepted

(* The thread that counts its answer is none of those that were counted.   *)
LEMMA SuccessCounts ==
  ASSUME TypeInv, NEW H, NEW c \in Command, Counted(H, c),
         NEW j \in Node, Replied(H, c, j), ReceiveSuccess(c, j)
  PROVE  \E Q \in SUBSET Node :
           /\ Cardinality(Q) = operator[c].count + 1
           /\ \A q \in Q : Accepted(H, q, thread[c][j].term, operator[c].index)
           /\ \A q \in Q \ {j} :
                UnderWay(thread[c][q]) => thread[c][q].phase = "applying"
<1>1. thread[c][j].phase = "replied" /\ thread[c][j].success
  BY DEF ReceiveSuccess
<1>2. UnderWay(thread[c][j])
  BY <1>1, PhaseUnderWay
<1>3. PICK Q \in SUBSET Node :
        /\ Cardinality(Q) = operator[c].count
        /\ \A q \in Q : /\ Accepted(H, q, thread[c][j].term, operator[c].index)
                        /\ UnderWay(thread[c][q]) =>
                             thread[c][q].phase = "applying"
  BY <1>2 DEF Counted
<1>4. j \notin Q
  BY <1>1, <1>2, <1>3
<1>5. Cardinality(Q \cup {j}) = operator[c].count + 1
  BY <1>3, <1>4, NodesAreFinite, FS_AddElement
<1>6. Accepted(H, j, thread[c][j].term, operator[c].index)
  BY <1>1, <1>2 DEF Replied
<1>7. Q \cup {j} \in SUBSET Node
  OBVIOUS
<1> QED
  BY <1>3, <1>5, <1>6, <1>7

LEMMA CountedNext ==
  ASSUME NEW H, LogInv(H), [Next]_vars,
         NEW G, G = H \cup {Now(q)' : q \in Node}, NEW c \in Command,
         Counted(H, c), \A j \in Node : Replied(H, c, j)
  PROVE  Counted(G, c)'
<1>1. TypeInv /\ TypeOK /\ TypeOK' /\ PastHolds(H)
  BY PastKnown, NextTyped DEF TypeInv
<1>2. \A q, T, k : Accepted(H, q, T, k) => Accepted(G, q, T, k)
  BY AcceptedStays
<1>3. SUFFICES \E T \in Nat, Q \in SUBSET Node :
         /\ Cardinality(Q) = operator'[c].count
         /\ \A j \in Node : UnderWay(thread'[c][j]) => thread'[c][j].term = T
         /\ \A q \in Q : /\ Accepted(G, q, T, operator'[c].index)
                         /\ UnderWay(thread'[c][q]) =>
                              thread'[c][q].phase = "applying"
  BY DEF Counted, Accepted, HasFrom, Node
<1>4. ASSUME NEW i \in Node, Start(i, c)
      PROVE  \E T \in Nat, Q \in SUBSET Node :
         /\ Cardinality(Q) = operator'[c].count
         /\ \A j \in Node : UnderWay(thread'[c][j]) => thread'[c][j].term = T
         /\ \A q \in Q : /\ Accepted(G, q, T, operator'[c].index)
                         /\ UnderWay(thread'[c][q]) =>
                              thread'[c][q].phase = "applying"
  <2>1. /\ operator'[c].index = Len(log'[i]) /\ operator'[c].count = 1
        /\ \A j \in Node : UnderWay(thread'[c][j]) =>
             j # i /\ thread'[c][j].term = currentTerm[i]
    BY <1>1, <1>4, StartThreads
  <2>2. /\ Len(log'[i]) = Len(log[i]) + 1 /\ currentTerm'[i] = currentTerm[i]
        /\ log'[i][Len(log[i]) + 1].term = currentTerm[i]
        /\ Len(log[i]) \in Nat /\ currentTerm[i] \in Nat
    BY <1>1, <1>4, StartDoes, LenProperties DEF electionVars, TypeOK
  <2>3. Accepted(G, i, currentTerm[i], operator'[c].index)
    <3>1. Len(log'[i]) \in 1 .. Len(log'[i])
      BY <2>2
    <3>2. Now(i)' \in G
      OBVIOUS
    <3>3. log'[i][Len(log'[i])].term = currentTerm'[i]
      BY <2>2
    <3>4. Len(log'[i]) <= Len(log'[i])
      BY <2>2
    <3>5. Accepted(G, i, currentTerm'[i], Len(log'[i]))
      BY <3>1, <3>2, <3>3, <3>4, AcceptedNow
    <3> QED
      BY <2>1, <2>2, <3>5
  <2>4. Cardinality({i}) = 1 /\ {i} \in SUBSET Node
    BY FS_Singleton
  <2> QED
    BY <2>1, <2>2, <2>3, <2>4
<1>5. ASSUME ~\E i \in Node : Start(i, c),
             NEW j \in Node, UnderWay(thread'[c][j])
      PROVE  /\ UnderWay(thread[c][j])
             /\ thread'[c][j].term = thread[c][j].term
  BY <1>5, ThreadWas
<1>6. ASSUME ~\E i \in Node : Start(i, c), NEW j \in Node, ReceiveSuccess(c, j)
      PROVE  \E T \in Nat, Q \in SUBSET Node :
         /\ Cardinality(Q) = operator'[c].count
         /\ \A k \in Node : UnderWay(thread'[c][k]) => thread'[c][k].term = T
         /\ \A q \in Q : /\ Accepted(G, q, T, operator'[c].index)
                         /\ UnderWay(thread'[c][q]) =>
                              thread'[c][q].phase = "applying"
  <2>1. PICK t : /\ thread' = [thread EXCEPT ![c][j] = t]
                 /\ UnderWay(t) => t.phase = "applying"
    <3> DEFINE new == [thread[c][j] EXCEPT !.phase = "applying",
                         !.applied = AppliesFrom(operator[c].leader)]
    <3>1. \/ thread' = [thread EXCEPT ![c][j] = new]
          \/ thread' = [thread EXCEPT ![c][j] = NoThread]
      BY <1>6 DEF ReceiveSuccess, End
    <3>2. thread[c][j] \in Thread
      BY <1>1 DEF TypeOK
    <3>3. new.phase = "applying"
      BY <3>2 DEF Thread
    <3> HIDE DEF new
    <3> QED
      BY <3>1, <3>3, ThreadEnded
  <2>2. /\ thread'[c][j] = t
        /\ \A k \in Node \ {j} : thread'[c][k] = thread[c][k]
    BY <1>1, <2>1 DEF TypeOK
  <2>3. operator'[c].count = IF operator[c].committed THEN operator[c].count
                             ELSE operator[c].count + 1
    BY <1>1, <1>6 DEF ReceiveSuccess, TypeOK, Operator
  <2>4. operator'[c].index = operator[c].index
    BY <1>1, <1>6, CountersMove
  <2>5. UnderWay(thread[c][j]) /\ thread[c][j].term \in Nat
    <3>1. thread[c][j].phase # "none" /\ thread[c][j] \in Thread
      BY <1>1, <1>6 DEF ReceiveSuccess, TypeOK
    <3> QED
      BY <1>1, <3>1, PhaseUnderWay DEF Thread
  <2>6. CASE operator[c].committed
    <3>1. PICK T \in Nat, Q \in SUBSET Node :
            /\ Cardinality(Q) = operator[c].count
            /\ \A k \in Node : UnderWay(thread[c][k]) => thread[c][k].term = T
            /\ \A q \in Q : /\ Accepted(H, q, T, operator[c].index)
                            /\ UnderWay(thread[c][q]) =>
                                 thread[c][q].phase = "applying"
      BY DEF Counted
    <3>2. \A q \in Q : UnderWay(thread'[c][q]) => thread'[c][q].phase = "applying"
      BY <2>1, <2>2, <3>1
    <3>3. \A k \in Node : UnderWay(thread'[c][k]) => thread'[c][k].term = T
      BY <1>5, <1>6, <3>1
    <3> QED
      BY <1>2, <2>3, <2>4, <2>6, <3>1, <3>2, <3>3
  <2>7. CASE ~operator[c].committed
    <3>1. PICK Q \in SUBSET Node :
            /\ Cardinality(Q) = operator[c].count + 1
            /\ \A q \in Q : Accepted(H, q, thread[c][j].term, operator[c].index)
            /\ \A q \in Q \ {j} :
                 UnderWay(thread[c][q]) => thread[c][q].phase = "applying"
      BY <1>1, <1>6, SuccessCounts
    <3>2. \A q \in Q : UnderWay(thread'[c][q]) => thread'[c][q].phase = "applying"
      BY <2>1, <2>2, <3>1
    <3>3. \A k \in Node : UnderWay(thread'[c][k]) =>
                            thread'[c][k].term = thread[c][j].term
      BY <1>5, <1>6, <2>5 DEF Counted
    <3> QED
      BY <1>2, <2>3, <2>4, <2>5, <2>7, <3>1, <3>2, <3>3
  <2> QED
    BY <2>6, <2>7
<1>7. CASE /\ ~\E i \in Node : Start(i, c)
           /\ ~\E j \in Node : ReceiveSuccess(c, j)
  <2>1. /\ operator'[c].count = operator[c].count
        /\ operator'[c].index = operator[c].index
    BY <1>1, <1>7, CountersMove
  <2>2. PICK T \in Nat, Q \in SUBSET Node :
          /\ Cardinality(Q) = operator[c].count
          /\ \A k \in Node : UnderWay(thread[c][k]) => thread[c][k].term = T
          /\ \A q \in Q : /\ Accepted(H, q, T, operator[c].index)
                          /\ UnderWay(thread[c][q]) =>
                               thread[c][q].phase = "applying"
    BY DEF Counted
  <2>3. ASSUME NEW q \in Q, UnderWay(thread'[c][q])
        PROVE  thread'[c][q].phase = "applying"
    <3>1. thread[c][q].phase = "applying"
      BY <1>5, <1>7, <2>2, <2>3
    <3>2. ~DeliverAppend(c, q)
      BY <3>1 DEF DeliverAppend
    <3>3. Calm(c, q)
      BY <1>1, <1>7, <2>3, <3>2, ThreadsCalm
    <3> QED
      BY <3>1, <3>3 DEF Calm
  <2>4. \A k \in Node : UnderWay(thread'[c][k]) => thread'[c][k].term = T
    BY <1>5, <1>7, <2>2
  <2> QED
    BY <1>2, <2>1, <2>2, <2>3, <2>4
<1> QED
  BY <1>4, <1>6, <1>7

(* A node that accepts a message has all of the log it was taken from.     *)
LEMMA AcceptsAll ==
  ASSUME TypeOK, NEW j \in Node, NEW m \in Message, NEW s \in Seq(Entry),
         Sends(m, s, m.term), Coherent(log[j], s), Accepts(j, m)
  PROVE  Extends(LogAfter(j, m), s)
<1>1. /\ log[j] \in Seq(Entry) /\ Len(log[j]) \in Nat /\ Len(s) \in Nat
      /\ m.prev \in Nat /\ m.prev <= Len(s) /\ m.prev <= Len(log[j])
      /\ m.entries = SubSeq(s, m.prev + 1, Len(s))
      /\ m.prev > 0 => log[j][m.prev].term = s[m.prev].term
  BY LenProperties DEF TypeOK, Message, Sends, Accepts, IsLegal
<1>2. ~(m.term < currentTerm[j]) /\ IsLegal(j, m)
  BY DEF Accepts, TypeOK, Message
<1> DEFINE a == Truncate(log[j], m.prev)
           b == m.entries
<1>3. /\ b \in Seq(Entry) /\ Len(b) = Len(s) - m.prev
      /\ \A k \in 1 .. Len(s) - m.prev : b[k] = s[m.prev + k]
  BY <1>1, SubSeqProperties
<1>4. \A n \in 1 .. m.prev : log[j][n] = s[n]
  <2>1. CASE m.prev = 0
    BY <2>1
  <2>2. CASE m.prev # 0
    <3>1. /\ m.prev \in 1 .. Len(log[j]) /\ m.prev \in 1 .. Len(s)
          /\ log[j][m.prev].term = s[m.prev].term
      BY <1>1, <2>2
    <3> QED
      BY <3>1, CoherentUpTo
  <2> QED
    BY <2>1, <2>2
<1>5. CASE b = <<>>
  <2>1. LogAfter(j, m) = log[j]
    BY <1>2, <1>5 DEF LogAfter
  <2>2. Len(b) = 0
    BY <1>5
  <2>3. Len(s) = m.prev
    BY <1>1, <1>3, <2>2
  <2> QED
    BY <1>1, <1>4, <2>1, <2>3 DEF Extends
<1>6. CASE b # <<>>
  <2>1. LogAfter(j, m) = a \o b
    BY <1>2, <1>6 DEF LogAfter
  <2>2. /\ a \in Seq(Entry) /\ Len(a) = Smaller(m.prev, Len(log[j]))
        /\ Extends(log[j], a)
    BY <1>1, TruncateStarts
  <2>3. Len(a) = m.prev
    BY <1>1, <2>2 DEF Smaller
  <2> HIDE DEF a, b
  <2>4. /\ Len(a \o b) = Len(a) + Len(b)
        /\ \A k \in 1 .. Len(a) + Len(b) :
             (a \o b)[k] = IF k <= Len(a) THEN a[k] ELSE b[k - Len(a)]
    BY <1>3, <2>2, ConcatProperties
  <2>5. Len(a \o b) = Len(s) /\ Len(a) + Len(b) = Len(s)
    BY <1>1, <1>3, <2>3, <2>4
  <2>6. ASSUME NEW n \in 1 .. Len(s) PROVE (a \o b)[n] = s[n]
    <3>1. n \in Nat /\ n > 0 /\ n <= Len(s)
      BY <1>1
    <3>2. CASE n <= m.prev
      <4>1. n \in 1 .. m.prev
        BY <1>1, <3>2
      <4>2. (a \o b)[n] = a[n]
        BY <2>3, <2>4, <2>5, <3>2
      <4>3. a[n] = log[j][n]
        BY <2>2, <2>3, <4>1 DEF Extends
      <4> QED
        BY <1>4, <4>1, <4>2, <4>3
    <3>3. CASE n > m.prev
      <4>1. PICK d \in 1 .. Len(s) - m.prev : d = n - m.prev
        BY <1>1, <3>1, <3>3
      <4>2. (a \o b)[n] = b[d]
        BY <1>1, <2>3, <2>4, <2>5, <3>1, <3>3, <4>1
      <4>3. m.prev + d = n
        BY <1>1, <3>1, <4>1
      <4>4. b[d] = s[m.prev + d]
        BY <1>3
      <4> QED
        BY <4>2, <4>3, <4>4
    <3>4. n <= m.prev \/ n > m.prev
      BY <1>1, <3>1
    <3> QED
      BY <3>2, <3>3, <3>4
  <2> QED
    BY <1>1, <2>1, <2>5, <2>6 DEF Extends
<1> QED
  BY <1>5, <1>6

(* While a thread applies, no node changes its role.                       *)
LEMMA RolesWait ==
  ASSUME [Next]_vars, "commit" \notin Races,
         NEW c \in Command, NEW j \in Node, thread[c][j].phase = "applying"
  PROVE  UNCHANGED role
<1>1. ~Undisturbed
  BY DEF Undisturbed
<1> QED
  BY <1>1 DEF Next, vars, BeatSends, HandlerStep, HandlerApplies,
     HandlerReturns, CommitStep, ApplyNext, FinishCommit, electionVars

(* What a thread has delivered with success is accepted.                   *)
LEMMA DeliveredIsAccepted ==
  ASSUME NEW H, StayInv(H), [Next]_vars,
         NEW G, G = H \cup {Now(q)' : q \in Node},
         NEW c \in Command, NEW j \in Node, DeliverAppend(c, j)
  PROVE  /\ thread'[c][j].phase # "applying"
         /\ thread'[c][j].term = thread[c][j].term
         /\ thread'[c][j].success =>
              Accepted(G, j, thread[c][j].term, operator[c].index)
<1>1. LogInv(H) /\ TypeInv /\ TypeOK /\ LogsCohere(H)
  BY PastKnown DEF StayInv
<1> DEFINE m == thread[c][j].message
           s == thread[c][j].copy
           t == [thread[c][j] EXCEPT
                   !.phase = IF Advances(j, m) THEN "handled" ELSE "replied",
                   !.message = NoMessage,
                   !.replyTerm = ReplyTerm(j, m),
                   !.success = Accepts(j, m)]
<1>2. thread[c][j].phase = "sent" /\ ReplyToAppend(j, m)
  BY DEF DeliverAppend
<1>3. UnderWay(thread[c][j]) /\ thread[c][j] \in Thread
  BY <1>1, <1>2, PhaseUnderWay
<1>4. /\ LedWith(H, operator[c].leader, thread[c][j].term, s)
      /\ Sends(m, s, thread[c][j].term)
      /\ Len(s) = operator[c].index /\ Len(s) > 0
      /\ s[Len(s)].term = thread[c][j].term
  BY <1>1, <1>2, <1>3 DEF LogInv, ThreadHolds
<1>5. s \in LogsOf(H) /\ s \in Seq(Entry) /\ Len(s) \in Nat /\ m \in Message
  BY <1>1, <1>3, <1>4, LedWithLog, PastKnown DEF Thread
<1>6. m.term = thread[c][j].term
  BY <1>4 DEF Sends
<1>7. t.phase # "applying" /\ t.term = thread[c][j].term
      /\ t.success = Accepts(j, m)
  BY <1>3 DEF Thread
<1>8. thread' = [thread EXCEPT ![c][j] = t]
  BY DEF DeliverAppend
<1> HIDE DEF t
<1>9. thread'[c][j] = t
  BY <1>1, <1>8 DEF TypeOK
<1> HIDE DEF m, s
<1>10. ASSUME Accepts(j, m)
       PROVE  Accepted(G, j, m.term, operator[c].index)
  <2>1. log'[j] = LogAfter(j, m)
    BY <1>1, <1>2, <1>5, ReplyDoes
  <2>2. currentTerm'[j] = m.term
    <3>1. m.term >= currentTerm[j]
      BY <1>10 DEF Accepts
    <3> QED
      BY <1>1, <1>2, <1>5, <3>1, ReplyDoes
  <2>3. Coherent(log[j], s)
    BY <1>1, <1>5, PastKnown DEF LogsCohere
  <2>4. Extends(log'[j], s)
    BY <1>1, <1>4, <1>5, <1>6, <1>10, <2>1, <2>3, AcceptsAll
  <2>5. log'[j] \in Seq(Entry)
    BY <1>1, NextTyped DEF TypeInv, TypeOK
  <2>6. Len(s) \in 1 .. Len(s) /\ Len(s) \in 1 .. Len(log'[j])
    BY <1>4, <1>5, <2>4, <2>5, LenProperties DEF Extends
  <2>7. log'[j][Len(s)].term = currentTerm'[j]
    BY <1>4, <1>6, <2>2, <2>4, <2>6 DEF Extends
  <2>8. Now(j)' \in G
    OBVIOUS
  <2>9. Len(s) <= Len(s)
    BY <1>5
  <2>10. Accepted(G, j, currentTerm'[j], Len(s))
    BY <2>6, <2>7, <2>8, <2>9, AcceptedNow
  <2> QED
    BY <1>4, <2>2, <2>10
<1> QED
  BY <1>6, <1>7, <1>9, <1>10

LEMMA RepliedNext ==
  ASSUME NEW H, CommitInv(H), [Next]_vars, "commit" \notin Races,
         NEW G, G = H \cup {Now(q)' : q \in Node},
         NEW c \in Command, NEW j \in Node
  PROVE  Replied(G, c, j)'
<1>1. /\ StayInv(H) /\ LogInv(H) /\ TypeInv /\ TypeOK
      /\ Replied(H, c, j) /\ Counted(H, c)
  BY PastKnown DEF CommitInv, StayInv
<1>2. /\ \A q, T, k : Accepted(H, q, T, k) => Accepted(G, q, T, k)
      /\ \A T, k : Safe(H, T, k) => Safe(G, T, k)
  BY AcceptedStays
<1> DEFINE t == thread'[c][j]
           o == operator'[c]
<1> SUFFICES ASSUME UnderWay(t)
             PROVE  /\ t.success => Accepted(G, j, t.term, o.index)
                    /\ t.phase = "applying" =>
                         /\ t.success /\ role'[o.leader] = "LEADER"
                         /\ Safe(G, t.term, o.index)
  BY DEF Replied, Accepted, Safe, HasFrom, IsMajority, Node
<1> HIDE DEF t, o
<1>3. CASE \E i \in Node : Start(i, c)
  <2>1. t.phase = "new" /\ ~t.success
    BY <1>1, <1>3, StartThreads DEF t
  <2> QED
    BY <2>1
<1>4. ASSUME ~\E i \in Node : Start(i, c)
      PROVE  /\ UnderWay(thread[c][j]) /\ t.term = thread[c][j].term
             /\ o.leader = operator[c].leader /\ o.index = operator[c].index
  BY <1>1, <1>4, ThreadWas DEF t, o
<1>5. CASE ~(\E i \in Node : Start(i, c)) /\ Calm(c, j)
  <2>1. /\ t.success => Accepted(H, j, t.term, o.index)
        /\ t.phase = "applying" =>
             /\ thread[c][j].phase = "applying"
             /\ t.success /\ role[o.leader] = "LEADER"
             /\ Safe(H, t.term, o.index)
    BY <1>1, <1>4, <1>5 DEF Replied, Calm, t
  <2>2. t.phase = "applying" => role' = role
    BY <2>1, RolesWait
  <2> QED
    BY <1>2, <2>1, <2>2
<1>6. CASE ~(\E i \in Node : Start(i, c)) /\ DeliverAppend(c, j)
  <2>1. /\ t.phase # "applying"
        /\ t.success => Accepted(G, j, t.term, o.index)
    BY <1>1, <1>4, <1>6, DeliveredIsAccepted DEF t
  <2> QED
    BY <2>1
<1>7. CASE ~(\E i \in Node : Start(i, c)) /\ ReceiveSuccess(c, j)
  <2>1. thread[c][j].success /\ role[operator[c].leader] = "LEADER"
        /\ UNCHANGED role
    BY <1>7 DEF ReceiveSuccess, electionVars
  <2>2. Accepted(G, j, t.term, o.index)
    BY <1>1, <1>2, <1>4, <1>7, <2>1 DEF Replied
  <2>3. t.success
    <3> DEFINE new == [thread[c][j] EXCEPT !.phase = "applying",
                         !.applied = AppliesFrom(operator[c].leader)]
    <3>1. \/ thread' = [thread EXCEPT ![c][j] = new]
          \/ thread' = [thread EXCEPT ![c][j] = NoThread]
      BY <1>7 DEF ReceiveSuccess, End
    <3>2. thread[c][j] \in Thread
      BY <1>1 DEF TypeOK
    <3>3. new.success = thread[c][j].success
      BY <3>2 DEF Thread
    <3> HIDE DEF new
    <3>4. t \in {new, NoThread}
      BY <1>1, <3>1 DEF TypeOK, t
    <3> QED
      BY <2>1, <3>3, <3>4, ThreadEnded
  <2>4. IsMajority(operator[c].count + 1)
    <3>1. CASE ~(~operator[c].committed /\ IsMajority(operator[c].count + 1))
      <4>1. thread' = [thread EXCEPT ![c][j] = NoThread]
        BY <1>7, <3>1 DEF ReceiveSuccess, End
      <4>2. t = NoThread
        BY <1>1, <4>1 DEF TypeOK, t
      <4> QED
        BY <4>2, ThreadEnded
    <3> QED
      BY <3>1
  <2>5. PICK Q \in SUBSET Node :
          /\ Cardinality(Q) = operator[c].count + 1
          /\ \A q \in Q : Accepted(H, q, thread[c][j].term, operator[c].index)
    BY <1>1, <1>7, SuccessCounts
  <2>6. Safe(H, t.term, o.index)
    BY <1>4, <1>7, <2>4, <2>5 DEF Safe
  <2> QED
    BY <1>2, <1>4, <1>7, <2>1, <2>2, <2>3, <2>6
<1> QED
  BY <1>1, <1>3, <1>5, <1>6, <1>7, ThreadsCalm DEF t

-----------------------------------------------------------------------------
(***************************************************************************)
(* What a step does to nextIndex and matchIndex.                           *)
(***************************************************************************)

(* A thread of node i has come through: its indexes move, and it is over.  *)
Succeeds(c, j) == /\ ReceiveSuccess(c, j) \/ FinishCommit(c, j)
                  /\ MoveIndexes(operator[c].leader, j)
                  /\ thread' = End(c, j)

(* What may become of the indexes of node i.                               *)
IndexesAfter(i) ==
  \/ nextIndex'[i] = nextIndex[i] /\ matchIndex'[i] = matchIndex[i]
  \/ BecomeLeader(i)
  \/ \E c \in Command, j \in Node :
       /\ operator[c].leader = i
       /\ \/ ThreadEnds(c, j)
          \/ Succeeds(c, j)
          \/ /\ SendAppend(c, j) \/ ReceiveRefusal(c, j)
             /\ matchIndex'[i] = matchIndex[i]
             /\ \A k \in Node : nextIndex'[i][k] <= nextIndex[i][k]

LEMMA IndexesMove ==
  ASSUME TypeInv, [Next]_vars, NEW i \in Node
  PROVE  IndexesAfter(i)
<1>1. TypeOK /\ nextIndex[i] \in [Node -> Int] /\ matchIndex[i] \in [Node -> Int]
  BY DEF TypeInv, TypeOK
<1>2. ASSUME UNCHANGED indexVars PROVE IndexesAfter(i)
  BY <1>2 DEF indexVars, IndexesAfter
<1>3. ASSUME NEW k \in Node, NodeStep(k) PROVE IndexesAfter(i)
  <2>1. CASE BecomeLeader(k)
    <3>1. k # i => nextIndex'[i] = nextIndex[i] /\ matchIndex'[i] = matchIndex[i]
      BY <1>1, <2>1 DEF BecomeLeader, TypeOK
    <3> QED
      BY <2>1, <3>1 DEF IndexesAfter
  <2>2. CASE UNCHANGED indexVars
    BY <1>2, <2>2
  <2> QED
    BY <1>3, <2>1, <2>2 DEF NodeStep, BecomeCandidate, StartReturns, Start,
       BeatBegins, BeatDelivers, BeatFails, BeatRefused, RequestVote,
       VoteRefused
<1>4. ASSUME NEW c \in Command, NEW j \in Node,
             SendAppend(c, j) \/ ReceiveRefusal(c, j)
      PROVE  IndexesAfter(i)
  <2> DEFINE l == operator[c].leader
  <2>1. PICK n : /\ nextIndex' = [nextIndex EXCEPT ![l][j] = n]
                 /\ n <= nextIndex[l][j]
    <3>1. CASE SendAppend(c, j)
      <4>1. thread[c][j].phase # "none"
        BY <3>1 DEF SendAppend
      <4>2. l \in Node
        BY <4>1, PhaseUnderWay
      <4>3. nextIndex[l][j] \in Int /\ matchIndex[l][j] \in Int
        BY <1>1, <4>2 DEF TypeOK
      <4>4. NextToSend(l, j, thread[c][j]) <= nextIndex[l][j]
        BY <4>3 DEF NextToSend, Smaller
      <4> QED
        BY <3>1, <4>4 DEF SendAppend
    <3>2. CASE ReceiveRefusal(c, j)
      <4>1. thread[c][j].phase # "none"
        BY <3>2 DEF ReceiveRefusal
      <4>2. l \in Node
        BY <4>1, PhaseUnderWay
      <4>3. nextIndex[l][j] \in Int
        BY <1>1, <4>2 DEF TypeOK
      <4> DEFINE n == nextIndex[l][j] - 1
      <4>4. nextIndex' = [nextIndex EXCEPT ![l][j] = n]
        BY <3>2 DEF ReceiveRefusal
      <4>5. n <= nextIndex[l][j]
        BY <4>3
      <4> HIDE DEF n
      <4> QED
        BY <4>4, <4>5
    <3> QED
      BY <1>4, <3>1, <3>2
  <2>2. matchIndex' = matchIndex
    BY <1>4 DEF SendAppend, ReceiveRefusal
  <2>3. CASE l = i
    <3>1. \A k \in Node : nextIndex'[i][k] = IF k = j THEN n ELSE nextIndex[i][k]
      BY <1>1, <2>1, <2>3 DEF TypeOK
    <3>2. \A k \in Node : nextIndex'[i][k] <= nextIndex[i][k]
      BY <1>1, <2>1, <2>3, <3>1
    <3> QED
      BY <1>4, <2>2, <2>3, <3>2 DEF IndexesAfter
  <2>4. CASE l # i
    <3>1. nextIndex'[i] = nextIndex[i]
      BY <1>1, <2>1, <2>4 DEF TypeOK
    <3> QED
      BY <2>2, <3>1 DEF IndexesAfter
  <2> QED
    BY <2>3, <2>4
<1>5. ASSUME NEW c \in Command, NEW j \in Node, ThreadEnds(c, j)
      PROVE  IndexesAfter(i)
  <2>1. CASE operator[c].leader = i
    BY <1>5, <2>1 DEF IndexesAfter
  <2>2. CASE operator[c].leader # i
    <3>1. PICK n, g :
            /\ nextIndex' = [nextIndex EXCEPT ![operator[c].leader][j] = n]
            /\ matchIndex' = [matchIndex EXCEPT ![operator[c].leader] = g]
      BY <1>5 DEF ThreadEnds
    <3>2. nextIndex'[i] = nextIndex[i] /\ matchIndex'[i] = matchIndex[i]
      BY <1>1, <2>2, <3>1 DEF TypeOK
    <3> QED
      BY <3>2 DEF IndexesAfter
  <2> QED
    BY <2>1, <2>2
<1>6. ASSUME NEW c \in Command, NEW j \in Node,
             ReceiveSuccess(c, j) \/ FinishCommit(c, j)
      PROVE  IndexesAfter(i)
  <2>1. UNCHANGED indexVars \/ Succeeds(c, j)
    BY <1>6 DEF ReceiveSuccess, FinishCommit, Succeeds
  <2>2. CASE Succeeds(c, j) /\ operator[c].leader = i
    BY <2>2 DEF IndexesAfter
  <2>3. CASE Succeeds(c, j) /\ operator[c].leader # i
    <3>1. PICK n, k :
            /\ nextIndex' = [nextIndex EXCEPT ![operator[c].leader][j] = n]
            /\ matchIndex' = [matchIndex EXCEPT ![operator[c].leader][j] = k]
      BY <2>3 DEF Succeeds, MoveIndexes
    <3>2. nextIndex'[i] = nextIndex[i] /\ matchIndex'[i] = matchIndex[i]
      BY <1>1, <2>3, <3>1 DEF TypeOK
    <3> QED
      BY <3>2 DEF IndexesAfter
  <2> QED
    BY <1>2, <2>1, <2>2, <2>3
<1>7. ASSUME NEW c \in Command, NEW j \in Node,
             ThreadStep(c, j) \/ CommitStep(c, j)
      PROVE  IndexesAfter(i)
  <2>1. CASE CallFails(c, j) \/ DeliverAppend(c, j) \/ ApplyNext(c, j)
    BY <1>2, <2>1 DEF CallFails, DeliverAppend, ApplyNext
  <2> QED
    BY <1>4, <1>5, <1>6, <1>7, <2>1 DEF ThreadStep, CommitStep
<1>8. ASSUME NEW k \in Node, BeatSends(k) \/ HandlerStep(k)
      PROVE  IndexesAfter(i)
  BY <1>2, <1>8 DEF BeatSends, HandlerStep, HandlerApplies, HandlerReturns
<1>9. CASE UNCHANGED vars
  BY <1>2, <1>9 DEF vars, indexVars
<1>10. CASE Next
  BY <1>3, <1>7, <1>8, <1>10 DEF Next
<1> QED
  BY <1>9, <1>10

(* While its node leads, what a thread has copied is all of the log.       *)
LEMMA CopyIsLong ==
  ASSUME NEW H, StayInv(H), NEW c \in Command, NEW j \in Node,
         UnderWay(thread[c][j]), role[operator[c].leader] = "LEADER"
  PROVE  LET i == operator[c].leader
         IN  /\ i \in Node /\ Len(log[i]) = operator[c].index
             /\ operator[c].index \in Nat
             /\ thread[c][j].term = currentTerm[i]
             /\ LedWith(H, i, thread[c][j].term, thread[c][j].copy)
             /\ thread[c][j].copy \in Seq(Entry)
             /\ Extends(thread[c][j].copy, log[i])
<1> DEFINE i == operator[c].leader
           s == thread[c][j].copy
           t == thread[c][j].term
<1>1. LogInv(H) /\ TypeInv /\ TypeOK /\ PastHolds(H)
  BY PastKnown DEF StayInv
<1>2. i \in Node /\ s \in Seq(Entry) /\ Len(s) \in Nat /\ t \in Nat
  <2>1. thread[c][j] \in Thread
    BY <1>1 DEF TypeOK
  <2>2. i \in Node
    BY <1>1 DEF TypeInv, LeadersKnown
  <2> QED
    BY <2>1, <2>2, LenProperties DEF Thread
<1>3. /\ LedWith(H, i, t, s) /\ Len(s) = operator[c].index /\ Len(s) > 0
      /\ s[Len(s)].term = t /\ t = currentTerm[i] /\ Extends(log[i], s)
  BY <1>1 DEF LogInv, ThreadHolds
<1>4. log[i] \in LogsOf(H) /\ log[i] \in Seq(Entry) /\ Len(log[i]) \in Nat
  BY <1>1, <1>2, PastKnown, LenProperties
<1>5. HasAll(H, s, t)
  BY DEF StayInv, CopyHolds
<1>6. Ascends(log[i], currentTerm[i])
  <2> HIDE DEF i
  <2>1. Now(i) \in H
    BY <1>1, <1>2 DEF PastHolds
  <2>2. Now(i).log = log[i] /\ Now(i).term = currentTerm[i]
    BY <1>2, NowFields
  <2> QED
    BY <2>1, <2>2 DEF StayInv, Ordered
<1> HIDE DEF i, s, t
<1>7. Len(log[i]) <= Len(s)
  <2>1. Len(log[i]) \in 1 .. Len(log[i]) /\ Len(s) \in 1 .. Len(log[i])
    BY <1>2, <1>3, <1>4 DEF Extends
  <2>2. log[i][Len(s)] = s[Len(s)]
    BY <1>2, <1>3 DEF Extends
  <2>3. /\ log[i][Len(log[i])].term \in Nat
        /\ log[i][Len(log[i])].term <= t
    BY <1>3, <1>4, <1>6, <2>1, EntriesHaveTerms DEF Ascends
  <2>4. t <= log[i][Len(log[i])].term
    BY <1>3, <1>6, <2>1, <2>2 DEF Ascends
  <2>5. log[i][Len(log[i])].term = t
    BY <1>2, <2>3, <2>4
  <2> QED
    BY <1>4, <1>5, <2>1, <2>5 DEF HasAll
<1>8. Len(log[i]) = Len(s)
  BY <1>2, <1>3, <1>4, <1>7 DEF Extends
<1>9. Extends(s, log[i])
  BY <1>2, <1>3, <1>4, <1>8 DEF Extends
<1> QED
  BY <1>2, <1>3, <1>8, <1>9 DEF i, s, t

LEMMA NextHoldsNext ==
  ASSUME NEW H, CommitInv(H), [Next]_vars, Races = {},
         NEW i \in Node, NEW j \in Node
  PROVE  NextHolds(i, j)'
<1>1. /\ StayInv(H) /\ LogInv(H) /\ TypeInv /\ TypeOK /\ TypeInv' /\ TypeOK'
      /\ NextHolds(i, j)
  BY PastKnown, NextTyped DEF CommitInv, StayInv, TypeInv
<1>2. /\ nextIndex[i][j] \in Int /\ nextIndex'[i][j] \in Int
      /\ Len(log[i]) \in Nat /\ Len(log'[i]) \in Nat
  BY <1>1, LenProperties DEF TypeOK
<1> SUFFICES ASSUME role'[i] = "LEADER"
             PROVE  /\ nextIndex'[i][j] <= Len(log'[i]) + 1
                    /\ \A c \in Command :
                         operator'[c].leader = i /\ UnderWay(thread'[c][j])
                           => nextIndex'[i][j] <= operator'[c].index
  BY DEF NextHolds, Command
<1>3. CASE role[i] = "CANDIDATE" /\ BecomeLeader(i)
  <2>1. /\ nextIndex'[i][j] = Len(log[i]) + 1
        /\ UNCHANGED <<log, operator, thread>> /\ ~Sending(i)
    BY <1>1, <1>3 DEF BecomeLeader, TypeOK, sendVars
  <2> QED
    BY <1>2, <2>1 DEF Sending
<1>4. ASSUME role[i] = "LEADER"
      PROVE  /\ nextIndex[i][j] <= Len(log[i]) + 1
             /\ Len(log[i]) <= Len(log'[i])
             /\ log'[i] = log[i] \/ \E c \in Command : Start(i, c)
  <2>1. log'[i] = log[i] \/ \E c \in Command : Start(i, c)
    BY <1>1, <1>4, LeaderLogs
  <2>2. ASSUME NEW c \in Command, Start(i, c)
        PROVE  Len(log[i]) <= Len(log'[i])
    BY <1>1, <1>2, <2>2, StartDoes
  <2> QED
    BY <1>1, <1>2, <1>4, <2>1, <2>2 DEF NextHolds
<1>5. ASSUME role[i] = "LEADER", nextIndex'[i][j] <= nextIndex[i][j]
      PROVE  /\ nextIndex'[i][j] <= Len(log'[i]) + 1
             /\ \A c \in Command :
                  operator'[c].leader = i /\ UnderWay(thread'[c][j])
                    => nextIndex'[i][j] <= operator'[c].index
  <2>1. nextIndex'[i][j] <= Len(log'[i]) + 1
    BY <1>2, <1>4, <1>5
  <2>2. ASSUME NEW c \in Command, operator'[c].leader = i,
               UnderWay(thread'[c][j])
        PROVE  nextIndex'[i][j] <= operator'[c].index
    <3>1. CASE /\ UnderWay(thread[c][j]) /\ operator[c].leader = i
               /\ operator'[c].index = operator[c].index
      <4>1. nextIndex[i][j] <= operator[c].index
        BY <1>1, <1>5, <3>1 DEF NextHolds
      <4>2. operator[c].index \in Nat
        BY <1>1 DEF TypeOK, Operator
      <4> QED
        BY <1>2, <1>5, <3>1, <4>1, <4>2
    <3>2. ASSUME NEW k \in Node, Start(k, c)
          PROVE  nextIndex'[i][j] <= operator'[c].index
      <4>1. k = i /\ operator'[c].index = Len(log'[i])
        BY <1>1, <2>2, <3>2, StartThreads
      <4>2. Len(log'[i]) = Len(log[i]) + 1
        BY <1>1, <3>2, <4>1, StartDoes
      <4> QED
        BY <1>2, <1>4, <1>5, <4>1, <4>2
    <3> QED
      BY <1>1, <2>2, <3>1, <3>2, ThreadWas
  <2> QED
    BY <2>1, <2>2
<1>6. ASSUME role[i] = "LEADER", NEW d \in Command, NEW k \in Node,
             operator[d].leader = i, Succeeds(d, k)
      PROVE  /\ nextIndex'[i][j] <= Len(log'[i]) + 1
             /\ \A c \in Command :
                  operator'[c].leader = i /\ UnderWay(thread'[c][j])
                    => nextIndex'[i][j] <= operator'[c].index
  <2>1. nextIndex'[i][j] = IF j = k THEN nextIndex[i][j] + 1
                           ELSE nextIndex[i][j]
    BY <1>1, <1>6 DEF Succeeds, MoveIndexes, TypeOK
  <2>2. thread[d][k].phase # "none" /\ UNCHANGED log
    BY <1>6 DEF Succeeds, ReceiveSuccess, FinishCommit
  <2>3. UnderWay(thread[d][k])
    BY <1>1, <2>2, PhaseUnderWay
  <2>4. CASE j = k
    <3>1. Len(log[i]) = operator[d].index
      BY <1>1, <1>6, <2>3, CopyIsLong
    <3>2. nextIndex[i][j] <= operator[d].index
      BY <1>1, <1>6, <2>3, <2>4 DEF NextHolds
    <3>3. nextIndex'[i][j] <= Len(log'[i]) + 1
      BY <1>2, <2>1, <2>2, <2>4, <3>1, <3>2
    <3>4. ASSUME NEW c \in Command, operator'[c].leader = i,
                 UnderWay(thread'[c][j])
          PROVE  FALSE
      <4>1. thread' = [thread EXCEPT ![d][j] = NoThread]
        BY <1>6, <2>4 DEF Succeeds, End
      <4>2. c # d
        BY <1>1, <3>4, <4>1, ThreadEnded DEF TypeOK
      <4>3. thread'[c][j] = thread[c][j]
        BY <1>1, <4>1, <4>2 DEF TypeOK
      <4>4. PICK o : operator' = [operator EXCEPT ![d] = o]
        BY <1>6 DEF Succeeds, ReceiveSuccess, FinishCommit
      <4>5. operator'[c] = operator[c]
        BY <1>1, <4>2, <4>4 DEF TypeOK
      <4> QED
        BY <1>6, <2>3, <3>4, <4>2, <4>3, <4>5 DEF CommitInv, OneCommand
    <3> QED
      BY <3>3, <3>4
  <2> QED
    BY <1>2, <1>5, <1>6, <2>1, <2>4
<1>7. ASSUME role[i] = "LEADER"
      PROVE  /\ nextIndex'[i][j] <= Len(log'[i]) + 1
             /\ \A c \in Command :
                  operator'[c].leader = i /\ UnderWay(thread'[c][j])
                    => nextIndex'[i][j] <= operator'[c].index
  <2>1. CASE BecomeLeader(i)
    BY <1>7, <2>1 DEF BecomeLeader
  <2>2. ASSUME NEW d \in Command, NEW k \in Node, operator[d].leader = i,
               ThreadEnds(d, k)
        PROVE  FALSE
    BY <1>7, <2>2 DEF ThreadEnds
  <2>3. CASE nextIndex'[i][j] <= nextIndex[i][j]
    BY <1>5, <1>7, <2>3
  <2> QED
    BY <1>1, <1>2, <1>6, <1>7, <2>1, <2>2, <2>3, IndexesMove DEF IndexesAfter
<1> QED
  BY <1>1, <1>3, <1>7, LeadersMove

(* The node of a thread that has come through leads, and the follower has  *)
(* accepted what matchIndex now says.                                      *)
LEMMA SucceedsHolds ==
  ASSUME NEW H, CommitInv(H), NEW c \in Command, NEW k \in Node,
         Succeeds(c, k)
  PROVE  LET i == operator[c].leader
         IN  /\ i \in Node /\ role[i] = "LEADER"
             /\ UNCHANGED <<electionVars, log>>
             /\ Led(H, i, currentTerm[i])
             /\ nextIndex[i][k] > 0 =>
                  Accepted(H, k, currentTerm[i], nextIndex[i][k])
<1> DEFINE i == operator[c].leader
<1>1. /\ StayInv(H) /\ LogInv(H) /\ TypeInv /\ TypeOK /\ H \subseteq Moment
  BY PastKnown DEF CommitInv, StayInv, PastHolds
<1>2. /\ thread[c][k].phase # "none" /\ UNCHANGED <<electionVars, log>>
      /\ \/ role[i] = "LEADER" /\ thread[c][k].success
         \/ thread[c][k].phase = "applying"
  BY DEF Succeeds, ReceiveSuccess, FinishCommit
<1>3. UnderWay(thread[c][k]) /\ i \in Node
  BY <1>1, <1>2, PhaseUnderWay
<1>4. /\ role[i] = "LEADER"
      /\ Accepted(H, k, thread[c][k].term, operator[c].index)
  BY <1>2, <1>3 DEF CommitInv, Replied
<1>5. /\ operator[c].index \in Nat /\ thread[c][k].term = currentTerm[i]
      /\ Led(H, i, thread[c][k].term)
  BY <1>1, <1>3, <1>4, CopyIsLong, LedWithLog
<1>6. nextIndex[i][k] \in Int /\ nextIndex[i][k] <= operator[c].index
  BY <1>1, <1>3, <1>4 DEF CommitInv, NextHolds, TypeOK
<1>7. ASSUME nextIndex[i][k] > 0
      PROVE  Accepted(H, k, currentTerm[i], nextIndex[i][k])
  <2>1. nextIndex[i][k] \in Nat
    BY <1>6, <1>7
  <2>2. \A q : Accepted(H, q, currentTerm[i], operator[c].index)
                 => Accepted(H, q, currentTerm[i], nextIndex[i][k])
    BY <1>1, <1>5, <1>6, <2>1, SafeBelow
  <2> QED
    BY <1>4, <1>5, <2>2
<1> QED
  BY <1>2, <1>3, <1>4, <1>5, <1>7

(* Sorting the matchIndex of a node takes the positions along.             *)
LEMMA SortedAccepted ==
  ASSUME NEW f \in [Node -> Int], NEW g \in Sorted(f), NEW p \in OneToOne,
         NEW H, NEW l, NEW T, Matches(H, l, T, p, f)
  PROVE  \E r \in OneToOne : Matches(H, l, T, r, g)
<1>1. PICK q \in [Node -> Node] :
        /\ \A a, b \in Node : q[a] = q[b] => a = b
        /\ \A a \in Node : g[a] = f[q[a]]
  BY DEF Sorted
<1> DEFINE r == [a \in Node |-> p[q[a]]]
<1>2. r \in OneToOne
  BY <1>1 DEF OneToOne
<1>3. Matches(H, l, T, r, g)
  BY <1>1 DEF Matches
<1> QED
  BY <1>2, <1>3

LEMMA MatchHoldsNext ==
  ASSUME NEW H, CommitInv(H), [Next]_vars, Races = {},
         NEW G, G = H \cup {Now(q)' : q \in Node}, NEW i \in Node
  PROVE  MatchHolds(G, i)'
<1>1. /\ StayInv(H) /\ LogInv(H) /\ TypeInv /\ TypeOK /\ TypeInv' /\ TypeOK'
      /\ MatchHolds(H, i)
  BY PastKnown, NextTyped DEF CommitInv, StayInv, TypeInv
<1>2. /\ matchIndex[i] \in [Node -> Int] /\ matchIndex'[i] \in [Node -> Int]
      /\ currentTerm[i] \in Nat /\ currentTerm'[i] \in Nat
      /\ nextIndex[i] \in [Node -> Int]
  BY <1>1 DEF TypeOK
<1>3. /\ \A q, T, k : Accepted(H, q, T, k) => Accepted(G, q, T, k)
      /\ \A T : Led(H, i, T) => Led(G, i, T)
  BY AcceptedStays, PastStays
<1> DEFINE id == [a \in Node |-> a]
<1>4. id \in OneToOne /\ \A j \in Node : id[j] = j
  BY DEF OneToOne
<1> DEFINE Fits(T, p) ==
      /\ role'[i] = "LEADER" => T = currentTerm'[i] /\ \A j \in Node : p[j] = j
      /\ \A j \in Node : matchIndex'[i][j] > 0 =>
           Led(G, i, T) /\ Accepted(G, p[j], T, matchIndex'[i][j])
<1> SUFFICES \E T \in Nat, p \in OneToOne : Fits(T, p)
  BY DEF MatchHolds, Matches, Led, Accepted, HasFrom, OneToOne, Node
<1>5. PICK T \in Nat, p \in OneToOne :
        /\ role[i] = "LEADER" =>
             T = currentTerm[i] /\ \A j \in Node : p[j] = j
        /\ \A j \in Node : matchIndex[i][j] > 0 =>
             Led(H, i, T) /\ Accepted(H, p[j], T, matchIndex[i][j])
  BY <1>1 DEF MatchHolds, Matches
<1>6. CASE BecomeLeader(i)
  <2>1. \A j \in Node : matchIndex'[i][j] = 0
    BY <1>1, <1>6 DEF BecomeLeader, TypeOK
  <2>2. Fits(currentTerm'[i], id)
    BY <1>4, <2>1
  <2> QED
    BY <1>2, <1>4, <2>2
<1>7. CASE matchIndex'[i] = matchIndex[i] /\ ~BecomeLeader(i)
  <2>1. role'[i] = "LEADER" =>
          role[i] = "LEADER" /\ currentTerm'[i] = currentTerm[i]
    BY <1>1, <1>7, LeadersMove
  <2>2. Fits(T, p)
    BY <1>3, <1>5, <1>7, <2>1
  <2> QED
    BY <2>2
<1>8. ASSUME NEW c \in Command, NEW k \in Node, operator[c].leader = i,
             ThreadEnds(c, k)
      PROVE  \E t \in Nat, r \in OneToOne : Fits(t, r)
  <2>1. PICK g \in Sorted(matchIndex[i]) :
          matchIndex' = [matchIndex EXCEPT ![i] = g]
    BY <1>8 DEF ThreadEnds
  <2>2. role'[i] # "LEADER" /\ matchIndex'[i] = g
    BY <1>1, <1>8, <2>1 DEF ThreadEnds, electionVars, TypeOK
  <2>3. Matches(G, i, T, p, matchIndex[i])
    BY <1>3, <1>5 DEF Matches
  <2>4. PICK r \in OneToOne : Matches(G, i, T, r, g)
    BY <1>2, <2>1, <2>3, SortedAccepted
  <2>5. Fits(T, r)
    BY <2>2, <2>4 DEF Matches
  <2> QED
    BY <2>5
<1>9. ASSUME NEW c \in Command, NEW k \in Node, operator[c].leader = i,
             Succeeds(c, k)
      PROVE  \E t \in Nat, r \in OneToOne : Fits(t, r)
  <2>1. /\ role[i] = "LEADER" /\ UNCHANGED <<electionVars, log>>
        /\ Led(H, i, currentTerm[i])
        /\ nextIndex[i][k] > 0 =>
             Accepted(H, k, currentTerm[i], nextIndex[i][k])
    BY <1>9, SucceedsHolds
  <2>2. currentTerm'[i] = currentTerm[i] /\ T = currentTerm[i]
        /\ \A j \in Node : p[j] = j
    BY <1>5, <2>1 DEF electionVars
  <2>3. \A j \in Node : matchIndex'[i][j] =
          IF j = k THEN nextIndex[i][k] ELSE matchIndex[i][j]
    BY <1>1, <1>9 DEF Succeeds, MoveIndexes, TypeOK
  <2>4. ASSUME NEW j \in Node, matchIndex'[i][j] > 0
        PROVE  Led(G, i, T) /\ Accepted(G, p[j], T, matchIndex'[i][j])
    BY <1>3, <1>5, <2>1, <2>2, <2>3, <2>4
  <2>5. Fits(T, p)
    BY <2>2, <2>4
  <2> QED
    BY <2>5
<1> QED
  BY <1>1, <1>6, <1>7, <1>8, <1>9, IndexesMove DEF IndexesAfter

-----------------------------------------------------------------------------
(***************************************************************************)
(* What probNSituation commits.                                            *)
(***************************************************************************)

(* The positions from the middle on are those of a majority.               *)
LEMMA UpperHalf ==
  ASSUME NEW r \in OneToOne
  PROVE  LET Q == {r[a] : a \in Middle .. NumPeers - 1}
         IN  Q \in SUBSET Node /\ IsMajority(Cardinality(Q))
<1> DEFINE S == Middle .. NumPeers - 1
           Q == {r[a] : a \in S}
<1>1. /\ NumPeers \in Nat /\ NumPeers > 1 /\ Middle \in Node
      /\ Middle \in Int /\ Middle <= NumPeers - 1
  BY MiddleIsNode, NumPeersAssumption DEF Node
<1>2. S \subseteq Node
  BY <1>1 DEF Node
<1>3. /\ r \in [Node -> Node]
      /\ \A a, b \in Node : r[a] = r[b] => a = b
  BY DEF OneToOne
<1>4. IsFiniteSet(S) /\ Cardinality(S) = NumPeers - Middle
  <2>1. ~(Middle > NumPeers - 1) /\ NumPeers - 1 \in Int
    BY <1>1
  <2>2. IsFiniteSet(S) /\ Cardinality(S) = (NumPeers - 1) - Middle + 1
    BY <1>1, <2>1, FS_Interval
  <2> QED
    BY <1>1, <2>2
<1>5. NumPeers - Middle > NumPeers \div 2
  <2>1. CASE NumPeers % 2 = 1
    BY <1>1, <2>1 DEF Middle
  <2>2. CASE NumPeers % 2 # 1
    BY <1>1, <2>2 DEF Middle
  <2> QED
    BY <2>1, <2>2
<1> HIDE DEF S
<1>6. Q \in SUBSET Node
  BY <1>2, <1>3
<1>7. IsFiniteSet(Q) /\ Cardinality(Q) \in Nat
  BY <1>6, NodesAreFinite
<1> DEFINE f == [a \in S |-> r[a]]
<1>8. f \in [S -> Q]
  OBVIOUS
<1>9. ~ \E x, y \in S : x # y /\ f[x] = f[y]
  BY <1>2, <1>3
<1> HIDE DEF Q, f
<1>10. ~(Cardinality(Q) < Cardinality(S))
  BY <1>4, <1>7, <1>8, <1>9, FS_PigeonHole
<1>11. IsMajority(Cardinality(Q))
  BY <1>1, <1>4, <1>5, <1>7, <1>10 DEF IsMajority
<1> QED
  BY <1>6, <1>11 DEF Q, S

(* What the upper half of a sorted matchIndex has reached is safe.         *)
LEMMA MiddleIsSafe ==
  ASSUME NEW H, H \subseteq Moment, NEW f \in [Node -> Int],
         NEW g \in Sorted(f), NEW p \in OneToOne, NEW l, NEW T,
         Matches(H, l, T, p, f), NEW N \in Nat, N = g[Middle], N > 0
  PROVE  Led(H, l, T) /\ Safe(H, T, N)
<1>1. PICK r \in OneToOne : Matches(H, l, T, r, g)
  BY SortedAccepted
<1>2. /\ \A a \in Node : g[a] \in Int
      /\ \A a, b \in Node : a < b => g[a] <= g[b]
  BY DEF Sorted
<1>3. Middle \in Node /\ Middle .. NumPeers - 1 \subseteq Node
      /\ Node \subseteq Int
  BY MiddleIsNode, NumPeersAssumption DEF Node
<1>4. ASSUME NEW a \in Middle .. NumPeers - 1
      PROVE  Led(H, l, T) /\ Accepted(H, r[a], T, N)
  <2>1. a \in Node /\ g[a] \in Int
    BY <1>2, <1>3
  <2>2. a = Middle \/ Middle < a
    BY <1>3, <2>1
  <2>3. N <= g[a] /\ g[a] > 0
    BY <1>2, <1>3, <2>1, <2>2
  <2>4. g[a] \in Nat
    BY <2>1, <2>3
  <2>5. Led(H, l, T) /\ Accepted(H, r[a], T, g[a])
    BY <1>1, <2>1, <2>3 DEF Matches
  <2> QED
    BY <2>3, <2>4, <2>5, SafeBelow
<1> DEFINE Q == {r[a] : a \in Middle .. NumPeers - 1}
<1>5. Q \in SUBSET Node /\ IsMajority(Cardinality(Q))
  BY UpperHalf
<1>6. \A q \in Q : Accepted(H, q, T, N)
  BY <1>4
<1> HIDE DEF Q
<1>7. Safe(H, T, N)
  BY <1>5, <1>6 DEF Safe
<1>8. Middle \in Middle .. NumPeers - 1
  BY <1>3, MiddleIsNode, NumPeersAssumption DEF Node
<1> QED
  BY <1>4, <1>7, <1>8

LEMMA EndCommits ==
  ASSUME NEW H, CommitInv(H), Races = {},
         NEW c \in Command, NEW k \in Node, ThreadEnds(c, k)
  PROVE  LET i == operator[c].leader
         IN  /\ i \in Node /\ UNCHANGED log
             /\ \E N \in Nat :
                  /\ commitIndex' = [commitIndex EXCEPT ![i] = N]
                  /\ N >= commitIndex[i]
                  /\ N = commitIndex[i] \/ Durable(H, log[i], N)
<1> DEFINE i == operator[c].leader
<1>1. /\ StayInv(H) /\ LogInv(H) /\ TypeInv /\ TypeOK /\ PastHolds(H)
      /\ H \subseteq Moment
  BY PastKnown DEF CommitInv, StayInv, PastHolds
<1>2. i \in Node
  <2>1. thread[c][k].phase # "none"
    BY DEF ThreadEnds
  <2> QED
    BY <1>1, <2>1, PhaseUnderWay
<1>3. UNCHANGED log /\ role[i] # "LEADER"
  BY DEF ThreadEnds
<1>4. PICK g \in Sorted(matchIndex[i]) :
        commitIndex' = [commitIndex EXCEPT ![i] =
          IF /\ g[Middle] > commitIndex[i] /\ g[Middle] + 1 <= Len(log[i])
             /\ log[i][g[Middle] + 1].term = currentTerm[i]
          THEN g[Middle] ELSE commitIndex[i]]
  BY DEF ThreadEnds
<1> HIDE DEF i
<1>5. /\ matchIndex[i] \in [Node -> Int] /\ commitIndex[i] \in Nat
      /\ log[i] \in Seq(Entry) /\ Len(log[i]) \in Nat
      /\ currentTerm[i] \in Nat /\ g[Middle] \in Int
  <2>1. matchIndex[i] \in [Node -> Int] /\ commitIndex[i] \in Nat
        /\ log[i] \in Seq(Entry) /\ currentTerm[i] \in Nat
    BY <1>1, <1>2 DEF TypeOK
  <2>2. g[Middle] \in Int
    BY <2>1, MiddleIsNode DEF Sorted
  <2> QED
    BY <2>1, <2>2, LenProperties
<1> DEFINE N == g[Middle]
<1> HIDE DEF N
<1>6. CASE /\ N > commitIndex[i] /\ N + 1 <= Len(log[i])
           /\ log[i][N + 1].term = currentTerm[i]
  <2>1. N \in Nat /\ N > 0 /\ N + 1 \in 1 .. Len(log[i]) /\ N <= N + 1
    BY <1>5, <1>6 DEF N
  <2>2. PICK T \in Nat, p \in OneToOne : Matches(H, i, T, p, matchIndex[i])
    BY <1>2 DEF CommitInv, MatchHolds
  <2>3. Led(H, i, T) /\ Safe(H, T, N)
    BY <1>1, <1>5, <2>1, <2>2, MiddleIsSafe DEF N
  <2>4. T < currentTerm[i]
    <3>1. PICK h \in H : h.node = i /\ h.term = T /\ h.role = "LEADER"
      BY <2>3 DEF Led
    <3>2. T # currentTerm[i]
      BY <1>1, <1>3, <3>1 DEF LogInv, LeadersHold
    <3>3. T <= currentTerm[i]
      BY <1>1, <3>1 DEF PastHolds
    <3> QED
      BY <1>5, <3>2, <3>3
  <2>5. Complete(H, T, N)
    BY <1>1, <2>1, <2>3, SafeIsComplete
  <2>6. PICK h \in H : h.log = log[i]
    BY <1>1, <1>2, NowStays
  <2>7. h.log[N + 1].term > T
    BY <1>5, <1>6, <2>4, <2>6
  <2>8. HasFrom(h.log, N, T)
    BY <2>1, <2>5, <2>6, <2>7 DEF Complete
  <2>9. Durable(H, log[i], N)
    BY <2>3, <2>6, <2>8 DEF Durable
  <2>10. commitIndex' = [commitIndex EXCEPT ![i] = N]
    BY <1>4, <1>6 DEF N
  <2>11. N >= commitIndex[i]
    BY <1>5, <1>6, <2>1
  <2> QED
    BY <1>2, <1>3, <2>1, <2>9, <2>10, <2>11 DEF i
<1>7. CASE ~ /\ N > commitIndex[i] /\ N + 1 <= Len(log[i])
             /\ log[i][N + 1].term = currentTerm[i]
  <2>1. commitIndex' = [commitIndex EXCEPT ![i] = commitIndex[i]]
    BY <1>4, <1>7 DEF N
  <2>2. commitIndex[i] >= commitIndex[i]
    BY <1>5
  <2> QED
    BY <1>2, <1>3, <1>5, <2>1, <2>2 DEF i
<1> QED
  BY <1>6, <1>7

-----------------------------------------------------------------------------
(***************************************************************************)
(* What a step does to the commit indexes.                                 *)
(***************************************************************************)

(* The node of a message takes over a commit index of which it has the     *)
(* entries.                                                                *)
LEMMA ReplyCommits ==
  ASSUME NEW H, StayInv(H), [Next]_vars, NEW G, H \subseteq G,
         NEW q \in Node, NEW m \in Message, NEW s \in LogsOf(H),
         Sends(m, s, m.term), CommitSent(H, s, m), ReplyToAppend(q, m),
         commitIndex[q] > 0 => Durable(H, log[q], commitIndex[q])
  PROVE  /\ commitIndex'[q] >= commitIndex[q]
         /\ commitIndex'[q] > 0 => Durable(G, log'[q], commitIndex'[q])
<1>1. /\ LogInv(H) /\ TypeInv /\ TypeOK /\ LogsCohere(H)
      /\ s \in Seq(Entry) /\ Len(s) \in Nat
      /\ log[q] \in LogsOf(H) /\ log[q] \in Seq(Entry)
  BY PastKnown DEF StayInv
<1>2. commitIndex[q] \in Nat /\ m.commit \in Nat
  BY <1>1 DEF TypeOK, Message
<1>3. /\ log'[q] = LogAfter(q, m) /\ log'[q] \in Seq(Entry)
      /\ Len(log'[q]) \in Nat
  BY <1>1, ReplyDoes, LogAfterIsLog, LenProperties DEF TypeOK
<1>4. commitIndex'[q] = CommitAfter(q, m)
  BY <1>1 DEF ReplyToAppend, TypeOK
<1>5. CASE Accepts(q, m) /\ m.commit > commitIndex[q]
  <2>1. Coherent(log[q], s)
    BY <1>1 DEF LogsCohere
  <2>2. Extends(log'[q], s)
    BY <1>1, <1>3, <1>5, <2>1, AcceptsAll
  <2>3. m.commit > 0
    BY <1>2, <1>5
  <2>4. Durable(H, s, m.commit)
    BY <2>3 DEF CommitSent
  <2>5. m.commit <= Len(s)
    BY <1>1, <1>2, <2>4, DurableIsThere
  <2>6. m.commit <= Len(log'[q])
    BY <1>1, <1>2, <1>3, <2>2, <2>5 DEF Extends
  <2>7. commitIndex'[q] = m.commit
    BY <1>2, <1>3, <1>4, <1>5, <2>6 DEF CommitAfter, Smaller
  <2>8. Durable(G, log'[q], m.commit)
    BY <1>1, <1>2, <1>3, <2>2, <2>4, DurableOn
  <2> QED
    BY <1>2, <1>5, <2>7, <2>8
<1>6. CASE ~(Accepts(q, m) /\ m.commit > commitIndex[q])
  <2>1. commitIndex'[q] = commitIndex[q]
    BY <1>4, <1>6 DEF CommitAfter
  <2>2. commitIndex[q] > 0 => Durable(G, log'[q], commitIndex[q])
    BY <1>2, DurableStays
  <2> QED
    BY <1>2, <2>1, <2>2
<1> QED
  BY <1>5, <1>6

(* What a thread applies is durable.                                       *)
LEMMA ApplyingIsDurable ==
  ASSUME NEW H, CommitInv(H), NEW c \in Command, NEW k \in Node,
         thread[c][k].phase = "applying"
  PROVE  LET i == operator[c].leader
             N == operator[c].index
         IN  /\ i \in Node /\ N \in Nat /\ N > 0 /\ Len(log[i]) = N
             /\ Durable(H, log[i], N)
<1> DEFINE i == operator[c].leader
           s == thread[c][k].copy
           t == thread[c][k].term
           N == operator[c].index
<1>1. /\ StayInv(H) /\ LogInv(H) /\ TypeInv /\ TypeOK
  BY PastKnown DEF CommitInv, StayInv
<1>2. UnderWay(thread[c][k]) /\ i \in Node /\ thread[c][k] \in Thread
  BY <1>1, PhaseUnderWay
<1>3. role[i] = "LEADER" /\ Safe(H, t, N)
  BY <1>2 DEF CommitInv, Replied
<1>4. Len(log[i]) = N /\ N \in Nat
  BY <1>1, <1>2, <1>3, CopyIsLong
<1>5. /\ Len(s) = N /\ Len(s) > 0 /\ s[Len(s)].term = t /\ Extends(log[i], s)
  BY <1>1, <1>2, <1>3 DEF LogInv, ThreadHolds
<1>6. t \in Nat
  BY <1>2 DEF Thread
<1> HIDE DEF i, s, t, N
<1>7. HasFrom(log[i], N, t)
  <2>1. N \in 1 .. Len(log[i]) /\ N \in 1 .. Len(s) /\ N <= N
    BY <1>4, <1>5
  <2>2. log[i][N].term = t
    BY <1>5, <2>1 DEF Extends
  <2> QED
    BY <2>1, <2>2 DEF HasFrom
<1>8. Durable(H, log[i], N)
  BY <1>3, <1>6, <1>7 DEF Durable
<1> QED
  BY <1>2, <1>4, <1>5, <1>8 DEF i, N

(* A thread that has applied its command commits what a majority has.      *)
LEMMA FinishCommits ==
  ASSUME NEW H, CommitInv(H), NEW c \in Command, NEW k \in Node,
         FinishCommit(c, k)
  PROVE  LET i == operator[c].leader
         IN  /\ i \in Node /\ UNCHANGED log
             /\ \E N \in Nat :
                  /\ commitIndex' = [commitIndex EXCEPT ![i] = N]
                  /\ N >= commitIndex[i] /\ Durable(H, log[i], N)
<1> DEFINE i == operator[c].leader
           N == operator[c].index
<1>1. TypeOK
  BY PastKnown DEF CommitInv, StayInv
<1>2. /\ thread[c][k].phase = "applying" /\ UNCHANGED log
      /\ commitIndex' = [commitIndex EXCEPT ![i] = N]
  BY DEF FinishCommit
<1>3. /\ i \in Node /\ N \in Nat /\ Len(log[i]) = N /\ Durable(H, log[i], N)
  BY <1>2, ApplyingIsDurable
<1> HIDE DEF i, N
<1>4. commitIndex[i] \in Nat
  BY <1>1, <1>3 DEF TypeOK
<1>5. N >= commitIndex[i]
  <2>1. CASE commitIndex[i] = 0
    BY <1>3, <2>1
  <2>2. CASE commitIndex[i] > 0
    <3>1. Durable(H, log[i], commitIndex[i])
      BY <1>3, <2>2 DEF CommitInv
    <3>2. commitIndex[i] <= Len(log[i])
      BY <1>3, <1>4, <3>1, DurableIsThere
    <3> QED
      BY <1>3, <1>4, <3>2
  <2> QED
    BY <1>4, <2>1, <2>2
<1> QED
  BY <1>2, <1>3, <1>5 DEF i, N

LEMMA CommitSteps ==
  ASSUME [Next]_vars
  PROVE  \/ UNCHANGED commitIndex
         \/ \E c \in Command, j \in Node :
              DeliverAppend(c, j) \/ ThreadEnds(c, j) \/ FinishCommit(c, j)
         \/ \E i \in Node : BeatDelivers(i)
<1> DEFINE Kinds ==
             \/ UNCHANGED commitIndex
             \/ \E c \in Command, j \in Node :
                  DeliverAppend(c, j) \/ ThreadEnds(c, j) \/ FinishCommit(c, j)
             \/ \E i \in Node : BeatDelivers(i)
<1>1. ASSUME NEW i \in Node, NodeStep(i) PROVE Kinds
  <2>1. CASE BecomeCandidate(i) \/ BecomeLeader(i)
    BY <2>1 DEF BecomeCandidate, BecomeLeader, commitVars
  <2>2. CASE StartReturns(i) \/ BeatBegins(i) \/ BeatFails(i) \/ BeatRefused(i)
    BY <2>2 DEF StartReturns, BeatBegins, BeatFails, BeatRefused, commitVars
  <2>3. CASE \E j \in Node : RequestVote(i, j) \/ VoteRefused(i, j)
    BY <2>3 DEF RequestVote, VoteRefused, commitVars
  <2>4. CASE \E c \in Command : Start(i, c)
    BY <2>4 DEF Start
  <2>5. CASE BeatDelivers(i)
    BY <2>5
  <2> QED
    BY <1>1, <2>1, <2>2, <2>3, <2>4, <2>5 DEF NodeStep
<1>2. ASSUME NEW c \in Command, NEW j \in Node,
             ThreadStep(c, j) \/ CommitStep(c, j)
      PROVE  Kinds
  <2>1. CASE SendAppend(c, j) \/ CallFails(c, j) \/ ApplyNext(c, j)
    BY <2>1 DEF SendAppend, CallFails, ApplyNext, commitVars
  <2>2. CASE ReceiveSuccess(c, j) \/ ReceiveRefusal(c, j)
    BY <2>2 DEF ReceiveSuccess, ReceiveRefusal, commitVars
  <2>3. CASE DeliverAppend(c, j) \/ ThreadEnds(c, j) \/ FinishCommit(c, j)
    BY <2>3
  <2> QED
    BY <1>2, <2>1, <2>2, <2>3 DEF ThreadStep, CommitStep
<1>3. ASSUME NEW i \in Node, BeatSends(i) \/ HandlerStep(i) PROVE Kinds
  BY <1>3 DEF BeatSends, HandlerStep, HandlerApplies, HandlerReturns,
     commitVars
<1>4. CASE UNCHANGED vars
  BY <1>4 DEF vars
<1>5. CASE Next
  BY <1>1, <1>2, <1>3, <1>5 DEF Next
<1> QED
  BY <1>4, <1>5

(* A commit index never goes back, and is durable.                         *)
LEMMA CommitHoldsNext ==
  ASSUME NEW H, CommitInv(H), [Next]_vars, Races = {},
         NEW G, H \subseteq G, NEW i \in Node
  PROVE  /\ commitIndex'[i] >= commitIndex[i]
         /\ commitIndex'[i] > 0 => Durable(G, log'[i], commitIndex'[i])
<1> DEFINE Holds ==
             /\ commitIndex'[i] >= commitIndex[i]
             /\ commitIndex'[i] > 0 => Durable(G, log'[i], commitIndex'[i])
<1>1. /\ StayInv(H) /\ LogInv(H) /\ TypeInv /\ TypeOK
      /\ commitIndex[i] \in Nat /\ commitIndex \in [Node -> Nat]
      /\ commitIndex[i] > 0 => Durable(H, log[i], commitIndex[i])
  BY PastKnown DEF CommitInv, StayInv, TypeOK
<1>2. CASE commitIndex'[i] = commitIndex[i]
  <2>1. commitIndex[i] > 0 => Durable(G, log'[i], commitIndex[i])
    BY <1>1, DurableStays
  <2> QED
    BY <1>1, <1>2, <2>1
<1>3. ASSUME NEW l \in Node, NEW N \in Nat, UNCHANGED log,
             commitIndex' = [commitIndex EXCEPT ![l] = N],
             N >= commitIndex[l],
             N = commitIndex[l] \/ Durable(H, log[l], N)
      PROVE  Holds
  <2>1. CASE l # i \/ N = commitIndex[l]
    BY <1>1, <1>2, <1>3, <2>1
  <2>2. CASE l = i /\ Durable(H, log[l], N)
    <3>1. Durable(G, log'[i], N)
      BY <1>1, <2>2, DurableStays
    <3>2. commitIndex'[i] = N
      BY <1>1, <1>3, <2>2
    <3> QED
      BY <1>3, <2>2, <3>1, <3>2
  <2> QED
    BY <1>3, <2>1, <2>2
<1>4. ASSUME NEW q \in Node, NEW m \in Message, ReplyToAppend(q, m), q # i
      PROVE  commitIndex'[i] = commitIndex[i]
  BY <1>1, <1>4 DEF ReplyToAppend
<1>5. ASSUME NEW c \in Command, NEW j \in Node, DeliverAppend(c, j)
      PROVE  Holds
  <2> DEFINE m == thread[c][j].message
             s == thread[c][j].copy
  <2>1. ReplyToAppend(j, m) /\ m \in Message /\ thread[c][j].phase = "sent"
    BY <1>1, <1>5, DeliveriesHold DEF DeliverAppend
  <2>2. UnderWay(thread[c][j])
    BY <1>1, <2>1, PhaseUnderWay
  <2>3. /\ LedWith(H, operator[c].leader, thread[c][j].term, s)
        /\ Sends(m, s, thread[c][j].term)
    BY <1>1, <2>1, <2>2 DEF LogInv, ThreadHolds
  <2>4. s \in LogsOf(H) /\ Sends(m, s, m.term)
    BY <2>3, LedWithLog DEF Sends
  <2>5. CommitSent(H, s, m)
    BY <2>1 DEF CommitInv
  <2> HIDE DEF m, s
  <2> QED
    BY <1>1, <1>2, <1>4, <2>1, <2>4, <2>5, ReplyCommits
<1>6. ASSUME NEW k \in Node, BeatDelivers(k)
      PROVE  Holds
  <2> DEFINE m == beat[k].message
             j == beat[k].to
  <2>1. /\ j \in Node /\ ReplyToAppend(j, m) /\ m \in Message
        /\ beat[k].phase = "sent"
    BY <1>1, <1>6, DeliveriesHold DEF BeatDelivers
  <2>2. PICK s \in LogsOf(H) : Sends(m, s, m.term) /\ CommitSent(H, s, m)
    BY <2>1 DEF CommitInv, BeatCommits, Beats
  <2> HIDE DEF m, j
  <2> QED
    BY <1>1, <1>2, <1>4, <2>1, <2>2, ReplyCommits
<1>7. ASSUME NEW c \in Command, NEW j \in Node, ThreadEnds(c, j)
      PROVE  Holds
  <2> DEFINE l == operator[c].leader
  <2>1. /\ l \in Node /\ UNCHANGED log
        /\ \E N \in Nat : /\ commitIndex' = [commitIndex EXCEPT ![l] = N]
                          /\ N >= commitIndex[l]
                          /\ N = commitIndex[l] \/ Durable(H, log[l], N)
    BY <1>7, EndCommits
  <2> HIDE DEF l
  <2> QED
    BY <1>3, <2>1
<1>8. ASSUME NEW c \in Command, NEW j \in Node, FinishCommit(c, j)
      PROVE  Holds
  <2> DEFINE l == operator[c].leader
  <2>1. /\ l \in Node /\ UNCHANGED log
        /\ \E N \in Nat : /\ commitIndex' = [commitIndex EXCEPT ![l] = N]
                          /\ N >= commitIndex[l] /\ Durable(H, log[l], N)
    BY <1>8, FinishCommits
  <2> HIDE DEF l
  <2> QED
    BY <1>3, <2>1
<1> QED
  BY <1>2, <1>5, <1>6, <1>7, <1>8, CommitSteps

-----------------------------------------------------------------------------
(***************************************************************************)
(* What a step does to the commit indexes that are sent, and to what is    *)
(* applied.                                                                *)
(***************************************************************************)

LEMMA DurableKept ==
  ASSUME NEW H, NEW G, H \subseteq G
  PROVE  /\ \A s, k : Durable(H, s, k) => Durable(G, s, k)
         /\ \A s, m : CommitSent(H, s, m) => CommitSent(G, s, m)
<1>1. \A s, k : Durable(H, s, k) => Durable(G, s, k)
  BY AcceptedStays DEF Durable
<1> QED
  BY <1>1 DEF CommitSent

(* A message has the commit index of its node.                             *)
LEMMA SendAppendCommit ==
  ASSUME TypeInv, NEW c \in Command, NEW j \in Node, SendAppend(c, j),
         UnderWay(thread'[c][j])
  PROVE  thread'[c][j].message.commit = commitIndex[operator[c].leader]
<1> DEFINE i == operator[c].leader
           t == thread[c][j]
           next == NextToSend(i, j, t)
           first == Larger(next - 1, 0)
           prevPosition == Larger(next - 2, 0) + 1
           upto == operator[c].index
           inRange == /\ prevPosition <= Len(t.copy)
                      /\ first <= Len(log[i]) =>
                           first <= upto /\ upto <= Len(log[i])
           entries == IF first <= Len(log[i])
                      THEN SubSeq(log[i], first + 1, upto) ELSE <<>>
           m == [from |-> i, term |-> t.term, prev |-> first,
                 prevTerm |-> t.copy[prevPosition].term,
                 entries |-> entries, commit |-> commitIndex[i]]
           sent == [t EXCEPT !.phase = "sent", !.message = m]
           after == IF inRange THEN sent ELSE NoThread
<1>1. TypeOK /\ t \in Thread
  BY DEF TypeInv, TypeOK
<1>2. thread' = [thread EXCEPT ![c][j] = after]
  BY DEF SendAppend
<1>3. thread'[c][j] = after
  BY <1>1, <1>2 DEF TypeOK
<1>4. after = sent
  BY <1>3, ThreadEnded
<1>5. m.commit = commitIndex[i]
  OBVIOUS
<1> HIDE DEF m
<1>6. sent.message = m
  BY <1>1 DEF Thread
<1> QED
  BY <1>3, <1>4, <1>5, <1>6

LEMMA SendHoldsNext ==
  ASSUME NEW H, CommitInv(H), [Next]_vars, NEW G, H \subseteq G,
         NEW c \in Command, NEW j \in Node, thread'[c][j].phase = "sent"
  PROVE  CommitSent(G, thread'[c][j].copy, thread'[c][j].message)
<1>1. /\ StayInv(H) /\ LogInv(H) /\ TypeInv /\ TypeOK
  BY PastKnown DEF CommitInv, StayInv
<1>2. UnderWay(thread'[c][j])
  BY ThreadEnded DEF UnderWay
<1>3. CASE SameThread(c, j)
  <2>1. CommitSent(H, thread'[c][j].copy, thread'[c][j].message)
    BY <1>3 DEF SameThread, CommitInv
  <2> QED
    BY <2>1, DurableKept
<1>4. CASE SendAppend(c, j)
  <2> DEFINE i == operator[c].leader
             s == thread[c][j].copy
  <2>1. /\ UnderWay(thread[c][j]) /\ role[i] = "LEADER"
        /\ thread'[c][j].copy = s
    BY <1>1, <1>2, <1>4, SendAppendSends DEF SendAppend
  <2>2. i \in Node /\ s \in Seq(Entry) /\ Extends(s, log[i])
    BY <1>1, <2>1, CopyIsLong
  <2>3. thread'[c][j].message.commit = commitIndex[i]
    BY <1>1, <1>2, <1>4, SendAppendCommit
  <2> HIDE DEF i, s
  <2>4. commitIndex[i] \in Nat /\ Len(log[i]) \in Nat /\ Len(s) \in Nat
    BY <1>1, <2>2, LenProperties DEF TypeOK
  <2>5. commitIndex[i] > 0 => Durable(H, log[i], commitIndex[i])
    BY <2>2 DEF CommitInv
  <2>6. commitIndex[i] > 0 => Durable(G, s, commitIndex[i])
    BY <2>2, <2>4, <2>5, DurableOn
  <2> QED
    BY <2>1, <2>3, <2>6 DEF CommitSent
<1>5. ASSUME NEW i \in Node, Start(i, c) PROVE FALSE
  BY <1>1, <1>2, <1>5, StartThreads
<1> QED
  BY <1>1, <1>2, <1>3, <1>4, <1>5, ThreadsMove

LEMMA BeatCommitsNext ==
  ASSUME NEW H, CommitInv(H), [Next]_vars, NEW G, H \subseteq G,
         NEW i \in Node
  PROVE  BeatCommits(G, i)'
<1>1. /\ StayInv(H) /\ LogInv(H) /\ TypeInv /\ TypeOK /\ PastHolds(H)
      /\ BeatHolds(H, i) /\ BeatCommits(H, i)
  BY PastKnown DEF CommitInv, StayInv, LogInv
<1>2. /\ \A l, t, s : LedWith(H, l, t, s) => LedWith(G, l, t, s)
      /\ LogsOf(H) \subseteq LogsOf(G)
      /\ \A s, m : CommitSent(H, s, m) => CommitSent(G, s, m)
  BY PastStays, DurableKept
<1> DEFINE m == beat'[i].message
<1>3. ASSUME beat'[i].phase \in Beats
      PROVE  \E s \in LogsOf(G) : /\ Sends(m, s, m.term)
                                  /\ LedWith(G, i, m.term, s)
                                  /\ CommitSent(G, s, m)
  <2>1. CASE SameBeat(i)
    <3>1. m = beat[i].message /\ beat[i].phase \in Beats
      BY <2>1 DEF SameBeat
    <3> HIDE DEF m
    <3>2. PICK s \in LogsOf(H) : /\ Sends(m, s, m.term)
                                 /\ LedWith(H, i, m.term, s)
                                 /\ CommitSent(H, s, m)
      BY <1>1, <3>1 DEF BeatCommits
    <3> QED
      BY <1>2, <3>2
  <2>2. CASE BeatSends(i)
    <3>1. /\ LedWith(H, i, m.term, log[i]) /\ m.commit = commitIndex[i]
          /\ Sends(m, log[i], m.term) /\ log[i] \in LogsOf(H)
      BY <1>1, <2>2, BeatSendsEnd, LogsAreKnown
    <3> HIDE DEF m
    <3>2. CommitSent(H, log[i], m)
      BY <3>1 DEF CommitInv, CommitSent
    <3> QED
      BY <1>2, <3>1, <3>2
  <2> QED
    BY <1>1, <1>3, <2>1, <2>2, BeatsMove
<1> QED
  BY <1>3 DEF BeatCommits, Beats, LedWith, LogsOf, CommitSent, Durable, Safe,
     Accepted, HasFrom, IsMajority, Node, Sends

LEMMA AppliedSteps ==
  ASSUME [Next]_vars
  PROVE  \/ UNCHANGED logs
         \/ \E c \in Command, j \in Node : ApplyNext(c, j)
         \/ \E j \in Node : HandlerApplies(j)
<1> DEFINE Kinds == \/ UNCHANGED logs
                    \/ \E c \in Command, j \in Node : ApplyNext(c, j)
                    \/ \E j \in Node : HandlerApplies(j)
<1>1. ASSUME NEW i \in Node, NodeStep(i) PROVE Kinds
  <2>1. CASE BecomeCandidate(i) \/ BecomeLeader(i)
    BY <2>1 DEF BecomeCandidate, BecomeLeader, commitVars
  <2>2. CASE StartReturns(i) \/ BeatBegins(i) \/ BeatFails(i) \/ BeatRefused(i)
    BY <2>2 DEF StartReturns, BeatBegins, BeatFails, BeatRefused, commitVars
  <2>3. CASE \E j \in Node : RequestVote(i, j) \/ VoteRefused(i, j)
    BY <2>3 DEF RequestVote, VoteRefused, commitVars
  <2>4. CASE \E c \in Command : Start(i, c)
    BY <2>4 DEF Start
  <2>5. CASE BeatDelivers(i)
    BY <2>5 DEF BeatDelivers, ReplyToAppend
  <2> QED
    BY <1>1, <2>1, <2>2, <2>3, <2>4, <2>5 DEF NodeStep
<1>2. ASSUME NEW c \in Command, NEW j \in Node,
             ThreadStep(c, j) \/ CommitStep(c, j)
      PROVE  Kinds
  <2>1. CASE SendAppend(c, j) \/ CallFails(c, j) \/ ThreadEnds(c, j)
    BY <2>1 DEF SendAppend, CallFails, ThreadEnds, commitVars
  <2>2. CASE ReceiveSuccess(c, j) \/ ReceiveRefusal(c, j)
    BY <2>2 DEF ReceiveSuccess, ReceiveRefusal, commitVars
  <2>3. CASE DeliverAppend(c, j)
    BY <2>3 DEF DeliverAppend, ReplyToAppend
  <2>4. CASE ApplyNext(c, j) \/ FinishCommit(c, j)
    BY <2>4 DEF FinishCommit
  <2> QED
    BY <1>2, <2>1, <2>2, <2>3, <2>4 DEF ThreadStep, CommitStep
<1>3. ASSUME NEW i \in Node, BeatSends(i) \/ HandlerStep(i) PROVE Kinds
  BY <1>3 DEF BeatSends, HandlerStep, HandlerReturns, commitVars
<1>4. CASE UNCHANGED vars
  BY <1>4 DEF vars
<1>5. CASE Next
  BY <1>1, <1>2, <1>3, <1>5 DEF Next
<1> QED
  BY <1>4, <1>5

LEMMA ApplyDoes ==
  ASSUME TypeOK, NEW i \in Node, NEW a \in Nat, Apply(i, log[i], a - 1, a),
         NEW k \in Node, NEW n \in Command
  PROVE  \/ logs'[k][n] = logs[k][n]
         \/ k = i /\ n = a /\ logs'[k][n] = log[i][n].command
<1> DEFINE after == [m \in Command |-> IF a - 1 < m /\ m <= a
                                       THEN log[i][m].command ELSE logs[i][m]]
<1>1. logs' = [logs EXCEPT ![i] = after]
  BY DEF Apply
<1>2. n \in Nat
  BY CommandsAreNumbers
<1>3. after[n] = IF a - 1 < n /\ n <= a THEN log[i][n].command ELSE logs[i][n]
  OBVIOUS
<1>4. a - 1 < n /\ n <= a => n = a
  BY <1>2
<1> HIDE DEF after
<1>5. logs'[k] = IF k = i THEN after ELSE logs[k]
  BY <1>1 DEF TypeOK
<1> QED
  BY <1>3, <1>4, <1>5

(* What is applied for the first time, or again, is durable.               *)
LEMMA NewlyApplied ==
  ASSUME NEW H, CommitInv(H), [Next]_vars, NEW i \in Node, NEW n \in Command
  PROVE  \/ logs'[i][n] = logs[i][n]
         \/ /\ UNCHANGED log /\ n <= Len(log[i]) /\ Durable(H, log[i], n)
            /\ logs'[i][n] = log[i][n].command
<1>1. /\ StayInv(H) /\ LogInv(H) /\ TypeInv /\ TypeOK /\ H \subseteq Moment
      /\ n \in Nat
  BY PastKnown, CommandsAreNumbers DEF CommitInv, StayInv, PastHolds
<1>2. ASSUME NEW c \in Command, NEW j \in Node, ApplyNext(c, j),
             logs'[i][n] # logs[i][n]
      PROVE  /\ UNCHANGED log /\ n <= Len(log[i]) /\ Durable(H, log[i], n)
             /\ logs'[i][n] = log[i][n].command
  <2> DEFINE l == operator[c].leader
             N == operator[c].index
             a == thread[c][j].applied + 1
  <2>1. /\ thread[c][j].phase = "applying" /\ a <= N /\ UNCHANGED log
        /\ IF a <= Len(log[l]) THEN Apply(l, log[l], a - 1, a)
           ELSE UNCHANGED logs
    BY <1>2 DEF ApplyNext
  <2>2. l \in Node /\ N \in Nat /\ Len(log[l]) = N /\ Durable(H, log[l], N)
    BY <2>1, ApplyingIsDurable
  <2>3. thread[c][j] \in Thread
    BY <1>1 DEF TypeOK
  <2>4. a \in Nat
    BY <2>3 DEF Thread
  <2> HIDE DEF l, N, a
  <2>5. Apply(l, log[l], a - 1, a) /\ a <= Len(log[l])
    BY <1>2, <2>1
  <2>6. i = l /\ n = a /\ logs'[i][n] = log[l][n].command
    BY <1>1, <1>2, <2>2, <2>4, <2>5, ApplyDoes
  <2>7. Durable(H, log[l], n)
    BY <1>1, <2>1, <2>2, <2>6, DurableBelow
  <2> QED
    BY <2>1, <2>5, <2>6, <2>7
<1>3. ASSUME NEW j \in Node, HandlerApplies(j), logs'[i][n] # logs[i][n]
      PROVE  /\ UNCHANGED log /\ n <= Len(log[i]) /\ Durable(H, log[i], n)
             /\ logs'[i][n] = log[i][n].command
  <2> DEFINE a == handler[j] + 1
  <2>1. /\ handler[j] # None /\ a <= commitIndex[j] /\ UNCHANGED log
        /\ IF a <= Len(log[j]) THEN Apply(j, log[j], a - 1, a)
           ELSE UNCHANGED logs
    BY <1>3 DEF HandlerApplies
  <2>2. a \in Nat /\ commitIndex[j] \in Nat /\ a > 0
    <3>1. handler[j] \in Nat /\ commitIndex[j] \in Nat
      BY <1>1, <2>1 DEF TypeOK
    <3> QED
      BY <3>1
  <2> HIDE DEF a
  <2>3. Durable(H, log[j], commitIndex[j])
    BY <2>1, <2>2 DEF CommitInv
  <2>4. Apply(j, log[j], a - 1, a) /\ a <= Len(log[j])
    BY <1>3, <2>1
  <2>5. i = j /\ n = a /\ logs'[i][n] = log[j][n].command
    <3>1. \/ logs'[i][n] = logs[i][n]
          \/ i = j /\ n = a /\ logs'[i][n] = log[j][n].command
      BY <1>1, <2>2, <2>4, ApplyDoes
    <3> QED
      BY <1>3, <3>1
  <2>6. Durable(H, log[j], n)
    BY <1>1, <2>1, <2>2, <2>3, <2>5, DurableBelow
  <2> QED
    BY <2>1, <2>4, <2>5, <2>6
<1> QED
  BY <1>2, <1>3, AppliedSteps

(* A durable entry of a log is the same after a step.                      *)
LEMMA DurableEntryStays ==
  ASSUME NEW H, StayInv(H), [Next]_vars,
         NEW G, G = H \cup {Now(q)' : q \in Node}, LogsCohere(G),
         NEW i \in Node, NEW n \in Nat, n > 0, Durable(H, log[i], n)
  PROVE  n <= Len(log'[i]) /\ log'[i][n] = log[i][n]
<1>1. LogInv(H) /\ TypeInv /\ TypeOK /\ TypeOK' /\ PastHolds(H)
  BY PastKnown, NextTyped DEF StayInv, TypeInv
<1>2. PICK T \in Nat : Safe(H, T, n) /\ HasFrom(log[i], n, T)
  BY DEF Durable
<1>3. Complete(H, T, n)
  BY <1>2, SafeIsComplete
<1>4. HasFrom(log'[i], n, T)
  BY <1>2, <1>3, EntryStays
<1>5. log[i] \in LogsOf(G) /\ log'[i] \in LogsOf(G)
  <2>1. LogsOf(H) \subseteq LogsOf(G)
    BY PastStays
  <2>2. Now(i)' \in G
    OBVIOUS
  <2> QED
    BY <1>1, <2>1, <2>2, LogsAreKnown, NowIsPast
<1>6. log[i] \in Seq(Entry) /\ log'[i] \in Seq(Entry)
  BY <1>1 DEF TypeOK
<1>7. Coherent(log[i], log'[i]) /\ Coherent(log'[i], log[i])
  BY <1>5 DEF LogsCohere
<1>8. /\ n <= Len(log'[i])
      /\ \A m \in 1 .. n : log[i][m] = log'[i][m]
  BY <1>2, <1>4, <1>6, <1>7, SameEntries
<1> QED
  BY <1>8

LEMMA AppliedNext ==
  ASSUME NEW H, CommitInv(H), [Next]_vars,
         NEW G, G = H \cup {Now(q)' : q \in Node}, LogsCohere(G),
         NEW i \in Node, NEW n \in Command
  PROVE  AppliedHolds(G, i, n)'
<1>1. StayInv(H) /\ n \in Nat /\ n > 0 /\ AppliedHolds(H, i, n)
  BY CommandsAreNumbers DEF CommitInv
<1>2. ASSUME logs'[i][n] # 0
      PROVE  /\ Durable(H, log[i], n) /\ n <= Len(log[i])
             /\ logs'[i][n] = log[i][n].command
  <2>1. CASE logs'[i][n] = logs[i][n]
    BY <1>1, <1>2, <2>1 DEF AppliedHolds
  <2> QED
    BY <2>1, NewlyApplied
<1>3. ASSUME logs'[i][n] # 0
      PROVE  /\ Durable(G, log'[i], n) /\ n <= Len(log'[i])
             /\ logs'[i][n] = log'[i][n].command
  <2>1. Durable(G, log'[i], n)
    BY <1>1, <1>2, <1>3, DurableStays
  <2>2. n <= Len(log'[i]) /\ log'[i][n] = log[i][n]
    BY <1>1, <1>2, <1>3, DurableEntryStays
  <2> QED
    BY <1>2, <1>3, <2>1, <2>2
<1> QED
  BY <1>3 DEF AppliedHolds, Durable, Safe, Accepted, HasFrom, IsMajority, Node

-----------------------------------------------------------------------------
(***************************************************************************)
(* The invariant, and what follows from it.                                *)
(***************************************************************************)

LEMMA CommitInvInit ==
  ASSUME Init, NEW H, H = {Now(q) : q \in Node}
  PROVE  CommitInv(H)
<1>1. StayInv(H)
  BY StayInvInit
<1>2. \A c \in Command, j \in Node :
        thread[c][j] = NoThread /\ ~UnderWay(thread[c][j])
          /\ thread[c][j].phase = "none"
  BY ThreadEnded DEF Init
<1>3. OneCommand
  BY <1>2 DEF OneCommand
<1>4. ASSUME NEW c \in Command PROVE Counted(H, c)
  <2>1. operator[c].count = 0
    BY DEF Init, NoOperator
  <2>2. Cardinality({}) = 0 /\ {} \in SUBSET Node /\ 0 \in Nat
    BY FS_EmptySet
  <2> QED
    BY <1>2, <2>1, <2>2 DEF Counted
<1>5. \A c \in Command, j \in Node :
        Replied(H, c, j) /\ thread[c][j].phase # "sent"
  BY <1>2 DEF Replied
<1>6. \A i, j \in Node : NextHolds(i, j)
  BY DEF Init, NextHolds
<1>7. ASSUME NEW i \in Node PROVE MatchHolds(H, i)
  <2> DEFINE id == [a \in Node |-> a]
  <2>1. id \in OneToOne /\ role[i] # "LEADER"
        /\ \A j \in Node : matchIndex[i][j] = 0
    BY DEF OneToOne, Init
  <2>2. Matches(H, i, 0, id, matchIndex[i])
    BY <2>1 DEF Matches
  <2> QED
    BY <2>1, <2>2 DEF MatchHolds
<1>8. \A i \in Node : BeatCommits(H, i)
  BY DEF Init, NoBeat, BeatCommits, Beats
<1>9. /\ \A i \in Node : ~(commitIndex[i] > 0)
      /\ \A i \in Node, n \in Command : AppliedHolds(H, i, n)
  BY DEF Init, AppliedHolds
<1> QED
  BY <1>1, <1>3, <1>4, <1>5, <1>6, <1>7, <1>8, <1>9 DEF CommitInv

LEMMA CommitInvNext ==
  ASSUME NEW H, CommitInv(H), [Next]_vars, Races = {},
         NEW G, G = H \cup {Now(q)' : q \in Node}
  PROVE  CommitInv(G)'
<1>1. StayInv(H) /\ LogInv(H) /\ H \subseteq G /\ OneCommand
  BY DEF CommitInv, StayInv
<1>2. StayInv(G)'
  BY <1>1, StayInvNext
<1>3. LogsCohere(G)
  <2>1. LogsCohere(G)'
    BY <1>2 DEF StayInv, LogInv
  <2> QED
    BY <2>1 DEF LogsCohere, LogsOf, Coherent
<1>4. OneCommand'
  BY <1>1, OneCommandNext
<1>5. ASSUME NEW c \in Command PROVE Counted(G, c)'
  BY <1>1, CountedNext DEF CommitInv
<1>6. ASSUME NEW c \in Command, NEW j \in Node PROVE Replied(G, c, j)'
  BY RepliedNext
<1>7. ASSUME NEW c \in Command, NEW j \in Node
      PROVE  (thread[c][j].phase = "sent" =>
                CommitSent(G, thread[c][j].copy, thread[c][j].message))'
  <2>1. thread'[c][j].phase = "sent" =>
          CommitSent(G, thread'[c][j].copy, thread'[c][j].message)
    BY <1>1, SendHoldsNext
  <2> QED
    BY <2>1 DEF CommitSent, Durable, Safe, Accepted, HasFrom, IsMajority, Node
<1>8. ASSUME NEW i \in Node, NEW j \in Node PROVE NextHolds(i, j)'
  BY NextHoldsNext
<1>9. ASSUME NEW i \in Node PROVE MatchHolds(G, i)'
  BY MatchHoldsNext
<1>10. ASSUME NEW i \in Node PROVE BeatCommits(G, i)'
  BY <1>1, BeatCommitsNext
<1>11. ASSUME NEW i \in Node
       PROVE  (commitIndex[i] > 0 => Durable(G, log[i], commitIndex[i]))'
  <2>1. commitIndex'[i] > 0 => Durable(G, log'[i], commitIndex'[i])
    BY <1>1, CommitHoldsNext
  <2> QED
    BY <2>1 DEF Durable, Safe, Accepted, HasFrom, IsMajority, Node
<1>12. ASSUME NEW i \in Node, NEW n \in Command PROVE AppliedHolds(G, i, n)'
  BY <1>3, AppliedNext
<1> QED
  BY <1>2, <1>4, <1>5, <1>6, <1>7, <1>8, <1>9, <1>10, <1>11, <1>12
     DEF CommitInv, Node, Command

(* A durable entry is the same in a log that has an entry of the term it   *)
(* is safe of, or a later one, there or behind.                            *)
LEMMA LaterIsSame ==
  ASSUME NEW H, StayInv(H), NEW i \in Node, NEW j \in Node,
         NEW n \in Nat, n > 0, NEW T \in Nat, NEW U \in Nat, T <= U,
         Safe(H, T, n), HasFrom(log[i], n, T), HasFrom(log[j], n, U)
  PROVE  log[i][n] = log[j][n] /\ n <= Len(log[i]) /\ n <= Len(log[j])
<1>1. /\ LogInv(H) /\ TypeOK /\ LogsCohere(H) /\ PastHolds(H)
      /\ log[i] \in LogsOf(H) /\ log[j] \in LogsOf(H)
      /\ log[i] \in Seq(Entry) /\ log[j] \in Seq(Entry)
  BY PastKnown DEF StayInv
<1>2. HasFrom(log[j], n, T)
  <2>1. CASE T = U
    BY <2>1
  <2>2. CASE T # U
    <3>1. U > T
      BY <2>2
    <3>2. PICK h \in H : h.log = log[j]
      BY <1>1, NowStays
    <3>3. \E m \in 1 .. Len(h.log) : h.log[m].term > T
      BY <3>1, <3>2 DEF HasFrom
    <3>4. Complete(H, T, n)
      BY SafeIsComplete
    <3> QED
      BY <3>2, <3>3, <3>4 DEF Complete
  <2> QED
    BY <2>1, <2>2
<1>3. Coherent(log[i], log[j]) /\ Coherent(log[j], log[i])
  BY <1>1 DEF LogsCohere
<1>4. n <= Len(log[i]) /\ n <= Len(log[j])
      /\ \A m \in 1 .. n : log[i][m] = log[j][m]
  BY <1>1, <1>2, <1>3, SameEntries
<1> QED
  BY <1>4

LEMMA DurableIsOne ==
  ASSUME NEW H, StayInv(H), NEW i \in Node, NEW j \in Node,
         NEW n \in Nat, n > 0, Durable(H, log[i], n), Durable(H, log[j], n)
  PROVE  log[i][n] = log[j][n]
<1>1. PICK T \in Nat : Safe(H, T, n) /\ HasFrom(log[i], n, T)
  BY DEF Durable
<1>2. PICK U \in Nat : Safe(H, U, n) /\ HasFrom(log[j], n, U)
  BY DEF Durable
<1>3. CASE T <= U
  BY <1>1, <1>2, <1>3, LaterIsSame
<1>4. CASE U <= T
  BY <1>1, <1>2, <1>4, LaterIsSame
<1> QED
  BY <1>3, <1>4

(* There was a past that explains what is committed.                       *)
Committed == \E H : CommitInv(H)

LEMMA CommittedAlways ==
  ASSUME Races = {}
  PROVE  Spec => []Committed
<1>1. Init => Committed
  BY CommitInvInit DEF Committed
<1>2. Committed /\ [Next]_vars => Committed'
  <2> SUFFICES ASSUME NEW H, CommitInv(H), [Next]_vars PROVE Committed'
    BY DEF Committed
  <2>1. PICK G : G = H \cup {Now(q)' : q \in Node}
    OBVIOUS
  <2>2. CommitInv(G)'
    BY <2>1, CommitInvNext
  <2> QED
    BY <2>2 DEF Committed
<1> QED
  BY <1>1, <1>2, PTL DEF Spec

(* With the windows closed, no two nodes apply different commands at one   *)
(* index, however calls are lost or delayed, leaders change, logs are      *)
(* rewritten and counters are shared: what Config.listenRaftPeer reports   *)
(* as a different value does not come up.                                  *)
THEOREM OneCommandAtAnIndex ==
  ASSUME Races = {}
  PROVE  Spec => []StateMachineSafety
<1>1. Committed => StateMachineSafety
  <2> SUFFICES ASSUME NEW H, CommitInv(H), NEW i \in Node, NEW j \in Node,
                      NEW n \in Command, logs[i][n] # 0, logs[j][n] # 0
               PROVE  logs[i][n] = logs[j][n]
    BY DEF Committed, StateMachineSafety
  <2>1. StayInv(H) /\ n \in Nat /\ n > 0
    BY CommandsAreNumbers DEF CommitInv
  <2>2. /\ Durable(H, log[i], n) /\ logs[i][n] = log[i][n].command
        /\ Durable(H, log[j], n) /\ logs[j][n] = log[j][n].command
    BY DEF CommitInv, AppliedHolds
  <2>3. log[i][n] = log[j][n]
    BY <2>1, <2>2, DurableIsOne
  <2> QED
    BY <2>2, <2>3
<1> QED
  BY <1>1, CommittedAlways, PTL

(* What a node has applied stays in the log of a majority: no election,    *)
(* heart beat or AppendEntries ever removes it.                            *)
THEOREM WhatIsAppliedStays ==
  ASSUME Races = {}
  PROVE  Spec => []AppliedEntriesStay
<1>1. Committed => AppliedEntriesStay
  <2> SUFFICES ASSUME NEW H, CommitInv(H), NEW i \in Node, NEW n \in Command,
                      logs[i][n] # 0
               PROVE  IsMajority(Cardinality({j \in Node :
                        n <= Len(log[j]) /\ log[j][n].command = logs[i][n]}))
    BY DEF Committed, AppliedEntriesStay
  <2> DEFINE S == {j \in Node :
                     n <= Len(log[j]) /\ log[j][n].command = logs[i][n]}
  <2>1. StayInv(H) /\ n \in Nat /\ n > 0
    BY CommandsAreNumbers DEF CommitInv
  <2>2. Durable(H, log[i], n) /\ logs[i][n] = log[i][n].command
    BY DEF CommitInv, AppliedHolds
  <2>3. PICK T \in Nat : Safe(H, T, n) /\ HasFrom(log[i], n, T)
    BY <2>2 DEF Durable
  <2>4. PICK Q \in SUBSET Node : /\ IsMajority(Cardinality(Q))
                                 /\ \A q \in Q : Accepted(H, q, T, n)
    BY <2>3 DEF Safe
  <2>5. Kept(H, T, n)
    BY <2>1, <2>3, SafeIsComplete
  <2>6. ASSUME NEW q \in Q PROVE q \in S
    <3>1. HasFrom(log[q], n, T)
      BY <2>4, <2>5 DEF Kept
    <3>2. log[i][n] = log[q][n] /\ n <= Len(log[q])
      BY <2>1, <2>3, <3>1, LaterIsSame
    <3> QED
      BY <2>2, <3>2
  <2>7. Q \in SUBSET S /\ S \in SUBSET Node
    BY <2>6
  <2> HIDE DEF S
  <2>8. /\ IsFiniteSet(S) /\ Cardinality(S) \in Nat
        /\ Cardinality(Q) \in Nat /\ Cardinality(Q) <= Cardinality(S)
    BY <2>7, NodesAreFinite, FS_Subset
  <2>9. IsMajority(Cardinality(S))
    BY <2>4, <2>8, NumPeersAssumption DEF IsMajority
  <2> QED
    BY <2>9 DEF S
<1> QED
  BY <1>1, CommittedAlways, PTL

(* No commit index goes back: commitLog sets it to the index of its        *)
(* command without a look at what it is, and it is never behind.           *)
THEOREM CommitIndexNeverRetreats ==
  ASSUME Races = {}
  PROVE  Spec => CommitNeverRetreats
<1>1. Committed /\ [Next]_vars =>
        [\A i \in Node : commitIndex'[i] >= commitIndex[i]]_commitIndex
  <2> SUFFICES ASSUME NEW H, CommitInv(H), [Next]_vars, NEW i \in Node
               PROVE  commitIndex'[i] >= commitIndex[i]
    BY DEF Committed
  <2>1. H \subseteq H
    OBVIOUS
  <2> QED
    BY <2>1, CommitHoldsNext
<1> QED
  BY <1>1, CommittedAlways, PTL DEF Spec, CommitNeverRetreats

=============================================================================
