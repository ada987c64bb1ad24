------------------------------ MODULE NodeLocks ------------------------------
(***************************************************************************)
(* The monitors of one node.  A node runs the scheduler thread, the heart  *)
(* beat timer, the append threads and one RMI thread per call in progress; *)
(* between two of the blocks below a thread holds nothing, so that a       *)
(* thread is free to enter any block, and a block is the locks it takes,   *)
(* outermost first.                                                        *)
(***************************************************************************)
EXTENDS Naturals, Sequences

CONSTANTS Thread,   \* the threads of the node
          Running   \* the blocks they run

(* "this" is the RaftNode, "state" its PersistentState; the others are     *)
(* only ever taken innermost.                                              *)
Lock == {"this", "state", "applied", "operator", "next", "match"}

(* What each synchronized block or method of RaftNode takes, with the      *)
(* locks of the methods called inside it.                                  *)
StartTakes == <<"this", "state">>
StartAwaitsTakes == <<"this", "state", "operator">>
StartDecidesTakes == <<"this", "state", "applied">>
ToLeaderStateTakes == <<"this", "state">>

(* Slip: the heart beat is set before the state is locked.                 *)
FlagFirstTakes == <<"this", "state">>

AppendEntriesTakes == <<"state", "this">>
AppendAppliesTakes == <<"state", "applied">>
RefreshTermTakes == <<"state", "this">>
VoteForSelfTakes == <<"state">>
GrantVoteTakes == <<"state">>
GetLastEntryTakes == <<"state">>
SetHeartBeatTakes == <<"this">>
ToFollowerStateTakes == <<"this">>
ProbNSituationTakes == <<"this">>
CommitLogTakes == <<"operator">>
MoveNextIndexTakes == <<"next">>
MoveMatchIndexTakes == <<"match">>

Taken ==
  [start           |-> StartTakes,
   startAwaits     |-> StartAwaitsTakes,
   startDecides    |-> StartDecidesTakes,
   toLeaderState   |-> ToLeaderStateTakes,
   appendEntries   |-> AppendEntriesTakes,
   appendApplies   |-> AppendAppliesTakes,
   refreshTerm     |-> RefreshTermTakes,
   voteForSelf     |-> VoteForSelfTakes,
   grantVote       |-> GrantVoteTakes,
   getLastEntry    |-> GetLastEntryTakes,
   setHeartBeat    |-> SetHeartBeatTakes,
   toFollowerState |-> ToFollowerStateTakes,
   probNSituation  |-> ProbNSituationTakes,
   commitLog       |-> CommitLogTakes,
   moveNextIndex   |-> MoveNextIndexTakes,
   moveMatchIndex  |-> MoveMatchIndexTakes]

Block == DOMAIN Taken
Upward == {"start", "startAwaits", "startDecides", "toLeaderState"}

ASSUME RunningAssumption == Running \subseteq Block

VARIABLES block,  \* the block each thread is in, or "none"
          depth   \* how many of the block's locks the thread holds

vars == <<block, depth>>

LocksOf(t) == IF block[t] = "none" THEN <<>> ELSE Taken[block[t]]

Holds(t, l) == \E n \in 1 .. depth[t] : LocksOf(t)[n] = l

(* Thread t waits for, or is about to take, lock l.                        *)
Wants(t, l) == depth[t] < Len(LocksOf(t)) /\ LocksOf(t)[depth[t] + 1] = l

Blocks(u, t) == u # t /\ \E l \in Lock : Wants(t, l) /\ Holds(u, l)

Init ==
  /\ block = [t \in Thread |-> "none"]
  /\ depth = [t \in Thread |-> 0]

Enter(t, b) ==
  /\ block[t] = "none"
  /\ block' = [block EXCEPT ![t] = b]
  /\ UNCHANGED depth

(* Monitors are reentrant; no path takes a lock it has under another one.  *)
Acquire(t) ==
  /\ depth[t] < Len(LocksOf(t))
  /\ \A u \in Thread : ~Blocks(u, t)
  /\ depth' = [depth EXCEPT ![t] = @ + 1]
  /\ UNCHANGED block

(* Slip: the locks outlive the block.                                      *)
LeaveHolding(t) ==
  /\ block[t] # "none" /\ depth[t] = Len(LocksOf(t))
  /\ block' = [block EXCEPT ![t] = "none"]
  /\ UNCHANGED depth

Leave(t) ==
  /\ block[t] # "none" /\ depth[t] = Len(LocksOf(t))
  /\ block' = [block EXCEPT ![t] = "none"]
  /\ depth' = [depth EXCEPT ![t] = 0]

Next ==
  \E t \in Thread :
    \/ \E b \in Running : Enter(t, b)
    \/ Acquire(t)
    \/ Leave(t)

Spec == Init /\ [][Next]_vars

-----------------------------------------------------------------------------
(* A thread is in one block and holds a prefix of its locks.               *)
TypeOK ==
  /\ block \in [Thread -> Running \cup {"none"}]
  /\ depth \in [Thread -> Nat]
  /\ \A t \in Thread : depth[t] <= Len(LocksOf(t))

(* In every set of threads one is not blocked by another of the set: no    *)
(* threads wait for each other in a circle, of whatever length.  start and *)
(* toLeaderState take "this" before the state, the handlers the state      *)
(* before "this".                                                          *)
NoDeadlock ==
  \A S \in (SUBSET Thread) \ {{}} :
    \E t \in S : \A u \in S : ~Blocks(u, t)
=============================================================================
