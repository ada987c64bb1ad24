--------------------------- MODULE NodeLocksProofs ---------------------------
(***************************************************************************)
(* Theorems about NodeLocks, for any number of threads.                    *)
(***************************************************************************)
EXTENDS NodeLocks, TLAPS

(* A thread can only wait while holding "state", and never for it then.    *)
LEMMA DownwardShape ==
  ASSUME NEW b \in Block \ Upward
  PROVE  /\ Len(Taken[b]) \in {1, 2}
         /\ Len(Taken[b]) = 2 => Taken[b][1] = "state" /\ Taken[b][2] # "state"
BY DEF Block, Upward, Taken, StartTakes, StartAwaitsTakes,
       StartDecidesTakes, ToLeaderStateTakes, AppendEntriesTakes,
       AppendAppliesTakes, RefreshTermTakes, VoteForSelfTakes,
       GrantVoteTakes, GetLastEntryTakes, SetHeartBeatTakes,
       ToFollowerStateTakes, ProbNSituationTakes, CommitLogTakes,
       MoveNextIndexTakes, MoveMatchIndexTakes

(* The type invariant is inductive.                                        *)
THEOREM LocksTyped == Spec => []TypeOK
<1>1. Init => TypeOK
  BY DEF Init, TypeOK, LocksOf
<1>2. TypeOK /\ [Next]_vars => TypeOK'
  <2> SUFFICES ASSUME TypeOK, [Next]_vars PROVE TypeOK'
    OBVIOUS
  <2>1. \A b \in Block : Len(Taken[b]) \in Nat
    BY DEF Block, Taken, StartTakes, StartAwaitsTakes, StartDecidesTakes,
           ToLeaderStateTakes, AppendEntriesTakes, AppendAppliesTakes,
           RefreshTermTakes, VoteForSelfTakes, GrantVoteTakes, GetLastEntryTakes,
           SetHeartBeatTakes, ToFollowerStateTakes, ProbNSituationTakes,
           CommitLogTakes, MoveNextIndexTakes, MoveMatchIndexTakes
  <2>2. \A t \in Thread : Len(LocksOf(t)) \in Nat
    BY <2>1, RunningAssumption DEF TypeOK, LocksOf
  <2>3. CASE UNCHANGED vars
    BY <2>3 DEF vars, TypeOK, LocksOf
  <2>4. ASSUME NEW t \in Thread, NEW b \in Running, Enter(t, b) PROVE TypeOK'
    <3>1. depth[t] = 0
      BY <2>4 DEF Enter, TypeOK, LocksOf
    <3>2. Len(Taken[b]) \in Nat
      BY <2>1, RunningAssumption
    <3> QED
      BY <2>4, <3>1, <3>2 DEF Enter, TypeOK, LocksOf
  <2>5. ASSUME NEW t \in Thread, Acquire(t) PROVE TypeOK'
    BY <2>2, <2>5 DEF Acquire, TypeOK, LocksOf
  <2>6. ASSUME NEW t \in Thread, Leave(t) PROVE TypeOK'
    BY <2>6 DEF Leave, TypeOK, LocksOf
  <2> QED
    BY <2>3, <2>4, <2>5, <2>6 DEF Next
<1> QED
  BY <1>1, <1>2, PTL DEF Spec

(* Threads that climb from "state" to the other locks never wait in a      *)
(* circle.                                                                 *)
LEMMA ClimbingIsSafe ==
  ASSUME TypeOK, Running \cap Upward = {}
  PROVE  NoDeadlock
<1> SUFFICES ASSUME NEW S \in (SUBSET Thread) \ {{}}
             PROVE  \E t \in S : \A u \in S : ~Blocks(u, t)
  BY Zenon DEF NoDeadlock
<1> SUFFICES ASSUME \A t \in S : \E u \in S : Blocks(u, t)
             PROVE  FALSE
  OBVIOUS
<1>1. ASSUME NEW t \in S, NEW l \in Lock, Wants(t, l)
      PROVE  /\ \A m \in Lock : Holds(t, m) => m = "state"
             /\ l = "state" => \A m \in Lock : ~Holds(t, m)
  <2>1. block[t] # "none"
    BY <1>1 DEF Wants, LocksOf, TypeOK
  <2>2. block[t] \in Block \ Upward
    BY <2>1, RunningAssumption DEF TypeOK
  <2>3. LocksOf(t) = Taken[block[t]] /\ depth[t] \in Nat
    BY <2>1 DEF LocksOf, TypeOK
  <2>4. depth[t] < Len(LocksOf(t)) /\ LocksOf(t)[depth[t] + 1] = l
    BY <1>1 DEF Wants
  <2> QED
    BY <2>2, <2>3, <2>4, DownwardShape DEF Holds
<1>2. ASSUME NEW t \in S, NEW l \in Lock, l # "state" PROVE ~Wants(t, l)
  <2> SUFFICES ASSUME Wants(t, l) PROVE FALSE
    OBVIOUS
  <2>1. PICK u \in S : Blocks(u, t)
    OBVIOUS
  <2>2. Holds(u, l)
    BY <2>1 DEF Blocks, Wants
  <2>3. PICK v \in S, m \in Lock : Wants(u, m) /\ Holds(v, m)
    BY DEF Blocks
  <2> QED
    BY <1>1, <1>2, <2>2, <2>3
<1>3. PICK t \in S : TRUE
  OBVIOUS
<1>4. PICK u \in S, l \in Lock : Wants(t, l) /\ Holds(u, l)
  BY DEF Blocks
<1>5. PICK v \in S, m \in Lock : Wants(u, m) /\ Holds(v, m)
  BY DEF Blocks
<1> QED
  BY <1>1, <1>2, <1>4, <1>5

(* As long as nobody starts a command and nobody is elected, no threads    *)
(* of a node, however many, wait for each other.                           *)
THEOREM NoDeadlockBelowLeadership ==
  (Running \cap Upward = {}) => (Spec => []NoDeadlock)
<1> SUFFICES ASSUME Running \cap Upward = {} PROVE Spec => []NoDeadlock
  OBVIOUS
<1>1. Spec => []TypeOK
  BY LocksTyped
<1>2. TypeOK => NoDeadlock
  BY ClimbingIsSafe
<1> QED
  BY <1>1, <1>2, PTL
=============================================================================
