# A verification of the Raft implementation

This directory models the Raft program of this repository in TLA+, checks the models with TLC and
proves theorems about them with TLAPS. All source references are to files under `src/`.

## The system

| Component | State | Operations | Interacts through |
|---|---|---|---|
| `RaftNode` election | `currentTerm`, `votedFor`, `nodeRole`, `isHeartBeating` | `checkHeartBeat`, `newElection`, `replyToReqVoteArgs`, `refreshTerm`, `toLeaderState`, `toFollowerState`, `heartBeatTimerTask` | `RequestVote` and `AppendEntries` calls; shared fields and two monitors |
| `RaftNode` replication | `commitIndex`, `lastApplied`, `nextIndex`, `matchIndex`, the append threads and their operators | `start`, `leaderSendAppendEntry`, `AppendEntrySendThread.run`, `commitLog`, `probNSituation`, `replyToApdEntriesArgs` | `AppendEntries` calls; the log; `applyChannel` |
| `RaftNode` monitors | the monitors of the node, of its `PersistentState` and four inner ones | every `synchronized` block | threads of one node |
| `PersistentState` | term, vote, log | append, truncate, read | called by all of the above; in memory only |
| `Controller`, `TransportLib` | connected and disconnected nodes, `reliable`, call counters, apply queues | `register`, `send`, `makeDecision`, `disconnect`, `re_connect`, `start`, `getState`, `applyChannel` | RMI, one thread per call; no locks |
| `Config` (tester) | `logs`: what each node has applied | `startCommit`, `nCommitted`, `listenRaftPeer`, `checkOneLeader`, `wait` | `Controller`; one listener thread per node and the thread of the test, on shared `HashMap`s |
| `RaftTest`, messages, `Helper`, `doc/` | none worth a model | | |

Every node is a process with five kinds of threads: the scheduler (elections), the heart beat
timer, the append threads, and one RMI thread for each incoming call and each `start`. Calls are
synchronous: a sender is blocked until the answer, or `null` for a lost call, comes back. Nothing
is written to disk and no code restarts a node, so there is no crash recovery to model.

What makes it hard: `newElection` works on shared fields without a lock in three places; the two
outer monitors of a node are taken in both orders; append threads outlive the `start` and the
leadership they belong to and read the log of now; `replyToApdEntriesArgs` truncates first and asks
later; heart beats mix values of different moments; the network and the tester share maps without
locks. `PROJECT.json` lists these places as hazards,
each with the properties that watch it.

What makes it correct: at most one leader in a term, votes that bind, terms that grow (election);
logs that agree, one command per index, applied in order and never lost (replication); no circle of
waiting threads (monitors); elections that end and stale leaders that yield (liveness); a network
that keeps disconnected nodes apart and ends every call; a tester that neither accuses nodes that
agree nor acquits a command that is not committed.

## The modules

`RaftElection` is the election. The scheduler thread of a node has a program counter `pc`, and each
access that no lock covers is an action: the two halves of `currentTerm++` (`Timeout`,
`IncrementTerm`), the locked vote for itself (`VoteForSelf`), the request (`BuildRequest`), each
call split where the handler takes and releases its lock (`CheckVoteRequest`, `DecideVote`,
`AnswerVote`, `ReceiveVoteReply`), the final test (`CountVotes`) and `ToLeaderState`. Heart beats
and appends appear as the `AppendEntries` they send: `announced` holds every one ever sent, so that
they arrive late, repeatedly and in any order; `refusals` does the same for their answers.
`LogChanges` lets the last log entry become anything replication could make it.
The constant `Races` says which of the three unlocked windows of `newElection` are open:

| Window | Source | What another thread can do in it |
|---|---|---|
| `increment` | `RaftNode.java:147` | adopt a higher term, which the write half then overwrites |
| `claim` | `RaftNode.java:147-156` | vote in the new term before the node votes for itself |
| `promote` | `RaftNode.java:218-219, 586` | step down before the node becomes leader all the same |

The program has all three open. A smaller set is the program with a lock around the window, and
tells what that lock is worth.

`RaftReplication` is `start` and what follows from it. A `start` holds both locks of its node
(`starting`) until `StartReturns`; it creates the operator of its command and one thread per
follower. A thread sends (`SendAppend`: prefix term from its copy, entries from the log of now),
its message is handled (`DeliverAppend`, and the loop of the handler in `HandlerApplies` and
`HandlerReturns`, with the state locked) and its answer read (`ReceiveSuccess`, `ReceiveRefusal`), or
the call or the answer is lost (`CallFails`). The success that makes a majority runs the loop of
`commitLog`, one entry of the log of now after the other (`ApplyNext`, `FinishCommit`). A thread that
was stopped, or whose node has stepped down, ends with `probNSituation` (`ThreadEnds`). Exceptions
out of range end a thread where the code throws them. A heart beat run reads in two steps
(`BeatBegins`, `BeatSends`) and then calls peer after peer. `logs` is the tester's record. Elections
are those of `RaftElection` with the windows closed, one action per call. `Races` says which
disorder is possible:

| Race | Source | What happens in it |
|---|---|---|
| `overtake` | `RaftNode.java:293` | `start` has returned, its append calls are still under way when the next command starts |
| `commit` | `RaftNode.java:508-524, 920-946` | other threads of the node run between two entries of the loop of a `commitLog` or, as far as its lock lets them, of a handler |
| `beat` | `RaftNode.java:617-620` | other threads run between the two reads of a heart beat |
| `stop` | `RaftNode.java:295, 737, 811` | the thread that `start` stops leaves its loop, and runs `probNSituation`, while its node leads |
| `return` | `RaftNode.java:728-811` | a node leads again while threads of its last leadership are under way |

The program has all five. Without `commit` or `beat` the steps of such a window run before any
other step, as if a lock covered them.

`Agreement` is what the program promises, and says nothing of terms, leaders or messages: commands
are started, one sequence of them is agreed on, and each node applies prefixes of it; whoever applies
an entry first (`Choose`) adds a started command, not in the sequence yet, directly behind all
others. `RaftReplication` implements it (`AgreesOnOneSequence`): `started` are the commands that have
an operator, `applied` is `logs`, and `chosen` is `Decided`, what the node that has applied most has
applied. The loops of `commitLog` and of the handler map to `Choose` or `Learn` entry by entry, everything
else to `Start` or a stutter.

`Network` is `Controller`: `send` in one thread per call, at the grain of its accesses to the three
maps (`Send`, `ReadCounter`, `WriteCounter`, `Decide`, `LookUp`, `Deliver`), and the thread of the
test that moves a node from one map to the other in two steps (`Disconnect`, `Remove`; `Reconnect`,
`Restore`), after `waitUntilAllRegister`. Three history variables say which nodes are apart, how many
calls were counted, and how many of them met no other while they were.

`Tester` is `Config` over that promise: the nodes and their queues are `Agreement` itself
(`INSTANCE`), with starts in place of commands, because a command may be started twice. Each listener
compares an entry with one map after the other (`Take`, `CheckOther`), then writes its own (`Put`,
`PutDone`); the thread of the test starts a command (`StartTaken`: any index, as a leader may tell one
it will lose), reads map after map (`ReadNext`) and returns, reads again or starts again. The maps
are `HashMap`s: while a `put` enlarges one, other threads may miss its entries or, between
`containsKey` and `get`, end with a `NullPointerException` (`Resizing`).

`NodeLocks` is the monitors: each synchronized block as the sequence of locks it takes, threads
that enter, acquire and leave. `Running` is the set of blocks the threads of the node run.

`MCElection`, `MCReplication` and `MCLocks` name the values of constants that a `.cfg` cannot write. The proofs are
in `RaftElectionProofs`, `NodeLocksProofs`, `NetworkProofs`, `AgreementProofs` and `TesterProofs`, and for
replication in `RaftLogProofs`, `RaftCommitProofs` and `RaftAgreementProofs`, each of which extends the one before.

## The runs

| Run | Instance | Result |
|---|---|---|
| `ElectionLocked` | 3 nodes, 2 terms, `Races = {}` | 351 649 states; one leader per term, `VotesBind`, `VotesExclusive`, terms never decrease |
| `ElectionOpen` | 2 nodes, 2 terms, 1 log index, all windows open, unreliable network | 174 000 states; `CandidateTermStable` and `LeaderKeepsTerm` survive every race |
| `ElectionLive` | 2 nodes, 3 terms, `Races = {}`, fairness | 20 000 states; elections end, stale leaders yield |
| `TwoLeaders` | 3 nodes, all windows open | violation: two leaders of one term |
| `LocksFollower` | 3 threads, all blocks but those of `start` and `toLeaderState` | 15 082 states; no deadlock (and TLC's own deadlock check is on) |
| `LocksDeadlock` | 2 threads, all blocks | violation: `start` against `replyToApdEntriesArgs` |
| `ReplicationInOrder` | 3 nodes, 2 terms, the second with 2 rivals, 2 commands, heart beats of node 0, lost calls, `stop` | 797 189 states; all replication properties and the refinement of `Agreement` |
| `ReplicationReturns` | 3 nodes, 3 terms of nodes 0, 1, 0, 2 commands, lost calls, `nextIndex` down to -1, `commit`, `stop`, `return` | 372 326 states; a returning leader and its old threads keep one sequence |
| `AppendOvertaken` | 3 nodes, 2 terms, 3 commands, `overtake` | violation: two commands applied at one index |
| `SortedMatches` | 4 nodes, 1 term, 4 commands, `stop` | violation: an entry is applied that no majority holds |
| `NetworkMaps` | 2 nodes, 2 callers, up to 2 calls counted per node, unreliable, fairness of callers | 99 773 states; isolation, reachability, counters, calls that end |
| `TesterTrusted` | 2 servers, both expected, 2 commands, 3 starts, queues of 2 | 1 323 663 states; no false alarm, what is returned is true and in order |

The violations are findings about the program, described in `PROJECT.json`. Any single window
suffices for `TwoLeaders`: `{"increment"}`, `{"claim"}` and `{"promote"}` were each tried and each
violates `ElectionSafety`, after 23 steps.

Explored once, beside the runs. *Overtaking without heart beats* (`{"overtake", "commit"}`): two
rivals and two terms (1 035 392 states) and `Back` with three terms (3 291 542 states) keep
`LogMatching` and `AppliedInOrder`, while `AppliedEntriesStay` and `CommitNeverRetreats` fail within
one term. *Late heart beats* (`{"beat"}`, 3 nodes, two rivals for two terms, heart beats of node 1, two
commands): `LogMatching` and `AppliedInOrder` hold, `StateMachineSafety` and `AppliedEntriesStay` fail.
The heart beat takes `prevLogIndex` from before a command (line 617) and `leaderCommit` from after it
(line 620); a follower with an uncommitted entry of an older leader there applies its own
(line 505). *No races* (`{}`, 4 nodes, two terms, two commands): all safety properties hold, with
`CommitNeverRetreats` (1 277 126 states). *A returning leader* (`Back`, three terms)
without `commit` (294 441 states) keeps every invariant, and with heart beats of node 1 (2 971 182
states) the refinement; only `CommitNeverRetreats` fails, because a late success of the first
leadership sets `commitIndex` back to the index of its operator. `TesterTrusted` with three servers,
two starts and queues of one (1 825 870 states for two expected, 1 479 374 for three) agrees.
A scheduler that ends is not a run: on an unreliable network `nextInt() % 27` (`Controller.java:163`)
is negative for about half of the calls, `Thread.sleep` throws, and `scheduleAtFixedRate` runs the
node's elections no more (`VoteRequestThrows`); `ElectionOpen` shows what holds all the same.

Every property of a passing run has a mutant: an operator named after the slip it makes (`IsHalf`,
`RefreshTermAgain`, `LogLengthened`, ...), placed before the definition it would replace. With the
slip, the property fails.

In `SortedMatches` it is the sorting: `probNSituation` sorts `Arrays.asList(matchIndex)`, and that is the
array (line 970). With three nodes one position too many does no harm, since the leader's own stays 0; four
are the least that fail.

Bounds. Two terms are two leaderships, the least in which an old leader meets a new one; three nodes
are the least in which a majority is not everybody. Two commands are the least in which one can
overtake or overwrite another; the loss of an acknowledged entry takes a third. `ElectionLive` has
three terms so that a leader can be left behind twice. `MaxTerm`, `MaxIndex`, `MaxCommand` and
`MinNext`, `MaxCalls`, `MaxStarts` and `MaxQueue` appear in guards only. `Candidates` says who may
stand for which term: node 0 for the first and two rivals for each later one (`Rivals`), or nodes 0
and 1 in turn, so that node 0 comes back in the third (`Back`), the least in which an answer to an old leadership can count for a new
one; the third node votes and follows. `Beating` says whose heart beats run: those of node 0,
which leads first and may still beat when another leads, as many states allow; `ReplicationReturns` has none, and `MinNext` -1, one below what the code can still
send from. `Lossy` is off only in `AppendOvertaken`, whose violation needs no loss. `Back` and `InTurn` have one
candidate for a term. In `Network` two
callers are the least that race for a counter, and two nodes the least of which one can be apart; in
`Tester` a third start is the least that repeats one of two commands. All runs but `LocksFollower`
and `NetworkMaps` switch the deadlock check off, because a bounded run stops at its bounds.

Symmetry is not used: peers are called in the order of their numbers, and `start` stops the thread
of the last one.

Fairness (`ElectionLive`). Weak fairness of each scheduler thread and each heart beat timer: the
JVM runs a thread that can run. The loop of `newElection` gets fairness of the delivery of its
request, and each `AppendEntries` of its arrival: that is the network of a connected, `reliable`
cluster, where `send` always calls `deliverMessage`. Nothing requires a node to time out, a leader
to be elected or the log to change. With loss or with the deadlock of `LocksDeadlock` the two
properties are not claimed. What is not true, and not claimed, is that a leader is eventually
elected: candidates may split their votes for ever. `NetworkMaps` assumes weak fairness of each call:
it has a thread of its own, and its handler answers; nothing is assumed of the test or the nodes. A
handler that waits for ever, as in `LocksDeadlock`, is not composed with it.

## The proofs

Constants are constrained by the named assumptions of the modules only, which say what the bounds and
sets are; runs evaluate them.

*Any windows.* `TypeCorrect` is the type invariant. `CandidateTermIsStable` and
`LeaderKeepsItsTerm` hold of the program as it is. Their invariant is `OpenInv`: a leader's
scheduler is idle and a call is made only while collecting (`ThreadDiscipline`); with it, no step
changes the term of a collecting candidate but `refreshTerm`, which takes its role.

*Windows closed.* `OneLeaderPerTerm`, `VotesAreSafe`, `NoVoteCountsTwice` and `TermsGrow` assume `Races = {}`. One leader
per term is not inductive. The invariant is `LockedInv`: what the locals of `newElection` still say
about the fields (`LocalsHold`) and about a call (`CallsHold`); that each vote counted, or granted
and on its way (`HasVote`), binds its voter (`BallotsBind`); and that no voter is bound to two
candidates of one term (`BallotsExclusive`). Votes on their way are needed because the handler
releases its lock before it answers. Two leaders of one term then have majorities that share a
voter (`MajoritiesMeet`, by cardinality), bound to both. Both invariants were checked with TLC on the
instances above before they were proved; the lemmas take one action each.

*Monitors.* `NoDeadlockBelowLeadership`: if no running block is one of `start` and `toLeaderState`,
any number of threads are free of deadlock, because a thread that waits holds at most the state
lock and then waits for a lock whose holders wait for nothing.

*Network.* For any finite set of nodes and any callers. `DisconnectedIsApart` and
`ConnectedNodesAreFound` rest on `MapsInv`, which says where every node is at each step of the test,
and `CallsInv`: a caller that was let through has at most its destination apart, and finding the
destination connected then means that nobody at its ends is. `CountersAreBounded` rests on
`CountsInv`: what a thread has read of a counter lies between the two bounds for as long as it holds
it, because two threads at one counter have both met and count for nobody alone.

*Replication: types.* `ReplicationTyped`: for any nodes and bounds and whichever races are open. The
invariant adds to `TypeOK` that a thread under way knows its node, which is not its follower.

*Replication: log matching.* `LogsMatch` assumes that `beat` and `return` are closed, and nothing of
`overtake`, `commit` and `stop`. What makes logs agree is not in one state: a log that was overwritten
lives on in the copy of a thread. The invariant `Explained` says that there is a set `H` of moments,
each of them what one node once was (`PastHolds`), that explains the present: each vote counted and each
leader was elected by votes of `H`, which bind (`ElectionsHold`, `LeadersHold`); each thread sends a log
its node once had as a leader (`ThreadHolds`), each heart beat the end of one (`BeatHolds`); an entry is
of a term that had a leader, who has all entries of its term that ever were (`OriginsHold`,
`LeadersHaveAll`); and any two logs of `H` cohere: where one has an entry, and the other one of its term
there or later, they agree up to it (`LogsCohere`). A step keeps it by adding what the nodes are now to
`H`. The lemma at its heart is `LogReplaced`: a log cut at `prevLogIndex` and continued with entries of a
coherent log is a prefix of logs that cohere already (`ExtendsItself`, `TruncateStarts`, `StartsCohere`).
Without the hypothesis the argument fails where the program does: a thread of an old
leadership takes the term of the previous entry from its copy and the entries from the log of now, and
with five nodes the two can be of different logs; a slow heart beat names an entry of one moment in the
term of another.

*Replication: commitment.* `OneCommandAtAnIndex`, `WhatIsAppliedStays` and `CommitIndexNeverRetreats`
assume `Races = {}`: each thread of `start` ends before the next command, and a loop that applies runs to
its end. The nodes, terms and commands are any, calls and answers may be lost, heart beats run. The invariant
`CommitInv(H)` continues `Explained`, in two layers.

`StayInv` is the argument of Raft, told of the past. Node `q` has `Accepted` an index in term `T` if its
log, while it was in `T`, had an entry of `T` there or later; the index is `Safe` if a majority did. For
each `T` and index either it is `Blocked`, because a majority has left `T` without accepting and never
will, or it is `Settled`: each log of `H` with a later entry, and each later leader, has it (`Complete`),
who accepted it has it still (`Kept`), and a candidate of a later term has it if one of its voters
accepted it (`Informed`). `Blocked` or `Settled` is inductive where "safe entries stay" is not: a later
leader is elected before the entry is safe, and then its voters block it. It needs that terms ascend
along a log (`Ordered`), since `voteForCandidate` compares the last entries only; that a leader has all of
its term and only adds (`LeadersAgree`, `LeadersAdd`); and that the copy of a thread is all there is of its
term (`CopyHolds`), so that a late message cuts nothing.

The other conjuncts say that the program counts what is safe. A leader has one command under way
(`OneCommand`); its successes are those of threads whose followers accepted (`Counted`, `Replied`);
`matchIndex` holds, behind some permutation of the nodes, what followers accepted (`MatchHolds`).
The permutation is what sorting the array in place leaves of it; the middle of the sorted array is
safe all the same (`SortedAccepted`, `UpperHalf`, `MiddleIsSafe`). Hence every `commitIndex`, and every one
in a message, is that of a `Durable` prefix (`CommitSent`, `BeatCommits`), and so is every
index a node has applied (`AppliedHolds`), whose command is still in its log.

The hypothesis is not one of convenience. `AppendOvertaken` and `SortedMatches` refute the invariants with
`overtake` and, with four nodes, `stop`; `beat` refutes them and `return` refutes `CommitNeverRetreats` in
the explorations above. With `commit`, entries of a loop are of a later log than its index. With three nodes
`stop` does no harm, and `ReplicationInOrder` checks the same properties with it.

*Replication: order, and the refinement of `Agreement`.* `EntriesAreAppliedInOrder` and
`ReplicationIsTheService` assume `Races = {}` and `NumPeers < 7`, for any terms and commands. `CommitInv`
says that what is applied is safe, and not that it is complete: a `commitIndex` may move and nothing be
applied. `probNSituation` (`RaftNode.java:965-985`) does that, with no look at the role, and both loops
that apply begin at `commitIndex` + 1. The hypothesis on the nodes is exact: with seven, `AppliedInOrder` is violated.
Leader 0 counts followers 1 and 2 for its first command and 3 and 4 for its second, a
majority for neither, and steps down for a new leader, who has the first command only and starts a third.
The last thread of node 0 finds 1 in the middle of `matchIndex` and sets `commitIndex` to 1. When the new leader's
heart beat commits index 2, node 0 applies from `commitIndex` + 1 on and never applies entry 1; `Config`
reports it as applied out of order. TLC followed this trace, of 59 steps, step by step;
`StateMachineSafety` and `AppliedEntriesStay` hold in each of them.

Fewer nodes cannot do it. Let M be a majority. For `probNSituation` to find index N, M followers must match it;
at most M - 2 of them by the command at N, which has no majority with its leader, so two followers and the leader
have a later entry of the term. The M voters of the new leader, whose log ends at N, have none. So there are
M + 3 nodes. `Spread` is the inductive form. For each index ahead of the leader's `commitIndex` there is a set
`W` of nodes that is no majority, and no larger than what the command at the index has counted (`Few`), and
whoever matches the index is in `W` or has accepted what is behind it, as the leader has (`Covers`). `SpreadNext`
keeps it through each step and each sort of `matchIndex`. With fewer than seven nodes those of a matching majority
that are not in `W` are two at least, so with the leader they meet every majority (`NoneWithoutThem`) and what
is behind the index is settled: the node, which has an entry of a later term there, would have one of the old
term behind it, and terms ascend. So a thread that ends without applying leaves `commitIndex` alone
(`EndCommitsNothing`). With it
`OrderInv` adds to `CommitInv`: what is behind a `commitIndex`, a `lastApplied`, a running loop
(`ReachedHolds`, `ApplyingHolds`) and the operator of a committed command (`CommittedIsBehind`) is applied.

The refinement needs three more conjuncts. What a node has applied is `Filled` up to some place and no further;
some node `HasMost`; and a command is in all logs at the index of its operator or in none (`Placed`), so that
none is decided twice. The first two are carried as invariants, where one would count, because induction over
data is not at hand. `Decided` is then what any node that `HasMost` has applied (`DecidedIsMost`), and
`StepImplements` maps each step: a client's call to `Start`; an entry that a loop applies to `Learn`, if a node
that `HasMost` has it, and to `Choose`, if not; all else to a stutter.

*Agreement and the tester.* `OneSequenceIsApplied`: under `Agreement` all nodes apply one sequence
without gaps and repetitions. `TesterProofs` uses that invariant for the service the tester runs on.
`NeverAFalseAlarm`, `ReturnsTheTruth` and `ReturnsInOrder` hold for any number of servers, commands and
starts. Their invariant `TesterInv` follows an entry from the node's `applied` through its queue
(`QueueInv`), the hands of its listener (`ListenerInv`) and its map (`LogsInv`): entries arrive in order,
and what is in a map was applied; and it says of the thread of the test that what it has counted so
far it has found (`CountInv`) and that what it returns is above what it returned before (`ReturnedInv`).

Only model-checked: liveness, which needs fairness and `ENABLED`; the replication properties with windows open
that `ReplicationInOrder` and `ReplicationReturns` check on three nodes; the violations. The state space
of seven nodes is beyond a run.

## What is not modelled

Timeouts as durations, serialisation, debug output, `RaftTest` and the generated documentation.
In `RaftReplication`, `commitLog` tests the role and counts the success in one step; one heart beat run
per node is under way at a time, although a cancelled timer's last run may overlap with the first of its
successor. The monitor deadlock and the scheduler's death are
not combined with the other models.

In `Network` an access to `disconnected_nodes`, a plain `HashMap`, is one step. `Controller.start` and
`getState` look a node up as `send` does. In `Tester`, `checkOneLeader`, `checkTerms`, `checkNoLeader`
and `wait` are left out: they poll for a time, and compare what nodes say (`getState` reads the term
and the role apart) at moments that only durations relate.

## Plan

1. Done: `RaftElection`, `NodeLocks` and `Network` with their proofs; `RaftReplication`, with `commitLog`
   split, and its refinement of `Agreement`; `Tester` over `Agreement`.
2. Done: proofs about replication (types, log matching), `Agreement` and `Tester`.
3. Done: commitment, `StateMachineSafety`, `AppliedEntriesStay` and `CommitNeverRetreats` for `Races = {}`.
4. Done: `AppliedInOrder` and the refinement of `Agreement` for `Races = {}` and fewer than seven nodes.
5. Two heart beat runs of one node.
