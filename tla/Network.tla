------------------------------- MODULE Network -------------------------------
(***************************************************************************)
(* The network between the nodes: Controller, as the RMI threads that      *)
(* carry calls (send) and the thread of the test (disconnect, re_connect)  *)
(* work on its three maps without a lock.                                  *)
(*                                                                         *)
(* An access to a map is one step; nodes and rpc_counters are concurrent   *)
(* maps, disconnected_nodes is taken to be as good as one.  What the       *)
(* handler at the other end does is not said here.                         *)
(***************************************************************************)
EXTENDS Integers, FiniteSets

CONSTANTS Peer,      \* the ids of the nodes
          None,      \* no node
          Caller,    \* the RMI threads that serve send
          Reliable,  \* Controller.reliable
          MaxCalls   \* bound: calls counted for one peer before another one

ASSUME PeerAssumption == IsFiniteSet(Peer) /\ None \notin Peer
ASSUME ReliableAssumption == Reliable \in BOOLEAN
ASSUME MaxCallsAssumption == MaxCalls \in Nat

VARIABLES
  nodes,               \* the keys of the map: who can be called
  disconnected_nodes,  \* the keys of the map: who cannot send
  rpc_counters,        \* calls counted, by destination
  call,                \* the call each thread carries
  test,                \* the thread of the test: its step, and the peer
  apart,               \* history: the peers that disconnect has returned for
  counted,             \* history: the calls counted for each peer ...
  alone                \* history: ... and those that met no other meanwhile

maps == <<nodes, disconnected_nodes>>
counts == <<rpc_counters, counted, alone>>
vars == <<nodes, disconnected_nodes, rpc_counters, call, test, apart, counted,
          alone>>

(* met: the call was counted while another one was, for the same peer.     *)
(* apart: the ends of the call that were apart when it began, and still    *)
(* are.                                                                    *)
NoCall == [at |-> "idle", src |-> None, dest |-> None, counter |-> 0,
           met |-> FALSE, apart |-> {}]

Init ==
  /\ nodes = {} /\ disconnected_nodes = {}
  /\ rpc_counters = [d \in Peer |-> 0]
  /\ call = [t \in Caller |-> NoCall]
  /\ test = [at |-> "waiting", peer |-> None]
  /\ apart = {}
  /\ counted = [d \in Peer |-> 0]
  /\ alone = [d \in Peer |-> 0]

(* The constructor of TransportLib, once in the process of each node.      *)
Register(i) ==
  /\ i \notin nodes \cup disconnected_nodes
  /\ nodes' = nodes \cup {i}
  /\ UNCHANGED <<disconnected_nodes, counts, call, test, apart>>

-----------------------------------------------------------------------------
(***************************************************************************)
(* send, in one thread per call.                                           *)
(***************************************************************************)

(* Slip: who may send is not asked.                                        *)
AnyMaySend(i) == i \in nodes \cup disconnected_nodes

(* A node that is disconnected gets null at once.                          *)
MaySend(i) == i \in nodes \cup disconnected_nodes /\ i \notin disconnected_nodes

Send(t, i, d) ==
  /\ call[t] = NoCall /\ i # d
  /\ MaySend(i)
  /\ counted[d] < MaxCalls
  /\ call' = [call EXCEPT ![t] = [NoCall EXCEPT
       !.at = "begun", !.src = i, !.dest = d, !.apart = apart \cap {i, d}]]
  /\ UNCHANGED <<maps, counts, test, apart>>

BeingCounted(t, d) == call[t].at = "counting" /\ call[t].dest = d

(* The counter is read ...                                                 *)
ReadCounter(t) ==
  LET d == call[t].dest
      others == {u \in Caller : BeingCounted(u, d)}
  IN /\ call[t].at = "begun"
     /\ call' = [u \in Caller |->
          IF u = t THEN [call[t] EXCEPT !.at = "counting",
                           !.counter = rpc_counters[d], !.met = others # {}]
          ELSE IF u \in others THEN [call[u] EXCEPT !.met = TRUE]
          ELSE call[u]]
     /\ UNCHANGED <<maps, counts, test, apart>>

(* Slip: the counter is written as it was read.                            *)
NotIncremented(t) == call[t].counter

(* Slip: the counter runs down.                                            *)
Decremented(t) == call[t].counter - 1

Incremented(t) == call[t].counter + 1

(* ... and written, whatever it is by now.                                 *)
WriteCounter(t) ==
  LET d == call[t].dest
  IN /\ call[t].at = "counting"
     /\ rpc_counters' = [rpc_counters EXCEPT ![d] = Incremented(t)]
     /\ counted' = [counted EXCEPT ![d] = @ + 1]
     /\ alone' = [alone EXCEPT ![d] = IF call[t].met THEN @ ELSE @ + 1]
     /\ call' = [call EXCEPT ![t].at = "deciding"]
     /\ UNCHANGED <<maps, test, apart>>

EndCall(t) == call' = [call EXCEPT ![t] = NoCall]

(* makeDecision: a peer that cannot be called is as good as a timeout; an  *)
(* unreliable network drops the call, or throws out of sleep.              *)
Decide(t) ==
  /\ call[t].at = "deciding"
  /\ \/ /\ call[t].dest \in nodes
        /\ call' = [call EXCEPT ![t].at = "looking"]
     \/ /\ call[t].dest \notin nodes \/ ~Reliable
        /\ EndCall(t)
  /\ UNCHANGED <<maps, counts, test, apart>>

(* Slip: a peer that is gone is waited for.                                *)
LookUpPresent(t) ==
  /\ call[t].at = "looking" /\ call[t].dest \in nodes
  /\ call' = [call EXCEPT ![t].at = "delivering"]
  /\ UNCHANGED <<maps, counts, test, apart>>

(* The peer is looked up again: it may be gone since the decision.         *)
LookUp(t) ==
  /\ call[t].at = "looking"
  /\ IF call[t].dest \in nodes
     THEN call' = [call EXCEPT ![t].at = "delivering"]
     ELSE EndCall(t)
  /\ UNCHANGED <<maps, counts, test, apart>>

(* deliverMessage answers.                                                 *)
Deliver(t) ==
  /\ call[t].at = "delivering"
  /\ EndCall(t)
  /\ UNCHANGED <<maps, counts, test, apart>>

-----------------------------------------------------------------------------
(***************************************************************************)
(* The thread of the test.  It waits for all nodes to register first.      *)
(***************************************************************************)

Become(from, to, i) ==
  /\ test.at = from /\ test.peer \in {None, i}
  /\ test' = [at |-> to, peer |-> IF to = "idle" THEN None ELSE i]

(* waitUntilAllRegister                                                    *)
AllRegistered ==
  /\ Cardinality(nodes) = Cardinality(Peer)
  /\ Become("waiting", "idle", None)
  /\ UNCHANGED <<maps, counts, call, apart>>

(* disconnect puts the peer into the one map ...                           *)
Disconnect(i) ==
  /\ i \notin disconnected_nodes
  /\ Become("idle", "disconnecting", i)
  /\ disconnected_nodes' = disconnected_nodes \cup {i}
  /\ UNCHANGED <<nodes, counts, call, apart>>

(* ... and takes it out of the other.                                      *)
Remove(i) ==
  /\ Become("disconnecting", "idle", i)
  /\ nodes' = nodes \ {i}
  /\ apart' = apart \cup {i}
  /\ UNCHANGED <<disconnected_nodes, counts, call>>

(* re_connect puts it back ...                                             *)
Reconnect(i) ==
  /\ i \in disconnected_nodes
  /\ Become("idle", "reconnecting", i)
  /\ nodes' = nodes \cup {i}
  /\ apart' = apart \ {i}
  /\ call' = [t \in Caller |-> [call[t] EXCEPT !.apart = @ \ {i}]]
  /\ UNCHANGED <<disconnected_nodes, counts>>

(* Slip: who is called again may not send again.                           *)
StillDisconnected(i) == disconnected_nodes

Others(i) == disconnected_nodes \ {i}

(* ... and lets it send.                                                   *)
Restore(i) ==
  /\ Become("reconnecting", "idle", i)
  /\ disconnected_nodes' = Others(i)
  /\ UNCHANGED <<nodes, counts, call, apart>>

-----------------------------------------------------------------------------
CallStep(t) ==
  \/ ReadCounter(t) \/ WriteCounter(t) \/ Decide(t) \/ LookUp(t) \/ Deliver(t)

Next ==
  \/ \E t \in Caller : CallStep(t) \/ \E i, d \in Peer : Send(t, i, d)
  \/ AllRegistered
  \/ \E i \in Peer : \/ Register(i)
                     \/ Disconnect(i) \/ Remove(i)
                     \/ Reconnect(i) \/ Restore(i)

Spec == Init /\ [][Next]_vars

(* Each call has a thread of its own, and its handler answers.             *)
FairSpec == Spec /\ \A t \in Caller : WF_vars(CallStep(t))

-----------------------------------------------------------------------------
(***************************************************************************)
(* Properties.                                                             *)
(***************************************************************************)

Call == [at : {"idle", "begun", "counting", "deciding", "looking", "delivering"},
         src : Peer \cup {None}, dest : Peer \cup {None}, counter : Nat,
         met : BOOLEAN, apart : SUBSET Peer]

(* Every variable has the type its use gives it.                           *)
TypeOK ==
  /\ nodes \in SUBSET Peer /\ disconnected_nodes \in SUBSET Peer
  /\ rpc_counters \in [Peer -> Nat]
  /\ call \in [Caller -> Call]
  /\ \A t \in Caller : call[t].at # "idle" => call[t].dest \in Peer
  /\ test \in [at : {"waiting", "idle", "disconnecting", "reconnecting"},
               peer : Peer \cup {None}]
  /\ apart \in SUBSET Peer
  /\ counted \in [Peer -> Nat] /\ alone \in [Peer -> Nat]

(* Between disconnect and re_connect a node is apart: no call that begins  *)
(* in this time reaches it or comes from it, although send asks its maps   *)
(* three times and disconnect moves the node in two steps.  A call that    *)
(* began before may still arrive.                                          *)
Isolation ==
  \A t \in Caller : call[t].at = "delivering" => call[t].apart = {}

(* Whenever the test is not in the middle of a move, the nodes it can ask  *)
(* for their state or to start a command are those it has not              *)
(* disconnected, and it is those that may send: Controller.start never     *)
(* answers null for a node Config holds for connected.                     *)
ConnectedAreFound ==
  test.at = "idle" => nodes = Peer \ apart /\ disconnected_nodes = apart

(* The counters, read and written in two steps by concurrent calls, never  *)
(* count more calls than there were, and never lose one that met no other  *)
(* on its way.  RaftTest tests the numbers from above ("too many RPCs")    *)
(* and from below.                                                         *)
CountsBounded ==
  \A d \in Peer : alone[d] <= rpc_counters[d] /\ rpc_counters[d] <= counted[d]

(* Every call ends, with an answer or without, also when its destination   *)
(* is disconnected between the decision and the delivery.                  *)
CallsEnd ==
  \A t \in Caller : call[t].at # "idle" ~> call[t].at = "idle"

-----------------------------------------------------------------------------
(***************************************************************************)
(* Inductive invariants.                                                   *)
(***************************************************************************)

(* Where the peers are at each step of the test.                           *)
MapsInv ==
  /\ test.at = "waiting" => disconnected_nodes = {} /\ apart = {}
  /\ test.at = "idle" => nodes = Peer \ apart /\ disconnected_nodes = apart
  /\ test.at \in {"disconnecting", "reconnecting"} =>
       /\ test.peer \in Peer \ apart
       /\ nodes = Peer \ apart
       /\ disconnected_nodes = apart \cup {test.peer}

(* A call carries on only as long as nobody at its ends was apart.         *)
CallsInv ==
  \A t \in Caller :
    /\ call[t].apart \subseteq apart \cap {call[t].dest}
    /\ call[t].at \in {"looking", "delivering"} => call[t].apart = {}

(* What a thread has read of a counter, it may be out of date.             *)
CountsInv ==
  /\ \A t \in Caller : call[t].at = "counting" =>
       /\ alone[call[t].dest] <= call[t].counter
       /\ call[t].counter <= counted[call[t].dest]
  /\ \A t, u \in Caller :
       t # u /\ call[t].at = "counting" /\ BeingCounted(u, call[t].dest)
         => call[t].met
=============================================================================
