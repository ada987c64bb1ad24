---------------------------- MODULE NetworkProofs ----------------------------
(***************************************************************************)
(* Theorems about Network, for any peers, any callers and any number of    *)
(* calls.                                                                  *)
(***************************************************************************)
EXTENDS Network, TLAPS, FiniteSetTheorems

-----------------------------------------------------------------------------
(***************************************************************************)
(* Type correctness.                                                       *)
(***************************************************************************)

(* What reading a counter does to the calls.                               *)
LEMMA ReadEffect ==
  ASSUME TypeOK, NEW t \in Caller, ReadCounter(t)
  PROVE  /\ call' \in [Caller -> Call]
         /\ \A u \in Caller :
              /\ call'[u].at = IF u = t THEN "counting" ELSE call[u].at
              /\ call'[u].dest = call[u].dest
              /\ call'[u].apart = call[u].apart
<1> DEFINE others == {u \in Caller : BeingCounted(u, call[t].dest)}
<1>1. call[t].dest \in Peer /\ rpc_counters[call[t].dest] \in Nat
  BY DEF ReadCounter, TypeOK
<1>2. /\ call \in [Caller -> Call]
      /\ call' = [u \in Caller |->
           IF u = t THEN [call[t] EXCEPT !.at = "counting",
                            !.counter = rpc_counters[call[t].dest],
                            !.met = others # {}]
           ELSE IF u \in others THEN [call[u] EXCEPT !.met = TRUE]
           ELSE call[u]]
  BY DEF ReadCounter, TypeOK
<1>3. (others # {}) \in BOOLEAN
  OBVIOUS
<1> HIDE DEF others
<1>4. ASSUME NEW u \in Caller
      PROVE  /\ call'[u] \in Call
             /\ call'[u].at = IF u = t THEN "counting" ELSE call[u].at
             /\ call'[u].dest = call[u].dest
             /\ call'[u].apart = call[u].apart
  <2>1. call[u] \in Call
    BY <1>2
  <2>2. CASE u = t
    <3>1. call'[u] = [call[u] EXCEPT !.at = "counting",
                        !.counter = rpc_counters[call[u].dest],
                        !.met = others # {}]
      BY <1>2, <2>2
    <3> QED
      BY <1>1, <1>3, <2>1, <2>2, <3>1 DEF Call
  <2>3. CASE u # t
    <3>1. call'[u] \in {call[u], [call[u] EXCEPT !.met = TRUE]}
      BY <1>2, <2>3
    <3> QED
      BY <2>1, <2>3, <3>1 DEF Call
  <2> QED
    BY <2>2, <2>3
<1> QED
  BY <1>2, <1>4

(* Every step of a call keeps the types.                                   *)
LEMMA CallStepType ==
  ASSUME TypeOK, NEW t \in Caller, CallStep(t)
  PROVE  TypeOK'
<1>1. call[t].at # "idle" => call[t].dest \in Peer
  BY DEF TypeOK
<1>2. /\ call[t] \in Call
      /\ Incremented(t) \in Nat
  BY DEF TypeOK, Call, Incremented
<1>3. CASE ReadCounter(t)
  <2>1. \A u \in Caller : call'[u].at # "idle" => call'[u].dest \in Peer
    <3>1. call[t].at = "begun"
      BY <1>3 DEF ReadCounter
    <3>2. \A u \in Caller : call'[u].at # "idle" => call[u].at # "idle"
      BY <1>3, <3>1, ReadEffect
    <3>3. \A u \in Caller : call'[u].dest = call[u].dest
      BY <1>3, ReadEffect
    <3> QED
      BY <3>2, <3>3 DEF TypeOK
  <2> QED
    BY <1>3, <2>1, ReadEffect DEF ReadCounter, TypeOK, maps, counts
<1>4. CASE WriteCounter(t)
  <2>1. call[t].dest \in Peer
    BY <1>1, <1>4 DEF WriteCounter
  <2> QED
    BY <1>2, <1>4, <2>1 DEF WriteCounter, TypeOK, Call, maps
<1>5. ASSUME call' = [call EXCEPT ![t].at = "looking"]
             \/ call' = [call EXCEPT ![t].at = "delivering"]
             \/ EndCall(t),
             call[t].at # "idle", UNCHANGED <<maps, counts, test, apart>>
      PROVE  TypeOK'
  <2>1. NoCall \in Call
    BY DEF NoCall, Call
  <2>2. call' \in [Caller -> Call]
    BY <1>5, <2>1 DEF EndCall, TypeOK, Call
  <2>3. \A u \in Caller : call'[u].at # "idle" => call'[u].dest \in Peer
    BY <1>5 DEF EndCall, TypeOK, Call, NoCall
  <2> QED
    BY <1>5, <2>2, <2>3 DEF TypeOK, maps, counts
<1> QED
  BY <1>3, <1>4, <1>5 DEF CallStep, Decide, LookUp, Deliver

(* The type invariant is inductive.                                        *)
THEOREM MapsTyped == Spec => []TypeOK
<1>1. Init => TypeOK
  BY DEF Init, TypeOK, Call, NoCall
<1>2. TypeOK /\ [Next]_vars => TypeOK'
  <2> SUFFICES ASSUME TypeOK, [Next]_vars PROVE TypeOK'
    OBVIOUS
  <2>1. CASE UNCHANGED vars
    BY <2>1 DEF vars, TypeOK
  <2>2. ASSUME NEW t \in Caller, CallStep(t) PROVE TypeOK'
    BY <2>2, CallStepType
  <2>3. ASSUME NEW t \in Caller, NEW i \in Peer, NEW d \in Peer, Send(t, i, d)
        PROVE  TypeOK'
    <3>1. [NoCall EXCEPT !.at = "begun", !.src = i, !.dest = d,
                         !.apart = apart \cap {i, d}] \in Call
      BY DEF NoCall, Call, TypeOK
    <3> QED
      BY <2>3, <3>1 DEF Send, TypeOK, maps, counts
  <2>4. CASE AllRegistered
    BY <2>4 DEF AllRegistered, Become, TypeOK, maps, counts
  <2>5. ASSUME NEW i \in Peer, Register(i) PROVE TypeOK'
    BY <2>5 DEF Register, TypeOK, counts
  <2>6. ASSUME NEW i \in Peer, Disconnect(i) \/ Remove(i) PROVE TypeOK'
    BY <2>6 DEF Disconnect, Remove, Become, TypeOK, counts
  <2>7. ASSUME NEW i \in Peer, Reconnect(i) PROVE TypeOK'
    <3>1. \A u \in Caller : [call[u] EXCEPT !.apart = @ \ {i}] \in Call
      <4> SUFFICES ASSUME NEW u \in Caller
                   PROVE  [call[u] EXCEPT !.apart = @ \ {i}] \in Call
        OBVIOUS
      <4>1. call[u] \in Call
        BY DEF TypeOK
      <4>2. call[u].apart \ {i} \in SUBSET Peer
        BY <4>1 DEF Call
      <4> QED
        BY <4>1, <4>2 DEF Call
    <3>2. \A u \in Caller : call'[u].at # "idle" => call'[u].dest \in Peer
      BY <2>7 DEF Reconnect, TypeOK, Call
    <3>3. call' \in [Caller -> Call]
      BY <2>7, <3>1 DEF Reconnect
    <3> QED
      BY <2>7, <3>2, <3>3 DEF Reconnect, Become, TypeOK, counts
  <2>8. ASSUME NEW i \in Peer, Restore(i) PROVE TypeOK'
    BY <2>8 DEF Restore, Others, Become, TypeOK, counts
  <2> QED
    BY <2>1, <2>2, <2>3, <2>4, <2>5, <2>6, <2>7, <2>8 DEF Next
<1> QED
  BY <1>1, <1>2, PTL DEF Spec

-----------------------------------------------------------------------------
(***************************************************************************)
(* The two maps, and the calls between them.                               *)
(***************************************************************************)

(* Steps of calls leave the maps alone, those of the test take a peer from *)
(* one to the other and back.                                              *)
LEMMA MapsStep ==
  ASSUME TypeOK, MapsInv, [Next]_vars
  PROVE  MapsInv'
<1>1. CASE UNCHANGED vars
  BY <1>1 DEF vars, MapsInv
<1>2. ASSUME NEW t \in Caller, CallStep(t) PROVE MapsInv'
  BY <1>2 DEF CallStep, ReadCounter, WriteCounter, Decide, LookUp, Deliver,
              maps, MapsInv
<1>3. ASSUME NEW t \in Caller, NEW i \in Peer, NEW d \in Peer, Send(t, i, d)
      PROVE  MapsInv'
  BY <1>3 DEF Send, maps, MapsInv
<1>4. CASE AllRegistered
  <2>1. nodes = Peer
    BY <1>4, FS_Subset, PeerAssumption DEF AllRegistered, TypeOK
  <2> QED
    BY <1>4, <2>1 DEF AllRegistered, Become, maps, MapsInv
<1>5. ASSUME NEW i \in Peer, Register(i) PROVE MapsInv'
  <2>1. test.at = "waiting"
    BY <1>5 DEF Register, MapsInv, TypeOK
  <2> QED
    BY <1>5, <2>1 DEF Register, MapsInv
<1>6. ASSUME NEW i \in Peer, Disconnect(i) PROVE MapsInv'
  BY <1>6 DEF Disconnect, Become, MapsInv
<1>7. ASSUME NEW i \in Peer, Remove(i) PROVE MapsInv'
  BY <1>7, PeerAssumption DEF Remove, Become, MapsInv
<1>8. ASSUME NEW i \in Peer, Reconnect(i) PROVE MapsInv'
  BY <1>8 DEF Reconnect, Become, MapsInv
<1>9. ASSUME NEW i \in Peer, Restore(i) PROVE MapsInv'
  BY <1>9, PeerAssumption DEF Restore, Others, Become, MapsInv
<1> QED
  BY <1>1, <1>2, <1>3, <1>4, <1>5, <1>6, <1>7, <1>8, <1>9 DEF Next

(* No peer is apart and found at a time.                                   *)
LEMMA ApartAreGone ==
  ASSUME TypeOK, MapsInv
  PROVE  nodes \cap apart = {} /\ apart \subseteq disconnected_nodes
BY DEF TypeOK, MapsInv

(* A call that finds its destination has nobody apart at its ends, and     *)
(* none joins them later.                                                  *)
LEMMA CallsStep ==
  ASSUME TypeOK, MapsInv, CallsInv, [Next]_vars
  PROVE  CallsInv'
<1> USE DEF CallsInv
<1>1. CASE UNCHANGED vars
  BY <1>1 DEF vars
<1>2. ASSUME NEW t \in Caller, CallStep(t) PROVE CallsInv'
  <2>1. UNCHANGED apart
    BY <1>2 DEF CallStep, ReadCounter, WriteCounter, Decide, LookUp, Deliver
  <2>2. CASE ReadCounter(t)
    BY <2>1, <2>2, ReadEffect
  <2>3. CASE WriteCounter(t)
    BY <2>1, <2>3 DEF WriteCounter, TypeOK, Call
  <2>4. CASE EndCall(t)
    BY <2>1, <2>4 DEF EndCall, NoCall, TypeOK, Call
  <2>5. CASE /\ call[t].dest \in nodes
             /\ \/ call' = [call EXCEPT ![t].at = "looking"]
                \/ call' = [call EXCEPT ![t].at = "delivering"]
    <3>1. call[t].apart = {}
      BY <2>5, ApartAreGone
    <3> QED
      BY <2>1, <2>5, <3>1 DEF TypeOK, Call
  <2> QED
    BY <1>2, <2>2, <2>3, <2>4, <2>5 DEF CallStep, Decide, LookUp, Deliver
<1>3. ASSUME NEW t \in Caller, NEW i \in Peer, NEW d \in Peer, Send(t, i, d)
      PROVE  CallsInv'
  <2>1. i \notin apart
    BY <1>3, ApartAreGone DEF Send, MaySend
  <2> QED
    BY <1>3, <2>1 DEF Send, NoCall, TypeOK, Call
<1>4. ASSUME NEW i \in Peer, Reconnect(i) PROVE CallsInv'
  BY <1>4 DEF Reconnect, TypeOK, Call
<1>5. ASSUME NEW i \in Peer,
             \/ AllRegistered \/ Register(i) \/ Disconnect(i)
             \/ Remove(i) \/ Restore(i)
      PROVE  CallsInv'
  BY <1>5 DEF AllRegistered, Register, Disconnect, Remove, Restore
<1>6. CASE AllRegistered
  BY <1>6 DEF AllRegistered
<1> QED
  BY <1>1, <1>2, <1>3, <1>4, <1>5, <1>6 DEF Next

(* What holds of the maps and of the calls holds always.                   *)
LEMMA MapsInvariants == Spec => [](TypeOK /\ MapsInv /\ CallsInv)
<1>1. Init => MapsInv /\ CallsInv
  BY DEF Init, MapsInv, CallsInv, NoCall
<1> QED
  BY <1>1, MapsTyped, MapsStep, CallsStep, PTL DEF Spec

(* A call that begins while a node is disconnected neither reaches it nor  *)
(* comes from it, whichever steps of disconnect and re_connect it meets.   *)
THEOREM DisconnectedIsApart == Spec => []Isolation
<1>1. CallsInv => Isolation
  BY DEF CallsInv, Isolation
<1> QED
  BY <1>1, MapsInvariants, PTL

(* Between two moves the nodes Controller finds are those that are         *)
(* connected for Config.                                                   *)
THEOREM ConnectedNodesAreFound == Spec => []ConnectedAreFound
<1>1. MapsInv => ConnectedAreFound
  BY DEF MapsInv, ConnectedAreFound
<1> QED
  BY <1>1, MapsInvariants, PTL

-----------------------------------------------------------------------------
(***************************************************************************)
(* The counters.                                                           *)
(***************************************************************************)

(* A step that begins or ends no counting changes nothing about it.        *)
LEMMA CountsKept ==
  ASSUME CountsBounded, CountsInv, UNCHANGED counts,
         \A t \in Caller : call'[t].at = "counting" =>
           /\ call[t].at = "counting"
           /\ call'[t].dest = call[t].dest
           /\ call'[t].counter = call[t].counter
           /\ call'[t].met = call[t].met
  PROVE  (CountsBounded /\ CountsInv)'
BY DEF CountsBounded, CountsInv, BeingCounted, counts

(* A thread reads a counter between its two bounds, and all that are at it *)
(* have met.                                                               *)
LEMMA ReadStep ==
  ASSUME TypeOK, CountsBounded, CountsInv, NEW t \in Caller, ReadCounter(t)
  PROVE  (CountsBounded /\ CountsInv)'
<1> DEFINE d == call[t].dest
<1>1. d \in Peer /\ UNCHANGED counts
  BY DEF ReadCounter, TypeOK
<1>2. /\ call'[t].at = "counting" /\ call'[t].dest = d
      /\ call'[t].counter = rpc_counters[d]
      /\ call'[t].met = (\E u \in Caller : BeingCounted(u, d))
  BY DEF ReadCounter, TypeOK, Call
<1>3. \A u \in Caller : u # t =>
        /\ call'[u].at = call[u].at /\ call'[u].dest = call[u].dest
        /\ call'[u].counter = call[u].counter
        /\ call'[u].met = (BeingCounted(u, d) \/ call[u].met)
  BY DEF ReadCounter, TypeOK, Call
<1>4. CountsBounded'
  BY <1>1 DEF CountsBounded, counts
<1>5. \A u \in Caller : call'[u].at = "counting" =>
        /\ alone[call'[u].dest] <= call'[u].counter
        /\ call'[u].counter <= counted[call'[u].dest]
  BY <1>1, <1>2, <1>3 DEF CountsBounded, CountsInv
<1>6. \A u, v \in Caller :
        /\ u # v /\ call'[u].at = "counting"
        /\ call'[v].at = "counting" /\ call'[v].dest = call'[u].dest
        => call'[u].met
  <2> SUFFICES ASSUME NEW u \in Caller, NEW v \in Caller,
                      u # v, call'[u].at = "counting",
                      call'[v].at = "counting", call'[v].dest = call'[u].dest
               PROVE  call'[u].met
    OBVIOUS
  <2>1. CASE u = t
    BY <1>2, <1>3, <2>1 DEF BeingCounted
  <2>2. CASE v = t
    BY <1>2, <1>3, <2>2 DEF BeingCounted
  <2>3. CASE u # t /\ v # t
    BY <1>3, <2>3 DEF BeingCounted, CountsInv
  <2> QED
    BY <2>1, <2>2, <2>3
<1> QED
  BY <1>1, <1>4, <1>5, <1>6 DEF CountsInv, BeingCounted, counts

(* A thread writes a counter that is out of date only if it met another    *)
(* one; it then counts for none that was alone.                            *)
LEMMA WriteStep ==
  ASSUME TypeOK, CountsBounded, CountsInv, NEW t \in Caller, WriteCounter(t)
  PROVE  (CountsBounded /\ CountsInv)'
<1> DEFINE d == call[t].dest
           c == call[t].counter
<1>1. /\ d \in Peer /\ c \in Nat
      /\ counted[d] \in Nat /\ alone[d] \in Nat
  BY DEF WriteCounter, TypeOK, Call
<1>2. alone[d] <= c /\ c <= counted[d]
  BY DEF WriteCounter, CountsInv
<1>3. /\ rpc_counters' = [rpc_counters EXCEPT ![d] = c + 1]
      /\ counted' = [counted EXCEPT ![d] = @ + 1]
      /\ alone' = [alone EXCEPT ![d] = IF call[t].met THEN @ ELSE @ + 1]
  BY DEF WriteCounter, Incremented
<1>4. /\ \A e \in Peer : alone[e] \in Nat /\ counted[e] \in Nat
      /\ alone \in [Peer -> Nat] /\ counted \in [Peer -> Nat]
      /\ rpc_counters \in [Peer -> Nat]
  BY DEF TypeOK
<1>5. CountsBounded'
  <2> SUFFICES ASSUME NEW e \in Peer
               PROVE  /\ alone'[e] <= rpc_counters'[e]
                      /\ rpc_counters'[e] <= counted'[e]
    BY DEF CountsBounded
  <2>1. CASE e = d
    BY <1>1, <1>2, <1>3, <1>4, <2>1
  <2>2. CASE e # d
    BY <1>3, <1>4, <2>2 DEF CountsBounded
  <2> QED
    BY <2>1, <2>2
<1>6. \A u \in Caller :
        call'[u].at = "counting" => u # t /\ call'[u] = call[u]
  BY DEF WriteCounter, TypeOK, Call
<1>7. ASSUME NEW u \in Caller, call'[u].at = "counting"
      PROVE  /\ alone'[call'[u].dest] <= call'[u].counter
             /\ call'[u].counter <= counted'[call'[u].dest]
  <2>1. /\ call[u].at = "counting" /\ u # t /\ call'[u] = call[u]
        /\ call[u].dest \in Peer /\ call[u].counter \in Nat
    BY <1>6, <1>7 DEF TypeOK, Call
  <2>2. /\ alone[call[u].dest] <= call[u].counter
        /\ call[u].counter <= counted[call[u].dest]
    BY <2>1 DEF CountsInv
  <2>3. CASE call[u].dest = d
    <3>1. call[t].met
      BY <2>1, <2>3 DEF CountsInv, BeingCounted, WriteCounter
    <3> QED
      BY <1>1, <1>3, <1>4, <2>1, <2>2, <2>3, <3>1
  <2>4. CASE call[u].dest # d
    BY <1>3, <1>4, <2>1, <2>2, <2>4
  <2> QED
    BY <2>3, <2>4
<1>8. \A u, v \in Caller :
        /\ u # v /\ call'[u].at = "counting"
        /\ call'[v].at = "counting" /\ call'[v].dest = call'[u].dest
        => call'[u].met
  BY <1>6 DEF CountsInv, BeingCounted
<1> QED
  BY <1>5, <1>7, <1>8 DEF CountsInv, BeingCounted

(* Concurrent calls may lose each other's counts, but count no call twice  *)
(* and lose none that met no other.                                        *)
THEOREM CountersAreBounded == Spec => []CountsBounded
<1>1. Init => CountsBounded /\ CountsInv
  BY DEF Init, CountsBounded, CountsInv, BeingCounted, NoCall
<1>2. TypeOK /\ CountsBounded /\ CountsInv /\ [Next]_vars
        => (CountsBounded /\ CountsInv)'
  <2> SUFFICES ASSUME TypeOK, CountsBounded, CountsInv, [Next]_vars
               PROVE  (CountsBounded /\ CountsInv)'
    OBVIOUS
  <2>1. CASE UNCHANGED vars
    BY <2>1, CountsKept DEF vars, counts
  <2>2. ASSUME NEW t \in Caller, CallStep(t)
        PROVE  (CountsBounded /\ CountsInv)'
    <3>1. CASE Decide(t) \/ LookUp(t) \/ Deliver(t)
      BY <3>1, CountsKept DEF Decide, LookUp, Deliver, EndCall, NoCall,
                              TypeOK, Call
    <3> QED
      BY <2>2, <3>1, ReadStep, WriteStep DEF CallStep
  <2>3. ASSUME NEW t \in Caller, NEW i \in Peer, NEW d \in Peer, Send(t, i, d)
        PROVE  (CountsBounded /\ CountsInv)'
    BY <2>3, CountsKept DEF Send, NoCall, TypeOK, Call
  <2>4. ASSUME NEW i \in Peer, Reconnect(i)
        PROVE  (CountsBounded /\ CountsInv)'
    BY <2>4, CountsKept DEF Reconnect, TypeOK, Call
  <2>5. ASSUME NEW i \in Peer,
               \/ Register(i) \/ Disconnect(i) \/ Remove(i) \/ Restore(i)
        PROVE  (CountsBounded /\ CountsInv)'
    BY <2>5, CountsKept DEF Register, Disconnect, Remove, Restore
  <2>6. CASE AllRegistered
    BY <2>6, CountsKept DEF AllRegistered
  <2> QED
    BY <2>1, <2>2, <2>3, <2>4, <2>5, <2>6 DEF Next
<1> QED
  BY <1>1, <1>2, MapsTyped, PTL DEF Spec
=============================================================================
