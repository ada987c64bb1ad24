-------------------------------- MODULE Tester --------------------------------
(***************************************************************************)
(* Config, the tester: one thread per node that listens to what the node   *)
(* applies (listenRaftPeer), and the thread of the test, which commits one *)
(* command after the other (startCommit, nCommitted).  They share a map    *)
(* per node without a lock.  The nodes and Controller.applyChannel, which  *)
(* puts what they apply into queues, are those of Agreement: what is shown *)
(* here is how far the tester can be trusted about a service that does     *)
(* what it promises.                                                       *)
(***************************************************************************)
EXTENDS Integers, Sequences, FiniteSets

CONSTANTS NumServers,  \* the servers are 0 .. NumServers - 1
          Expected,    \* startCommit's expectedServers
          MaxCommand,  \* bound: the commands are 1 .. MaxCommand, in order
          MaxStarts,   \* bound: starts that a leader takes on
          MaxQueue     \* bound: messages in a queue before the next ones

ASSUME ServersAssumption == NumServers \in Nat \ {0} /\ Expected \in 0 .. NumServers
ASSUME BoundsAssumption ==
  MaxCommand \in Nat \ {0} /\ MaxStarts \in Nat /\ MaxQueue \in Nat

Server == 0 .. NumServers - 1
Command == 1 .. MaxCommand
Request == 1 .. MaxStarts          \* a start of a command; it may be one again
Index == 1 .. MaxStarts

VARIABLES
  starts,     \* the command of each request
  chosen, applied,  \* as in Agreement, of requests
  queue,      \* applyMsgMap
  logs,       \* the command each server has committed at each index, or 0
  listener,   \* the listener thread of each server
  test,       \* the thread of the test, in startCommit
  returned,   \* history: what startCommit has returned
  exited      \* cleanup has been called

service == <<starts, chosen, applied, queue>>
vars == <<starts, chosen, applied, queue, logs, listener, test, returned,
          exited>>

Service == INSTANCE Agreement WITH
  Node <- Server, Command <- Request, Nothing <- 0,
  started <- 1 .. Len(starts)

NoMessage == [index |-> 0, command |-> 0]
Listening == [at |-> "taking", message |-> NoMessage, server |-> 0,
              error |-> FALSE]
Starting(c) == [at |-> "starting", command |-> c, index |-> 0, server |-> 0,
                count |-> 0, cmd |-> 0]

Init ==
  /\ starts = <<>>
  /\ Service!Init
  /\ queue = [i \in Server |-> <<>>]
  /\ logs = [i \in Server |-> [n \in Index |-> 0]]
  /\ listener = [i \in Server |-> Listening]
  /\ test = Starting(1)
  /\ returned = <<>>
  /\ exited = FALSE

-----------------------------------------------------------------------------
(***************************************************************************)
(* The nodes.                                                              *)
(***************************************************************************)

(* Slip: the messages carry positions instead of indexes.                  *)
MessagesFromZero(s, a, b) ==
  [k \in 1 .. b - a + 1 |->
     [index |-> a + k - 2, command |-> starts[s[a + k - 1]]]]

(* What a server that has applied s sends for the indexes from a to b.     *)
Messages(s, a, b) ==
  [k \in 1 .. b - a + 1 |->
     [index |-> a + k - 1, command |-> starts[s[a + k - 1]]]]

(* Server i applies what is new to it.  Its loops may start at an old      *)
(* index, so that entries before it are applied once more.                 *)
Applies(i) ==
  /\ Len(queue[i]) < MaxQueue
  /\ starts' = starts
  /\ Service!Learn(i) \/ Service!Choose(i)
  /\ \E a \in 1 .. Service!Length(applied[i]) + 1 :
       queue' = [queue EXCEPT ![i] = @ \o
                   Messages(applied'[i], a, Service!Length(applied'[i]))]
  /\ UNCHANGED <<logs, listener, test, returned, exited>>

-----------------------------------------------------------------------------
(***************************************************************************)
(* The maps are HashMaps.  While the owner's put makes a map larger, the   *)
(* other threads may not find what is in it, or find it by containsKey and *)
(* get null, which ends them with an exception.                            *)
(***************************************************************************)

Resizing(j) == listener[j].at = "putting"

(* What a thread may read at index n of the map of server j; 0 is nothing. *)
Readable(j, n) == {logs[j][n]} \cup (IF Resizing(j) THEN {0} ELSE {})

MayThrow(j, n) == Resizing(j) /\ logs[j][n] # 0

-----------------------------------------------------------------------------
(***************************************************************************)
(* listenRaftPeer                                                          *)
(***************************************************************************)

Take(i) ==
  /\ listener[i].at = "taking" /\ queue[i] # <<>>
  /\ listener' = [listener EXCEPT ![i].at = "checking",
                                  ![i].message = Head(queue[i]),
                                  ![i].server = 0]
  /\ queue' = [queue EXCEPT ![i] = Tail(@)]
  /\ UNCHANGED <<starts, chosen, applied, logs, test, returned, exited>>

(* The map of the next server has another command at this index?           *)
CheckOther(i) ==
  LET j == listener[i].server
      m == listener[i].message
  IN /\ listener[i].at = "checking" /\ j < NumServers
     /\ \/ \E old \in Readable(j, m.index) :
             listener' = [listener EXCEPT ![i].server = @ + 1,
               ![i].error = @ \/ old \notin {0, m.command}]
        \/ /\ MayThrow(j, m.index)
           /\ listener' = [listener EXCEPT ![i].at = "dead"]
     /\ UNCHANGED <<service, logs, test, returned, exited>>

(* Slip: the first entry, too, must have one before it.                    *)
PreviousOfAll(i) ==
  LET n == listener[i].message.index IN n > 1 /\ logs[i][n - 1] # 0

PreviousOk(i) ==
  LET n == listener[i].message.index IN n = 1 \/ logs[i][n - 1] # 0

Put(i) ==
  LET m == listener[i].message
  IN /\ listener[i].at = "checking" /\ listener[i].server = NumServers
     /\ logs' = [logs EXCEPT ![i][m.index] = m.command]
     /\ listener' = [listener EXCEPT ![i].at = "putting",
                                     ![i].error = @ \/ ~PreviousOk(i)]
     /\ UNCHANGED <<service, test, returned, exited>>

PutDone(i) ==
  /\ listener[i].at = "putting"
  /\ exited' = listener[i].error
  /\ listener' = [listener EXCEPT ![i] = Listening]
  /\ UNCHANGED <<service, logs, test, returned>>

-----------------------------------------------------------------------------
(***************************************************************************)
(* startCommit                                                             *)
(***************************************************************************)

(* A server takes the command for a leader's, at an index where it need    *)
(* not stay.  A leader that is none any more does so too.                  *)
StartTaken ==
  /\ test.at = "starting" /\ Len(starts) < MaxStarts
  /\ starts' = Append(starts, test.command)
  /\ \E n \in Index : test' = [test EXCEPT !.at = "reading", !.index = n]
  /\ UNCHANGED <<chosen, applied, queue, logs, listener, returned, exited>>

(* nCommitted reads the map of the next server.                            *)
ReadNext ==
  LET j == test.server
  IN /\ test.at = "reading" /\ j < NumServers
     /\ \/ \E cmd \in Readable(j, test.index) :
             IF cmd = 0 THEN /\ test' = [test EXCEPT !.server = @ + 1]
                             /\ UNCHANGED exited
             ELSE /\ test' = [test EXCEPT !.server = @ + 1, !.count = @ + 1,
                                          !.cmd = cmd]
                  /\ exited' = (test.count > 0 /\ test.cmd # cmd)
        \/ /\ MayThrow(j, test.index)
           /\ test' = [test EXCEPT !.at = "dead"]
           /\ UNCHANGED exited
     /\ UNCHANGED <<service, logs, listener, returned>>

(* Slip: it is not asked which command has been committed.                 *)
AnyCommitted == test.count > 0 /\ test.count >= Expected

(* Slip: nor by how many.                                                  *)
CommittedByOne == test.count > 0 /\ test.cmd = test.command

Committed ==
  test.count > 0 /\ test.count >= Expected /\ test.cmd = test.command

NextCommand ==
  IF test.command < MaxCommand THEN Starting(test.command + 1)
  ELSE [test EXCEPT !.at = "done"]

(* All maps are read.                                                      *)
StartCommitReturns ==
  /\ test.at = "reading" /\ test.server = NumServers /\ Committed
  /\ returned' = Append(returned,
                        [index |-> test.index, command |-> test.command])
  /\ test' = NextCommand
  /\ UNCHANGED <<service, logs, listener, exited>>

(* It sleeps and reads again or, after two seconds, starts the command     *)
(* once more.                                                              *)
ReadAgain ==
  /\ test.at = "reading" /\ test.server = NumServers /\ ~Committed
  /\ test' \in {[test EXCEPT !.server = 0, !.count = 0, !.cmd = 0],
               Starting(test.command)}
  /\ UNCHANGED <<service, logs, listener, returned, exited>>

-----------------------------------------------------------------------------
Next ==
  /\ ~exited
  /\ \/ \E i \in Server : \/ Applies(i)
                          \/ Take(i) \/ CheckOther(i) \/ Put(i) \/ PutDone(i)
     \/ StartTaken \/ ReadNext \/ StartCommitReturns \/ ReadAgain

Spec == Init /\ [][Next]_vars

-----------------------------------------------------------------------------
(***************************************************************************)
(* Properties.                                                             *)
(***************************************************************************)

(* Every variable has the type its use gives it.                           *)
TypeOK ==
  /\ starts \in Seq(Command)
  /\ chosen \in [Index -> Request \cup {0}]
  /\ applied \in [Server -> [Index -> Request \cup {0}]]
  /\ queue \in [Server -> Seq([index : Index, command : Command])]
  /\ logs \in [Server -> [Index -> Command \cup {0}]]
  /\ listener \in [Server ->
       [at : {"taking", "checking", "putting", "dead"},
        message : [index : Index \cup {0}, command : Command \cup {0}],
        server : 0 .. NumServers, error : BOOLEAN]]
  /\ test \in [at : {"starting", "reading", "dead", "done"},
               command : Command, index : Index \cup {0},
               server : 0 .. NumServers, count : 0 .. NumServers,
               cmd : Command \cup {0}]
  /\ returned \in Seq([index : Index, command : Command])
  /\ exited \in BOOLEAN

(* The tester raises no alarm about nodes that agree: whatever the order   *)
(* in which the listeners read and write each other's maps, it reports     *)
(* neither a different value nor an entry out of order, also when entries  *)
(* are applied again or a command is started again.                        *)
NoFalseAlarm == ~exited

(* What startCommit returns is true: the command is committed at the index *)
(* on the servers it was to be committed on, although the index came from  *)
(* a leader that may have lost it and the maps were read one by one.       *)
ReturnedIsCommitted ==
  \A k \in DOMAIN returned :
    LET r == returned[k]
    IN Expected <= Cardinality({i \in Server :
         /\ applied[i][r.index] # 0
         /\ starts[applied[i][r.index]] = r.command})

(* Commands that were committed one after the other have indexes in that   *)
(* order, however often each of them was started.                          *)
ReturnedInOrder ==
  \A k, l \in DOMAIN returned : k < l => returned[k].index < returned[l].index
=============================================================================
