----------------------------- MODULE TesterProofs -----------------------------
(***************************************************************************)
(* Theorems about Tester, for any number of servers, commands, starts and  *)
(* messages in a queue.                                                    *)
(***************************************************************************)
EXTENDS Tester, TLAPS, FiniteSetTheorems, SequenceTheorems

Promise == INSTANCE AgreementProofs WITH
  Node <- Server, Command <- Request, Nothing <- 0,
  started <- 1 .. Len(starts)

ApplyMsg == [index : Index, command : Command]
Listener == [at : {"taking", "checking", "putting", "dead"},
             message : [index : Index \cup {0}, command : Command \cup {0}],
             server : 0 .. NumServers, error : BOOLEAN]

(* A message says what its server has applied.                             *)
IsTrue(i, m) == /\ applied[i][m.index] # 0
                /\ m.command = starts[applied[i][m.index]]

(* The listener of server i has a message for index n in hand.             *)
Holds(i, n) == /\ listener[i].at \in {"checking", "dead"}
               /\ listener[i].message.index = n

(* The entry before that of a message has been handed on before it.        *)
Preceded(i, n) == n = 1 \/ logs[i][n - 1] # 0

(* Message k of the queue comes after the one for the entry before it.     *)
InOrder(i, k) ==
  LET n == queue[i][k].index
  IN Preceded(i, n) \/ Holds(i, n - 1)
     \/ \E l \in 1 .. k - 1 : queue[i][l].index = n - 1

(* The listener has got entry n or has it before it.                       *)
HandedOn(i, n) ==
  \/ logs[i][n] # 0 \/ Holds(i, n)
  \/ \E k \in 1 .. Len(queue[i]) : queue[i][k].index = n

(* What is in a queue is true and in an order without gaps, counting from  *)
(* what the listener has taken; nothing that was applied gets lost.        *)
QueueInv ==
  \A i \in Server :
    /\ \A k \in 1 .. Len(queue[i]) : IsTrue(i, queue[i][k]) /\ InOrder(i, k)
    /\ \A n \in Index : applied[i][n] # 0 => HandedOn(i, n)

(* So is what a listener has in hand, and it has found nothing wrong.      *)
ListenerInv ==
  \A i \in Server :
    /\ listener[i].at \in {"checking", "dead"} =>
         /\ listener[i].message \in ApplyMsg
         /\ IsTrue(i, listener[i].message)
         /\ Preceded(i, listener[i].message.index)
    /\ ~listener[i].error

(* The maps say what has been applied.                                     *)
LogsInv ==
  \A i \in Server, n \in Index : logs[i][n] # 0 =>
    applied[i][n] # 0 /\ logs[i][n] = starts[applied[i][n]]

(* The servers before j whose map has an entry at index n.                 *)
Found(j, n) == {i \in 0 .. j - 1 : logs[i][n] # 0}

(* nCommitted counts no more than there are, of what has been agreed on.   *)
CountInv ==
  /\ test.at = "starting" => test.count = 0
  /\ test.at = "reading" =>
       /\ test.index \in Index
       /\ test.count <= Cardinality(Found(test.server, test.index))
       /\ test.count > 0 => /\ chosen[test.index] # 0
                            /\ test.cmd = starts[chosen[test.index]]

(* The commands are started in order, each after the one before it was     *)
(* returned; whatever is agreed on for a later one lies behind it.         *)
ReturnedInv ==
  /\ \A x \in 1 .. Len(starts) : starts[x] <= test.command
  /\ Len(returned) <= test.command
  /\ test.at \in {"starting", "reading"} => Len(returned) = test.command - 1
  /\ \A k \in 1 .. Len(returned) :
       /\ returned[k].command = k
       /\ chosen[returned[k].index] # 0
       /\ starts[chosen[returned[k].index]] = k
       /\ \A n \in Index : chosen[n] # 0 /\ starts[chosen[n]] > k
                             => n > returned[k].index

TesterInv ==
  /\ TypeOK /\ Promise!AgreementInv
  /\ QueueInv /\ ListenerInv /\ LogsInv /\ CountInv /\ ReturnedInv
  /\ ReturnedIsCommitted /\ ~exited

-----------------------------------------------------------------------------
(***************************************************************************)
(* Facts about states.                                                     *)
(***************************************************************************)

(* The operators of FiniteSets mean the same through an instance.          *)
LEMMA SameCardinality ==
  \A S : /\ Promise!Cardinality(S) = Cardinality(S)
         /\ Service!Cardinality(S) = Cardinality(S)
         /\ Promise!IsFiniteSet(S) <=> IsFiniteSet(S)
BY DEF Promise!Cardinality, Service!Cardinality, Cardinality,
       Promise!IsFiniteSet, IsFiniteSet

LEMMA ConstantsTyped ==
  /\ Promise!Index = Index /\ Service!Index = Index
  /\ IsFiniteSet(Request) /\ Cardinality(Request) = MaxStarts
  /\ 0 \notin Request /\ 0 \notin Command
  /\ IsFiniteSet(Server) /\ Cardinality(Server) = NumServers
<1>1. IsFiniteSet(Request) /\ Cardinality(Request) = MaxStarts
  BY BoundsAssumption, FS_Interval DEF Request
<1>2. IsFiniteSet(Server) /\ Cardinality(Server) = NumServers
  BY ServersAssumption, FS_Interval DEF Server
<1>3. 0 \notin Request /\ 0 \notin Command
  BY BoundsAssumption DEF Request, Command
<1>4. Promise!Index = Index /\ Service!Index = Index
  BY <1>1, SameCardinality DEF Promise!Index, Service!Index, Index
<1> QED
  BY <1>1, <1>2, <1>3, <1>4

(* What is chosen and applied are started requests; all apply the same.    *)
LEMMA AppliedFacts ==
  ASSUME TypeOK, Promise!AgreementInv
  PROVE  /\ \A n \in Index : chosen[n] # 0 =>
              /\ chosen[n] \in 1 .. Len(starts)
              /\ starts[chosen[n]] \in Command
         /\ \A i \in Server, n \in Index : applied[i][n] # 0 =>
              applied[i][n] = chosen[n]
<1>1. \A n \in Index : chosen[n] # 0 => chosen[n] \in 1 .. Len(starts)
  BY ConstantsTyped
     DEF Promise!AgreementInv, Promise!ChosenInv, Promise!Commands
<1>2. \A n \in Index : chosen[n] # 0 => starts[chosen[n]] \in Command
  BY <1>1, ElementOfSeq DEF TypeOK
<1> QED
  BY <1>1, <1>2, ConstantsTyped DEF Promise!AgreementInv, Promise!AppliedInv

(* What a thread reads in a map is nothing or what has been agreed on.     *)
LEMMA ReadableFacts ==
  ASSUME TesterInv, NEW j \in Server, NEW n \in Index, NEW v \in Readable(j, n)
  PROVE  v # 0 => /\ logs[j][n] # 0 /\ v = logs[j][n]
                  /\ chosen[n] # 0 /\ v = starts[chosen[n]] /\ v \in Command
<1> SUFFICES ASSUME v # 0 PROVE logs[j][n] # 0 /\ v = logs[j][n]
                  /\ chosen[n] # 0 /\ v = starts[chosen[n]] /\ v \in Command
  OBVIOUS
<1>1. v = logs[j][n]
  BY DEF Readable
<1>2. applied[j][n] # 0 /\ v = starts[applied[j][n]]
  BY <1>1 DEF TesterInv, LogsInv
<1> QED
  BY <1>1, <1>2, AppliedFacts DEF TesterInv

(* The servers whose map has been found to have an entry.                  *)
LEMMA FoundFacts ==
  ASSUME NEW j \in 0 .. NumServers, NEW n \in Index
  PROVE  /\ IsFiniteSet(Found(j, n))
         /\ Cardinality(Found(j, n)) \in 0 .. j
         /\ j < NumServers =>
              /\ Cardinality(Found(j, n)) <= Cardinality(Found(j + 1, n))
              /\ logs[j][n] # 0 => Cardinality(Found(j + 1, n))
                                    = Cardinality(Found(j, n)) + 1
<1>1. /\ IsFiniteSet(0 .. j - 1) /\ Cardinality(0 .. j - 1) = j
      /\ Found(j, n) \subseteq 0 .. j - 1
  BY ServersAssumption, FS_Interval DEF Found
<1>2. /\ IsFiniteSet(Found(j, n)) /\ Cardinality(Found(j, n)) \in Nat
      /\ Cardinality(Found(j, n)) <= j
  BY <1>1, FS_Subset, FS_CardinalityType
<1>3. ASSUME j < NumServers
      PROVE  /\ Cardinality(Found(j, n)) <= Cardinality(Found(j + 1, n))
             /\ logs[j][n] # 0 => Cardinality(Found(j + 1, n))
                                   = Cardinality(Found(j, n)) + 1
  <2>1. CASE logs[j][n] # 0
    <3>1. Found(j + 1, n) = Found(j, n) \cup {j} /\ j \notin Found(j, n)
      BY <2>1, ServersAssumption DEF Found
    <3> QED
      BY <1>2, <3>1, FS_AddElement
  <2>2. CASE logs[j][n] = 0
    <3>1. Found(j + 1, n) = Found(j, n)
      BY <2>2, ServersAssumption DEF Found
    <3> QED
      BY <1>2, <2>2, <3>1
  <2> QED
    BY <2>1, <2>2
<1> QED
  BY <1>2, <1>3, ServersAssumption

(* Once a command is agreed on and applied it stays so.                    *)
LEMMA ReturnedStays ==
  ASSUME TypeOK, ReturnedIsCommitted, returned' = returned,
         \A i \in Server, n \in Index : applied[i][n] # 0 =>
           applied'[i][n] = applied[i][n] /\ starts'[applied[i][n]] = starts[applied[i][n]]
  PROVE  ReturnedIsCommitted'
<1> DEFINE Has(r) == {i \in Server : /\ applied[i][r.index] # 0
                                     /\ starts[applied[i][r.index]] = r.command}
           HasNow(r) == {i \in Server : /\ applied'[i][r.index] # 0
                                        /\ starts'[applied'[i][r.index]] = r.command}
<1> SUFFICES ASSUME NEW k \in DOMAIN returned
             PROVE  Expected <= Cardinality(HasNow(returned[k]))
  BY DEF ReturnedIsCommitted
<1>0. returned \in Seq(ApplyMsg)
  BY DEF TypeOK, ApplyMsg
<1>1. returned[k] \in ApplyMsg
  BY <1>0, ElementOfSeq, LenProperties
<1>2. Has(returned[k]) \subseteq HasNow(returned[k])
  BY <1>1 DEF ApplyMsg
<1>3. IsFiniteSet(HasNow(returned[k]))
  BY ConstantsTyped, FS_Subset
<1>4. /\ Cardinality(Has(returned[k])) <= Cardinality(HasNow(returned[k]))
      /\ Cardinality(Has(returned[k])) \in Nat
      /\ Cardinality(HasNow(returned[k])) \in Nat
  BY <1>2, <1>3, FS_Subset, FS_CardinalityType
<1>5. Expected <= Cardinality(Has(returned[k])) /\ Expected \in Int
  BY ServersAssumption DEF ReturnedIsCommitted
<1> HIDE DEF Has, HasNow
<1> QED
  BY <1>4, <1>5

-----------------------------------------------------------------------------
(***************************************************************************)
(* The steps.                                                              *)
(***************************************************************************)

(* What an application does to what is agreed on, and to the queue.        *)
LEMMA AppliesFacts ==
  ASSUME TypeOK, Promise!AgreementInv, NEW i \in Server, Applies(i)
  PROVE  /\ Promise!AgreementInv'
         /\ \A j \in Server, n \in Index :
              applied[j][n] # 0 => applied'[j][n] = applied[j][n]
         /\ \A n \in Index : chosen[n] # 0 => chosen'[n] = chosen[n]
         /\ \A m, n \in Index :
              chosen'[n] # chosen[n] /\ chosen[m] # 0 => m < n
         /\ \E q \in 0 .. MaxStarts : \E a \in 1 .. q + 1 :
              /\ \A n \in Index : applied'[i][n] # 0 <=> n <= q
              /\ \A n \in 1 .. a - 1 : applied[i][n] # 0
              /\ queue' = [queue EXCEPT ![i] = @ \o Messages(applied'[i], a, q)]
<1>1. Promise!IsFiniteSet(Request) /\ 0 \notin Request
  BY ConstantsTyped, SameCardinality
<1>2. Promise!Learn(i) \/ Promise!Choose(i)
  <2>1. Service!Learn(i) => Promise!Learn(i)
    BY SameCardinality
       DEF Service!Learn, Promise!Learn, Service!Length, Promise!Length,
           Service!Prefix, Promise!Prefix, Service!Index, Promise!Index
  <2>2. Service!Choose(i) => Promise!Choose(i)
    BY SameCardinality
       DEF Service!Choose, Promise!Choose, Service!Length, Promise!Length,
           Service!Commands, Promise!Commands, Service!Index, Promise!Index
  <2> QED
    BY <2>1, <2>2 DEF Applies
<1>3. /\ Promise!AgreementInv'
      /\ \A j \in Server, n \in Index :
           applied[j][n] # 0 => applied'[j][n] = applied[j][n]
      /\ \A m, n \in Index :
           chosen'[n] # chosen[n] /\ chosen[m] # 0 => m < n
  <2>1. CASE Promise!Learn(i)
    <3>1. chosen' = chosen
      BY <2>1 DEF Promise!Learn
    <3> QED
      BY <1>1, <2>1, <3>1, ConstantsTyped, Promise!LearnKeeps
  <2>2. CASE Promise!Choose(i)
    BY <1>1, <2>2, ConstantsTyped, Promise!ChooseKeeps
  <2> QED
    BY <1>2, <2>1, <2>2
<1>4. \A n \in Index : chosen[n] # 0 => chosen'[n] = chosen[n]
  BY <1>3 DEF Index
<1>5. PICK p \in 0 .. MaxStarts : Promise!Filled(applied[i], p)
  BY ConstantsTyped, SameCardinality DEF Promise!AgreementInv, Promise!AppliedInv
<1>6. PICK q \in 0 .. MaxStarts : Promise!Filled(applied'[i], q)
  BY <1>3, ConstantsTyped, SameCardinality
     DEF Promise!AgreementInv, Promise!AppliedInv
<1>7. Service!Length(applied[i]) = p /\ Service!Length(applied'[i]) = q
  <2>1. /\ Promise!Length(applied[i]) = p
        /\ Promise!Length(applied'[i]) = q
    BY <1>1, <1>5, <1>6, ConstantsTyped, SameCardinality, Promise!LengthOfFilled
  <2> QED
    BY <2>1, SameCardinality
       DEF Service!Length, Promise!Length, Service!Index, Promise!Index
<1>8. p <= q
  BY <1>3, <1>5, <1>6, ConstantsTyped, BoundsAssumption
     DEF Promise!Filled, Index
<1>9. PICK a \in 1 .. p + 1 :
        queue' = [queue EXCEPT ![i] = @ \o Messages(applied'[i], a, q)]
  BY <1>7 DEF Applies
<1>10. a \in 1 .. q + 1
  BY <1>8, BoundsAssumption
<1>11. \A n \in Index : applied'[i][n] # 0 <=> n <= q
  BY <1>6, ConstantsTyped DEF Promise!Filled
<1>12. \A n \in 1 .. a - 1 : applied[i][n] # 0
  BY <1>5, ConstantsTyped, BoundsAssumption DEF Promise!Filled, Index
<1> QED
  BY <1>3, <1>4, <1>9, <1>10, <1>11, <1>12

(* The messages of an application, as a sequence.                          *)
LEMMA MessagesFacts ==
  ASSUME NEW s, NEW q \in 0 .. MaxStarts, NEW a \in 1 .. q + 1,
         \A n \in a .. q : starts[s[n]] \in Command
  PROVE  /\ Messages(s, a, q) \in Seq(ApplyMsg)
         /\ Len(Messages(s, a, q)) = q - a + 1
         /\ \A n \in a .. q : Messages(s, a, q)[n - a + 1]
                               = [index |-> n, command |-> starts[s[n]]]
<1> DEFINE L == q - a + 1
           new == [k \in 1 .. L |->
                     [index |-> a + k - 1, command |-> starts[s[a + k - 1]]]]
<1>1. L \in Nat
  BY BoundsAssumption
<1>2. \A k \in 1 .. L : a + k - 1 \in a .. q /\ a + k - 1 \in Index
  BY BoundsAssumption DEF Index
<1>3. new \in [1 .. L -> ApplyMsg]
  BY <1>2 DEF ApplyMsg
<1>4. \A n \in a .. q : n - a + 1 \in 1 .. L /\ a + (n - a + 1) - 1 = n
  BY BoundsAssumption
<1>5. \A n \in a .. q :
        new[n - a + 1] = [index |-> n, command |-> starts[s[n]]]
  BY <1>4
<1> HIDE DEF L
<1>6. new \in Seq(ApplyMsg)
  BY <1>1, <1>3, SeqDef
<1>7. Len(new) = L
  BY <1>1
<1>8. Messages(s, a, q) = new
  BY DEF Messages, L
<1> QED
  BY <1>5, <1>6, <1>7, <1>8 DEF L

LEMMA Appended ==
  ASSUME NEW S, NEW s \in Seq(S), NEW t \in Seq(S), NEW d \in Nat, Len(t) = d
  PROVE  /\ s \o t \in Seq(S) /\ Len(s \o t) = Len(s) + d
         /\ \A k \in 1 .. Len(s) : (s \o t)[k] = s[k]
         /\ \A k \in 1 .. d : (s \o t)[Len(s) + k] = t[k]
<1>1. /\ s \o t \in Seq(S) /\ Len(s \o t) = Len(s) + Len(t)
      /\ \A k \in 1 .. Len(s) + Len(t) :
           (s \o t)[k] = IF k <= Len(s) THEN s[k] ELSE t[k - Len(s)]
  BY ConcatProperties
<1>2. Len(s) \in Nat
  BY LenProperties
<1>3. \A k \in 1 .. Len(s) : (s \o t)[k] = s[k]
  BY <1>1, <1>2
<1>4. ASSUME NEW k \in 1 .. d
      PROVE  (s \o t)[Len(s) + k] = t[k]
  <2>1. PICK x \in Int : x = Len(s) + k
    BY <1>2
  <2>2. x \in 1 .. Len(s) + Len(t) /\ ~(x <= Len(s)) /\ x - Len(s) = k
    BY <1>2, <2>1
  <2> QED
    BY <1>1, <2>1, <2>2
<1> QED
  BY <1>1, <1>3, <1>4

(* The queue that has got the messages of an application.                  *)
LEMMA QueueAfter ==
  ASSUME TypeOK, Promise!AgreementInv, NEW i \in Server, Applies(i)
  PROVE  /\ queue' \in [Server -> Seq(ApplyMsg)]
         /\ \A j \in Server \ {i} : queue'[j] = queue[j]
         /\ \A k \in 1 .. Len(queue[i]) : queue'[i][k] = queue[i][k]
         /\ \E q \in 0 .. MaxStarts : \E a \in 1 .. q + 1 :
              /\ \A n \in Index : applied'[i][n] # 0 <=> n <= q
              /\ \A n \in 1 .. a - 1 : applied[i][n] # 0
              /\ Len(queue'[i]) = Len(queue[i]) + q - a + 1
              /\ \A n \in a .. q : queue'[i][Len(queue[i]) + n - a + 1]
                   = [index |-> n, command |-> starts[applied'[i][n]]]
<1>1. PICK q \in 0 .. MaxStarts : \E a \in 1 .. q + 1 :
        /\ \A n \in Index : applied'[i][n] # 0 <=> n <= q
        /\ \A n \in 1 .. a - 1 : applied[i][n] # 0
        /\ queue' = [queue EXCEPT ![i] = @ \o Messages(applied'[i], a, q)]
  BY AppliesFacts
<1>2. PICK a \in 1 .. q + 1 :
        /\ \A n \in Index : applied'[i][n] # 0 <=> n <= q
        /\ \A n \in 1 .. a - 1 : applied[i][n] # 0
        /\ queue' = [queue EXCEPT ![i] = @ \o Messages(applied'[i], a, q)]
  BY <1>1
<1>3. ASSUME NEW n \in a .. q
      PROVE  starts[applied'[i][n]] \in Command
  <2>1. n \in Index /\ applied'[i][n] # 0
    BY <1>2, BoundsAssumption DEF Index
  <2>2. Promise!AgreementInv' /\ starts' = starts
    BY AppliesFacts DEF Applies
  <2>3. applied'[i][n] = chosen'[n] /\ chosen'[n] \in 1 .. Len(starts)
    BY <2>1, <2>2, ConstantsTyped
       DEF Promise!AgreementInv, Promise!ChosenInv, Promise!AppliedInv,
           Promise!Commands
  <2> QED
    BY <2>3, ElementOfSeq DEF TypeOK
<1> DEFINE new == Messages(applied'[i], a, q)
<1>4. /\ new \in Seq(ApplyMsg) /\ Len(new) = q - a + 1
      /\ \A n \in a .. q : new[n - a + 1]
                            = [index |-> n, command |-> starts[applied'[i][n]]]
  BY <1>3, MessagesFacts
<1>5. queue[i] \in Seq(ApplyMsg) /\ queue \in [Server -> Seq(ApplyMsg)]
  BY DEF TypeOK, ApplyMsg
<1> HIDE DEF new
<1>6. queue' = [queue EXCEPT ![i] = queue[i] \o new]
  BY <1>2 DEF new
<1>7. PICK len \in Nat : len = Len(queue[i])
  BY <1>5, LenProperties
<1>8. PICK d \in Nat : d = q - a + 1 /\ q \in Int /\ a \in Int
  BY BoundsAssumption
<1>9. /\ queue[i] \o new \in Seq(ApplyMsg)
      /\ Len(queue[i] \o new) = len + d
      /\ \A k \in 1 .. len : (queue[i] \o new)[k] = queue[i][k]
      /\ \A k \in 1 .. d : (queue[i] \o new)[len + k] = new[k]
  <2>1. new \in Seq(ApplyMsg) /\ Len(new) = d /\ queue[i] \in Seq(ApplyMsg)
    BY <1>4, <1>5, <1>8
  <2> QED
    BY <1>7, <2>1, Appended
<1>10. /\ queue' \in [Server -> Seq(ApplyMsg)]
       /\ \A j \in Server \ {i} : queue'[j] = queue[j]
       /\ queue'[i] = queue[i] \o new
  BY <1>5, <1>6, <1>9
<1>11. \A k \in 1 .. d : queue'[i][len + k] = new[k]
  BY <1>9, <1>10
<1>12. ASSUME NEW n \in a .. q
       PROVE  queue'[i][len + n - a + 1]
                = [index |-> n, command |-> starts[applied'[i][n]]]
  <2>1. PICK x \in 1 .. d : x = n - a + 1 /\ len + n - a + 1 = len + x
    BY <1>7, <1>8
  <2>2. queue'[i][len + x] = new[x]
    BY <1>11
  <2>3. new[x] = [index |-> n, command |-> starts[applied'[i][n]]]
    BY <1>4, <2>1
  <2> QED
    BY <2>1, <2>2, <2>3
<1>13. /\ Len(queue'[i]) = len + q - a + 1
       /\ \A k \in 1 .. len : queue'[i][k] = queue[i][k]
  <2>1. Len(queue'[i]) = len + d
    BY <1>9, <1>10
  <2> QED
    BY <1>7, <1>8, <1>9, <1>10, <2>1
<1>14. /\ Len(queue'[i]) = Len(queue[i]) + q - a + 1
       /\ \A n \in a .. q : queue'[i][Len(queue[i]) + n - a + 1]
            = [index |-> n, command |-> starts[applied'[i][n]]]
       /\ \A k \in 1 .. Len(queue[i]) : queue'[i][k] = queue[i][k]
  BY <1>7, <1>12, <1>13
<1> QED
  BY <1>2, <1>10, <1>14

LEMMA QueueGrows ==
  ASSUME TesterInv, NEW i \in Server, Applies(i)
  PROVE  QueueInv'
<1>1. /\ \A j \in Server, n \in Index :
           applied[j][n] # 0 => applied'[j][n] = applied[j][n]
      /\ queue' \in [Server -> Seq(ApplyMsg)]
      /\ \A j \in Server \ {i} : queue'[j] = queue[j]
      /\ \A k \in 1 .. Len(queue[i]) : queue'[i][k] = queue[i][k]
  BY AppliesFacts, QueueAfter DEF TesterInv
<1>2. UNCHANGED <<starts, logs, listener>>
  BY DEF Applies
<1>3. /\ \A j \in Server : queue[j] \in Seq(ApplyMsg) /\ Len(queue[j]) \in Nat
      /\ \A j \in Server : \A k \in 1 .. Len(queue[j]) :
           queue[j][k] \in ApplyMsg
  BY ElementOfSeq, LenProperties DEF TesterInv, TypeOK, ApplyMsg
<1>4. ASSUME NEW j \in Server, NEW k \in 1 .. Len(queue[j])
      PROVE  (IsTrue(j, queue[j][k]) /\ InOrder(j, k))'
  <2>1. /\ queue'[j][k] = queue[j][k]
        /\ \A l \in 1 .. k - 1 : queue'[j][l] = queue[j][l]
    <3>1. \A l \in 1 .. k : l \in 1 .. Len(queue[j])
      BY <1>3
    <3>2. \A l \in 1 .. Len(queue[j]) : queue'[j][l] = queue[j][l]
      BY <1>1
    <3> QED
      BY <1>3, <3>1, <3>2
  <2>2. IsTrue(j, queue[j][k]) /\ InOrder(j, k)
    BY DEF TesterInv, QueueInv
  <2>3. IsTrue(j, queue[j][k])'
    BY <1>1, <1>2, <1>3, <2>1, <2>2 DEF IsTrue, ApplyMsg
  <2>4. InOrder(j, k)'
    BY <1>2, <2>1, <2>2 DEF InOrder, Preceded, Holds
  <2> QED
    BY <2>3, <2>4
<1>5. ASSUME NEW j \in Server, NEW n \in Index, applied[j][n] # 0,
             Len(queue'[j]) >= Len(queue[j])
      PROVE  HandedOn(j, n)'
  <2>1. HandedOn(j, n)
    BY <1>5 DEF TesterInv, QueueInv
  <2>2. Len(queue'[j]) \in Nat
    BY <1>1, LenProperties
  <2>3. \A k \in 1 .. Len(queue[j]) : /\ queue'[j][k] = queue[j][k]
                                      /\ k \in 1 .. Len(queue'[j])
    BY <1>1, <1>3, <1>5, <2>2
  <2> QED
    BY <1>2, <2>1, <2>3 DEF HandedOn, Holds
<1>6. \A j \in Server \ {i} : applied'[j] = applied[j]
  BY DEF Applies, Service!Learn, Service!Choose, TesterInv, TypeOK
<1>7. PICK q \in 0 .. MaxStarts : \E a \in 1 .. q + 1 :
        /\ \A n \in Index : applied'[i][n] # 0 <=> n <= q
        /\ \A n \in 1 .. a - 1 : applied[i][n] # 0
        /\ Len(queue'[i]) = Len(queue[i]) + q - a + 1
        /\ \A n \in a .. q : queue'[i][Len(queue[i]) + n - a + 1]
             = [index |-> n, command |-> starts[applied'[i][n]]]
  BY QueueAfter DEF TesterInv
<1>8. PICK a \in 1 .. q + 1 :
        /\ \A n \in Index : applied'[i][n] # 0 <=> n <= q
        /\ \A n \in 1 .. a - 1 : applied[i][n] # 0
        /\ Len(queue'[i]) = Len(queue[i]) + q - a + 1
        /\ \A n \in a .. q : queue'[i][Len(queue[i]) + n - a + 1]
             = [index |-> n, command |-> starts[applied'[i][n]]]
  BY <1>7
<1>9. PICK len \in Nat : len = Len(queue[i])
  BY <1>3
<1>10. q \in Nat /\ a \in Nat \ {0} /\ a <= q + 1 /\ q <= MaxStarts
  BY BoundsAssumption
<1>11. /\ Len(queue'[i]) = len + q - a + 1
       /\ \A n \in a .. q : queue'[i][len + n - a + 1]
            = [index |-> n, command |-> starts[applied'[i][n]]]
       /\ \A l \in 1 .. len : queue'[i][l] = queue[i][l]
  BY <1>1, <1>8, <1>9
<1>12. ASSUME NEW n \in a .. q, NEW k \in Int, k = len + n - a + 1
       PROVE  /\ k \in 1 .. Len(queue'[i])
              /\ queue'[i][k].index = n
              /\ (IsTrue(i, queue[i][k]) /\ InOrder(i, k))'
  <2>1. k \in 1 .. Len(queue'[i])
    BY <1>9, <1>10, <1>11, <1>12
  <2>2. queue'[i][k] = [index |-> n, command |-> starts[applied'[i][n]]]
    BY <1>11, <1>12
  <2>3. n \in Index /\ applied'[i][n] # 0
    BY <1>8, <1>10, BoundsAssumption DEF Index
  <2>4. IsTrue(i, queue[i][k])'
    BY <1>2, <2>2, <2>3 DEF IsTrue
  <2>5. CASE n = 1
    BY <2>1, <2>2, <2>4, <2>5 DEF InOrder, Preceded
  <2>6. CASE n = a /\ n > 1
    <3>1. a - 1 \in Index /\ applied[i][a - 1] # 0
      BY <1>8, <1>10, <2>6, BoundsAssumption DEF Index
    <3>2. HandedOn(i, a - 1)
      BY <3>1 DEF TesterInv, QueueInv
    <3>3. k - 1 = len
      BY <1>9, <1>10, <1>12, <2>6
    <3>4. \/ logs'[i][n - 1] # 0 \/ Holds(i, n - 1)'
          \/ \E l \in 1 .. k - 1 : queue'[i][l].index = n - 1
      BY <1>2, <1>9, <1>11, <2>6, <3>2, <3>3 DEF HandedOn, Holds
    <3>5. InOrder(i, k)'
      BY <2>2, <3>4 DEF InOrder, Preceded, Holds
    <3> QED
      BY <2>1, <2>2, <2>4, <3>5
  <2>7. CASE n > a
    <3>1. n - 1 \in a .. q
      BY <1>10, <2>7
    <3>2. queue'[i][len + (n - 1) - a + 1]
            = [index |-> n - 1, command |-> starts[applied'[i][n - 1]]]
      BY <1>11, <3>1
    <3>3. len + (n - 1) - a + 1 = k - 1 /\ k - 1 \in 1 .. k - 1
      BY <1>9, <1>10, <1>12, <2>7
    <3>4. InOrder(i, k)'
      BY <2>2, <3>2, <3>3 DEF InOrder
    <3> QED
      BY <2>1, <2>2, <2>4, <3>4
  <2> QED
    BY <1>10, <2>5, <2>6, <2>7
<1>13. ASSUME NEW k \in 1 .. Len(queue'[i])
       PROVE  (IsTrue(i, queue[i][k]) /\ InOrder(i, k))'
  <2>1. CASE k \in 1 .. len
    BY <1>4, <1>9, <2>1
  <2>2. CASE k \notin 1 .. len
    <3>1. k \in 1 .. len + q - a + 1
      BY <1>11
    <3> DEFINE n == k - len + a - 1
    <3>2. k \in Int /\ k > len /\ k <= len + q - a + 1
      BY <1>9, <1>10, <2>2, <3>1, BoundsAssumption
    <3>3. n \in a .. q /\ k = len + n - a + 1 /\ k \in Int
      <4>1. k \in Int /\ len \in Int /\ a \in Int /\ q \in Int
        BY <1>9, <1>10, <3>2
      <4>2. n \in Int /\ n >= a /\ n <= q
        BY <3>2, <4>1
      <4>3. k = len + n - a + 1
        BY <4>1
      <4> QED
        BY <4>1, <4>2, <4>3
    <3> HIDE DEF n
    <3> QED
      BY <1>12, <3>3
  <2> QED
    BY <2>1, <2>2
<1>14. ASSUME NEW n \in Index, applied'[i][n] # 0
       PROVE  HandedOn(i, n)'
  <2>1. CASE n < a
    <3>1. applied[i][n] # 0
      BY <1>8, <2>1 DEF Index
    <3>2. Len(queue'[i]) >= Len(queue[i])
      BY <1>9, <1>10, <1>11
    <3> QED
      BY <1>5, <3>1, <3>2
  <2>2. CASE n >= a
    <3>1. n \in a .. q
      BY <1>8, <1>10, <1>14, <2>2 DEF Index
    <3> DEFINE k == len + n - a + 1
    <3>2. k \in Int
      BY <1>9, <1>10, <3>1, BoundsAssumption
    <3>3. k \in 1 .. Len(queue'[i]) /\ queue'[i][k].index = n
      BY <1>12, <3>1, <3>2
    <3> QED
      BY <3>3 DEF HandedOn
  <2> QED
    BY <1>10, <2>1, <2>2 DEF Index
<1>15. \A j \in Server \ {i}, n \in Index :
         applied'[j][n] # 0 => HandedOn(j, n)'
  BY <1>1, <1>3, <1>5, <1>6
<1>16. \A j \in Server \ {i} : \A k \in 1 .. Len(queue'[j]) :
         (IsTrue(j, queue[j][k]) /\ InOrder(j, k))'
  BY <1>1, <1>4
<1> QED
  BY <1>13, <1>14, <1>15, <1>16 DEF QueueInv

(* A server applies.                                                       *)
LEMMA AppliesKeeps ==
  ASSUME TesterInv, NEW i \in Server, Applies(i)
  PROVE  TesterInv'
<1>1. /\ Promise!AgreementInv'
      /\ \A j \in Server, n \in Index :
           applied[j][n] # 0 => applied'[j][n] = applied[j][n]
      /\ \A n \in Index : chosen[n] # 0 => chosen'[n] = chosen[n]
      /\ \A m, n \in Index :
           chosen'[n] # chosen[n] /\ chosen[m] # 0 => m < n
      /\ queue' \in [Server -> Seq(ApplyMsg)]
  BY AppliesFacts, QueueAfter DEF TesterInv
<1>2. UNCHANGED <<starts, logs, listener, test, returned, exited>>
  BY DEF Applies
<1>3. TypeOK'
  <2>1. /\ chosen' \in [Index -> Request \cup {0}]
        /\ applied' \in [Server -> [Index -> Request \cup {0}]]
    BY <1>1, ConstantsTyped
       DEF Promise!AgreementInv, Promise!ChosenInv, Promise!AppliedInv,
           Promise!Sequence
  <2> QED
    BY <1>1, <1>2, <2>1 DEF TesterInv, TypeOK, ApplyMsg
<1>4. QueueInv'
  BY QueueGrows
<1>5. ListenerInv'
  BY <1>1, <1>2 DEF TesterInv, ListenerInv, IsTrue, Preceded, ApplyMsg
<1>6. LogsInv'
  BY <1>1, <1>2 DEF TesterInv, LogsInv
<1>7. CountInv'
  BY <1>1, <1>2 DEF TesterInv, CountInv, Found
<1>8. ReturnedInv'
  <2>1. returned \in Seq(ApplyMsg)
    BY DEF TesterInv, TypeOK, ApplyMsg
  <2>2. \A k \in 1 .. Len(returned) : returned[k] \in ApplyMsg
    BY <2>1, ElementOfSeq
  <2>3. \A k \in 1 .. Len(returned) : returned[k].index \in Index
    BY <2>2 DEF ApplyMsg
  <2>4. ReturnedInv /\ \A k \in 1 .. Len(returned) : k \in Int
    BY DEF TesterInv
  <2>5. ASSUME NEW k \in 1 .. Len(returned)
        PROVE  /\ chosen[returned[k].index] # 0
               /\ chosen'[returned[k].index] = chosen[returned[k].index]
               /\ \A n \in Index : chosen'[n] # 0 /\ starts[chosen'[n]] > k
                                    => n > returned[k].index
    <3>1. chosen[returned[k].index] # 0
      BY <2>4 DEF ReturnedInv
    <3>2. \A n \in Index : chosen'[n] # chosen[n] => returned[k].index < n
      BY <1>1, <2>3, <3>1
    <3>3. \A n \in Index : chosen[n] # 0 /\ starts[chosen[n]] > k
                            => n > returned[k].index
      BY <2>4 DEF ReturnedInv
    <3> QED
      BY <1>1, <2>3, <3>1, <3>2, <3>3
  <2> QED
    BY <1>2, <2>4, <2>5 DEF ReturnedInv
<1>9. ReturnedIsCommitted'
  BY <1>1, <1>2, ReturnedStays DEF TesterInv
<1> QED
  BY <1>1, <1>2, <1>3, <1>4, <1>5, <1>6, <1>7, <1>8, <1>9 DEF TesterInv

(* What a listener leaves alone.                                           *)
LEMMA PartsStay ==
  ASSUME Promise!AgreementInv, LogsInv, CountInv,
         UNCHANGED <<starts, chosen, applied, logs, test>>
  PROVE  (Promise!AgreementInv /\ LogsInv /\ CountInv)'
<1>1. Promise!AgreementInv'
  <2>1. Promise!ChosenInv'
    BY DEF Promise!AgreementInv, Promise!ChosenInv, Promise!Filled,
           Promise!Commands
  <2>2. Promise!AppliedInv'
    BY DEF Promise!AgreementInv, Promise!AppliedInv, Promise!Filled
  <2> QED
    BY <2>1, <2>2 DEF Promise!AgreementInv
<1>2. LogsInv'
  BY DEF LogsInv
<1>3. CountInv'
  BY DEF CountInv, Found
<1> QED
  BY <1>1, <1>2, <1>3

LEMMA ListenerReplaced ==
  ASSUME listener \in [Server -> Listener], NEW i \in Server,
         NEW r \in Listener, listener' = [listener EXCEPT ![i] = r]
  PROVE  /\ listener' \in [Server -> Listener] /\ listener'[i] = r
         /\ \A k \in Server \ {i} : listener'[k] = listener[k]
OBVIOUS

(* Three fields of a listener change.                                      *)
LEMMA ListenerTyped ==
  ASSUME listener \in [Server -> Listener], NEW i \in Server,
         NEW at \in {"taking", "checking", "putting", "dead"},
         NEW m \in [index : Index \cup {0}, command : Command \cup {0}],
         NEW j \in 0 .. NumServers,
         listener' = [listener EXCEPT ![i].at = at, ![i].message = m,
                                      ![i].server = j]
  PROVE  /\ listener' \in [Server -> Listener]
         /\ listener'[i].at = at /\ listener'[i].message = m
         /\ listener'[i].error = listener[i].error
         /\ \A k \in Server \ {i} : listener'[k] = listener[k]
<1> DEFINE r == [listener[i] EXCEPT !.at = at, !.message = m, !.server = j]
<1>1. listener[i] \in Listener
  OBVIOUS
<1>2. /\ r \in Listener /\ r.at = at /\ r.message = m
      /\ r.error = listener[i].error
  BY <1>1 DEF Listener
<1>3. listener' = [listener EXCEPT ![i] = r]
  OBVIOUS
<1> HIDE DEF r
<1>4. /\ listener' \in [Server -> Listener] /\ listener'[i] = r
      /\ \A k \in Server \ {i} : listener'[k] = listener[k]
  BY <1>2, <1>3, ListenerReplaced
<1>5. /\ listener'[i].at = at /\ listener'[i].message = m
      /\ listener'[i].error = listener[i].error
  BY <1>2, <1>4
<1> QED
  BY <1>4, <1>5

(* A listener takes the next message of its queue.                         *)
LEMMA TakeKeeps ==
  ASSUME TesterInv, NEW i \in Server, Take(i)
  PROVE  TesterInv'
<1>1. /\ listener[i].at = "taking" /\ queue[i] # <<>>
      /\ listener' = [listener EXCEPT ![i].at = "checking",
                                      ![i].message = Head(queue[i]),
                                      ![i].server = 0]
      /\ queue' = [queue EXCEPT ![i] = Tail(queue[i])]
      /\ UNCHANGED <<starts, chosen, applied, logs, test, returned, exited>>
  BY DEF Take, TesterInv, TypeOK
<1>2. /\ queue \in [Server -> Seq(ApplyMsg)] /\ queue[i] \in Seq(ApplyMsg)
      /\ listener \in [Server -> Listener]
  BY DEF TesterInv, TypeOK, ApplyMsg, Listener
<1>3. PICK len \in Nat \ {0} : len = Len(queue[i])
  BY <1>1, <1>2, EmptySeq
<1>4. /\ Head(queue[i]) = queue[i][1] /\ queue[i][1] \in ApplyMsg
      /\ Tail(queue[i]) \in Seq(ApplyMsg) /\ Len(Tail(queue[i])) = len - 1
      /\ \A k \in 1 .. len - 1 : Tail(queue[i])[k] = queue[i][k + 1]
  BY <1>1, <1>2, <1>3, HeadTailProperties
<1>5. /\ queue' \in [Server -> Seq(ApplyMsg)]
      /\ \A j \in Server \ {i} : queue'[j] = queue[j]
      /\ Len(queue'[i]) = len - 1
      /\ \A k \in 1 .. len - 1 : queue'[i][k] = queue[i][k + 1]
  BY <1>1, <1>2, <1>4
<1>6. /\ \A j \in Server \ {i} : listener'[j] = listener[j]
      /\ listener'[i].at = "checking"
      /\ listener'[i].message = queue[i][1]
      /\ listener'[i].error = listener[i].error
      /\ listener' \in [Server -> Listener]
  <2>1. 0 \in 0 .. NumServers
    BY ServersAssumption
  <2>2. queue[i][1] \in [index : Index \cup {0}, command : Command \cup {0}]
    BY <1>4 DEF ApplyMsg
  <2>3. listener' = [listener EXCEPT ![i].at = "checking",
                                     ![i].message = queue[i][1],
                                     ![i].server = 0]
    BY <1>1, <1>4
  <2>4. "checking" \in {"taking", "checking", "putting", "dead"}
    OBVIOUS
  <2> QED
    BY <1>2, <2>1, <2>2, <2>3, <2>4, ListenerTyped
<1>7. TypeOK'
  <2>3. listener' \in [Server -> Listener]
    BY <1>6
  <2>4. UNCHANGED <<starts, chosen, applied, logs, test, returned, exited>>
    BY <1>1
  <2>5. TypeOK /\ queue' \in [Server -> Seq(ApplyMsg)]
    BY <1>5 DEF TesterInv
  <2> QED
    BY <2>3, <2>4, <2>5 DEF TypeOK, ApplyMsg, Listener
<1>8. \A n \in Int : ~Holds(i, n)
  BY <1>1 DEF Holds
<1>9. \A n : Holds(i, n)' <=> queue[i][1].index = n
  BY <1>6 DEF Holds
<1>10. ASSUME NEW k \in 1 .. len
       PROVE  /\ queue[i][k] \in ApplyMsg /\ IsTrue(i, queue[i][k])
              /\ InOrder(i, k)
  BY <1>2, <1>3, ElementOfSeq DEF TesterInv, QueueInv
<1>11. ASSUME NEW k \in 1 .. len - 1
       PROVE  (IsTrue(i, queue[i][k]) /\ InOrder(i, k))'
  <2>1. k + 1 \in 1 .. len /\ queue'[i][k] = queue[i][k + 1]
    BY <1>3, <1>5
  <2>2. IsTrue(i, queue[i][k + 1]) /\ InOrder(i, k + 1)
    BY <1>10, <2>1
  <2>3. queue[i][k + 1].index - 1 \in Int
    BY <1>10, <2>1 DEF ApplyMsg, Index
  <2>4. CASE Preceded(i, queue[i][k + 1].index)
    BY <1>1, <2>1, <2>2, <2>4 DEF IsTrue, InOrder, Preceded
  <2>5. ASSUME NEW l \in 1 .. k, queue[i][l].index = queue[i][k + 1].index - 1
        PROVE  InOrder(i, k)'
    <3>1. CASE l = 1
      BY <1>9, <2>1, <2>5, <3>1 DEF InOrder
    <3>2. CASE l > 1
      <4>1. l - 1 \in 1 .. len - 1 /\ (l - 1) + 1 = l /\ l - 1 \in 1 .. k - 1
        BY <1>3, <3>2
      <4>2. queue'[i][l - 1] = queue[i][l]
        BY <1>5, <4>1
      <4> QED
        BY <2>1, <2>5, <4>1, <4>2 DEF InOrder
    <3> QED
      BY <3>1, <3>2
  <2>6. (k + 1) - 1 = k
    OBVIOUS
  <2> QED
    BY <1>1, <1>8, <2>1, <2>2, <2>3, <2>4, <2>5, <2>6 DEF IsTrue, InOrder
<1>12. ASSUME NEW n \in Index, applied[i][n] # 0
       PROVE  HandedOn(i, n)'
  <2>1. HandedOn(i, n) /\ n \in Int
    BY <1>12 DEF TesterInv, QueueInv, Index
  <2>2. CASE logs[i][n] # 0
    BY <1>1, <2>2 DEF HandedOn
  <2>3. ASSUME NEW k \in 1 .. len, queue[i][k].index = n
        PROVE  HandedOn(i, n)'
    <3>1. CASE k = 1
      BY <1>9, <2>3, <3>1 DEF HandedOn
    <3>2. CASE k > 1
      <4>1. k - 1 \in 1 .. len - 1 /\ (k - 1) + 1 = k
        BY <1>3, <3>2
      <4>2. queue'[i][k - 1] = queue[i][k]
        BY <1>5, <4>1
      <4> QED
        BY <1>5, <2>3, <4>1, <4>2 DEF HandedOn
    <3> QED
      BY <3>1, <3>2
  <2> QED
    BY <1>3, <1>8, <2>1, <2>2, <2>3 DEF HandedOn
<1>13. ASSUME NEW j \in Server \ {i}
       PROVE  /\ \A k \in 1 .. Len(queue'[j]) :
                   (IsTrue(j, queue[j][k]) /\ InOrder(j, k))'
              /\ \A n \in Index : applied'[j][n] # 0 => HandedOn(j, n)'
  <2>1. /\ queue'[j] = queue[j] /\ listener'[j] = listener[j]
        /\ UNCHANGED <<starts, applied, logs>>
    BY <1>1, <1>5, <1>6
  <2>2. /\ \A k \in 1 .. Len(queue[j]) : IsTrue(j, queue[j][k]) /\ InOrder(j, k)
        /\ \A n \in Index : applied[j][n] # 0 => HandedOn(j, n)
    BY DEF TesterInv, QueueInv
  <2>3. \A k : IsTrue(j, queue[j][k])' <=> IsTrue(j, queue[j][k])
    BY <2>1 DEF IsTrue
  <2>4. \A k : InOrder(j, k)' <=> InOrder(j, k)
    BY <2>1 DEF InOrder, Preceded, Holds
  <2>5. \A n : HandedOn(j, n)' <=> HandedOn(j, n)
    BY <2>1 DEF HandedOn, Holds
  <2> QED
    BY <2>1, <2>2, <2>3, <2>4, <2>5
<1>14. QueueInv'
  BY <1>1, <1>5, <1>11, <1>12, <1>13 DEF QueueInv
<1>15. ListenerInv'
  <2>1. IsTrue(i, queue[i][1]) /\ Preceded(i, queue[i][1].index)
    <3>1. 1 \in 1 .. len /\ 1 .. 1 - 1 = {}
      BY <1>3
    <3>2. queue[i][1].index - 1 \in Int
      BY <1>4 DEF ApplyMsg, Index
    <3> QED
      BY <1>8, <1>10, <3>1, <3>2 DEF InOrder
  <2>2. (listener[i].at \in {"checking", "dead"} =>
          /\ listener[i].message \in ApplyMsg
          /\ IsTrue(i, listener[i].message)
          /\ Preceded(i, listener[i].message.index))'
    BY <1>1, <1>4, <1>6, <2>1 DEF IsTrue, Preceded
  <2>3. ~listener'[i].error
    BY <1>6 DEF TesterInv, ListenerInv
  <2>4. \A j \in Server \ {i} :
          (/\ listener[j].at \in {"checking", "dead"} =>
                /\ listener[j].message \in ApplyMsg
                /\ IsTrue(j, listener[j].message)
                /\ Preceded(j, listener[j].message.index)
           /\ ~listener[j].error)'
    BY <1>1, <1>6 DEF TesterInv, ListenerInv, IsTrue, Preceded
  <2> QED
    BY <2>2, <2>3, <2>4 DEF ListenerInv
<1>16. (Promise!AgreementInv /\ LogsInv /\ CountInv)'
  BY <1>1, PartsStay DEF TesterInv
<1>17. (ReturnedInv /\ ReturnedIsCommitted)'
  BY <1>1, ReturnedStays DEF TesterInv, ReturnedInv
<1> QED
  BY <1>1, <1>7, <1>14, <1>15, <1>16, <1>17 DEF TesterInv

(* What a listener does besides taking changes no queue.                   *)
LEMMA ListenerStep ==
  ASSUME TesterInv, NEW i \in Server,
         listener' \in [Server -> Listener],
         \A j \in Server \ {i} : listener'[j] = listener[j],
         UNCHANGED <<starts, chosen, applied, queue, logs, test, returned>>,
         \A n : Holds(i, n) <=> Holds(i, n)',
         ~exited', exited' \in BOOLEAN, ListenerInv'
  PROVE  TesterInv'
<1>1. TypeOK'
  <2>1. TypeOK
    BY DEF TesterInv
  <2> QED
    BY <2>1 DEF TypeOK, Listener
<1>2. QueueInv'
  <2>1. \A j \in Server : \A n : Holds(j, n)' <=> Holds(j, n)
    BY DEF Holds
  <2> QED
    BY <2>1 DEF TesterInv, QueueInv, IsTrue, InOrder, HandedOn, Preceded
<1>3. (Promise!AgreementInv /\ LogsInv /\ CountInv)'
  BY PartsStay DEF TesterInv
<1>4. (ReturnedInv /\ ReturnedIsCommitted)'
  BY ReturnedStays DEF TesterInv, ReturnedInv
<1> QED
  BY <1>1, <1>2, <1>3, <1>4 DEF TesterInv

(* A listener compares its message with the map of another.                *)
LEMMA CheckOtherKeeps ==
  ASSUME TesterInv, NEW i \in Server, CheckOther(i)
  PROVE  TesterInv'
<1> DEFINE j == listener[i].server
           m == listener[i].message
<1>1. /\ listener[i].at = "checking" /\ listener \in [Server -> Listener]
      /\ m \in ApplyMsg /\ IsTrue(i, m) /\ Preceded(i, m.index)
      /\ ~listener[i].error /\ listener[i].error = FALSE
  BY DEF CheckOther, TesterInv, ListenerInv, TypeOK, Listener
<1>2. j \in Server
  BY <1>1, ServersAssumption DEF CheckOther, Server, Listener
<1>3. ASSUME NEW old \in Readable(j, m.index)
      PROVE  old \in {0, m.command}
  <2>1. m.index \in Index
    BY <1>1 DEF ApplyMsg
  <2>2. old # 0 => old = starts[chosen[m.index]]
    BY <1>2, <2>1, ReadableFacts
  <2>3. m.command = starts[chosen[m.index]]
    BY <1>1, <2>1, AppliedFacts DEF TesterInv, IsTrue
  <2> QED
    BY <2>2, <2>3
<1>4. UNCHANGED <<starts, chosen, applied, queue, logs, test, returned, exited>>
  BY DEF CheckOther, service
<1>5. /\ listener' \in [Server -> Listener]
      /\ \A k \in Server \ {i} : listener'[k] = listener[k]
      /\ listener'[i].at \in {"checking", "dead"}
      /\ listener'[i].message = m
      /\ ~listener'[i].error
  <2>1. CASE \E old \in Readable(j, m.index) :
               listener' = [listener EXCEPT ![i].server = @ + 1,
                 ![i].error = @ \/ old \notin {0, m.command}]
    <3>1. PICK next \in 0 .. NumServers : next = j + 1
      BY <1>2, ServersAssumption DEF Server
    <3>2. PICK e \in BOOLEAN :
            /\ e = FALSE
            /\ listener' = [listener EXCEPT ![i].server = next, ![i].error = e]
      BY <1>1, <1>3, <2>1, <3>1 DEF Listener
    <3> QED
      BY <1>1, <3>2 DEF Listener
  <2>2. CASE listener' = [listener EXCEPT ![i].at = "dead"]
    BY <1>1, <2>2 DEF Listener
  <2> QED
    BY <2>1, <2>2 DEF CheckOther
<1>6. ListenerInv'
  BY <1>1, <1>4, <1>5 DEF TesterInv, ListenerInv, IsTrue, Preceded
<1>7. \A n : Holds(i, n) <=> Holds(i, n)'
  BY <1>1, <1>5 DEF Holds
<1> QED
  <2>1. ~exited' /\ exited' \in BOOLEAN
    BY <1>4 DEF TesterInv, TypeOK
  <2> QED
    BY <1>4, <1>5, <1>6, <1>7, <2>1, ListenerStep

(* A listener is done with a message.                                      *)
LEMMA PutDoneKeeps ==
  ASSUME TesterInv, NEW i \in Server, PutDone(i)
  PROVE  TesterInv'
<1>1. /\ listener[i].at = "putting" /\ ~listener[i].error
      /\ exited' = listener[i].error
      /\ listener' = [listener EXCEPT ![i] = Listening]
      /\ listener \in [Server -> Listener]
      /\ UNCHANGED <<starts, chosen, applied, queue, logs, test, returned>>
  BY DEF PutDone, service, TesterInv, ListenerInv, TypeOK, Listener
<1>2. Listening \in Listener /\ Listening.at = "taking" /\ ~Listening.error
  BY ServersAssumption DEF Listening, NoMessage, Listener
<1>3. /\ listener' \in [Server -> Listener]
      /\ \A k \in Server \ {i} : listener'[k] = listener[k]
      /\ listener'[i] = Listening
  BY <1>1, <1>2
<1>4. ListenerInv'
  BY <1>1, <1>2, <1>3 DEF TesterInv, ListenerInv, IsTrue, Preceded
<1>5. \A n : Holds(i, n) <=> Holds(i, n)'
  BY <1>1, <1>2, <1>3 DEF Holds
<1>6. ~exited' /\ exited' \in BOOLEAN
  BY <1>1 DEF Listener
<1> QED
  BY <1>1, <1>3, <1>4, <1>5, <1>6, ListenerStep

(* A listener puts its message into its map.                               *)
LEMMA PutKeeps ==
  ASSUME TesterInv, NEW i \in Server, Put(i)
  PROVE  TesterInv'
<1>1. PICK m \in ApplyMsg : m = listener[i].message
  BY DEF Put, TesterInv, ListenerInv
<1>2. /\ listener[i].at = "checking" /\ listener \in [Server -> Listener]
      /\ IsTrue(i, m) /\ Preceded(i, m.index)
      /\ ~listener[i].error /\ listener[i].error = FALSE
  BY <1>1 DEF Put, TesterInv, ListenerInv, TypeOK, Listener
<1>3. /\ logs' = [logs EXCEPT ![i][m.index] = m.command]
      /\ UNCHANGED <<starts, chosen, applied, queue, test, returned, exited>>
  BY <1>1 DEF Put, service
<1>4. m.index \in Index /\ m.command \in Command /\ m.command # 0
  BY <1>1, ConstantsTyped DEF ApplyMsg
<1>5. /\ logs' \in [Server -> [Index -> Command \cup {0}]]
      /\ logs'[i][m.index] = m.command
      /\ \A j \in Server, n \in Index :
           (j # i \/ n # m.index) => logs'[j][n] = logs[j][n]
      /\ \A j \in Server, n \in Index : logs[j][n] # 0 => logs'[j][n] # 0
      /\ \A j \in Server \ {i} : logs'[j] = logs[j]
  BY <1>3, <1>4 DEF TesterInv, TypeOK
<1>6. /\ listener' \in [Server -> Listener]
      /\ \A k \in Server \ {i} : listener'[k] = listener[k]
      /\ listener'[i].at = "putting" /\ ~listener'[i].error
  <2>1. PreviousOk(i)
    BY <1>1, <1>2 DEF PreviousOk, Preceded
  <2>2. PICK e \in BOOLEAN :
          /\ e = FALSE
          /\ listener' = [listener EXCEPT ![i].at = "putting", ![i].error = e]
    BY <1>2, <2>1 DEF Put, Listener
  <2> QED
    BY <1>2, <2>2 DEF Listener
<1>7. TypeOK'
  <2>1. TypeOK
    BY DEF TesterInv
  <2> QED
    BY <1>3, <1>5, <1>6, <2>1 DEF TypeOK, Listener
<1>8. \A n : Holds(i, n) <=> n = m.index
  BY <1>1, <1>2 DEF Holds
<1>10. \A n \in Index : Preceded(i, n) \/ Holds(i, n - 1)
                        => n = 1 \/ logs'[i][n - 1] # 0
  BY <1>4, <1>5, <1>8, BoundsAssumption DEF Preceded, Index
<1>11. QueueInv'
  <2>1. ASSUME NEW k \in 1 .. Len(queue[i])
        PROVE  (IsTrue(i, queue[i][k]) /\ InOrder(i, k))'
    <3>1. queue[i] \in Seq(ApplyMsg)
      BY DEF TesterInv, TypeOK, ApplyMsg
    <3>2. queue[i][k] \in ApplyMsg
      BY <3>1, ElementOfSeq
    <3>3. PICK n \in Index : n = queue[i][k].index
      BY <3>2 DEF ApplyMsg
    <3>4. IsTrue(i, queue[i][k]) /\ InOrder(i, k)
      BY DEF TesterInv, QueueInv
    <3>5. \/ n = 1 \/ logs'[i][n - 1] # 0
          \/ \E l \in 1 .. k - 1 : queue'[i][l].index = n - 1
      BY <1>3, <1>10, <3>3, <3>4 DEF InOrder
    <3>6. InOrder(i, k)'
      BY <1>3, <3>3, <3>5 DEF InOrder, Preceded
    <3> QED
      BY <1>3, <3>4, <3>6 DEF IsTrue
  <2>2. ASSUME NEW n \in Index, applied[i][n] # 0
        PROVE  HandedOn(i, n)'
    <3>1. HandedOn(i, n)
      BY <2>2 DEF TesterInv, QueueInv
    <3> QED
      BY <1>3, <1>4, <1>5, <1>8, <3>1 DEF HandedOn
  <2>3. ASSUME NEW j \in Server \ {i}
        PROVE  /\ \A k \in 1 .. Len(queue[j]) :
                    (IsTrue(j, queue[j][k]) /\ InOrder(j, k))'
               /\ \A n \in Index : applied[j][n] # 0 => HandedOn(j, n)'
    <3>1. /\ listener'[j] = listener[j] /\ logs'[j] = logs[j]
          /\ UNCHANGED <<starts, applied, queue>>
      BY <1>3, <1>5, <1>6
    <3>2. /\ \A k \in 1 .. Len(queue[j]) :
               IsTrue(j, queue[j][k]) /\ InOrder(j, k)
          /\ \A n \in Index : applied[j][n] # 0 => HandedOn(j, n)
      BY DEF TesterInv, QueueInv
    <3>3. \A k : IsTrue(j, queue[j][k])' <=> IsTrue(j, queue[j][k])
      BY <3>1 DEF IsTrue
    <3>4. \A k : InOrder(j, k)' <=> InOrder(j, k)
      BY <3>1 DEF InOrder, Preceded, Holds
    <3>5. \A n : HandedOn(j, n)' <=> HandedOn(j, n)
      BY <3>1 DEF HandedOn, Holds
    <3> QED
      BY <3>2, <3>3, <3>4, <3>5
  <2> QED
    BY <1>3, <2>1, <2>2, <2>3 DEF QueueInv
<1>12. ListenerInv'
  <2>1. ASSUME NEW j \in Server \ {i}
        PROVE  (/\ listener[j].at \in {"checking", "dead"} =>
                     /\ listener[j].message \in ApplyMsg
                     /\ IsTrue(j, listener[j].message)
                     /\ Preceded(j, listener[j].message.index)
                /\ ~listener[j].error)'
    BY <1>3, <1>5, <1>6 DEF TesterInv, ListenerInv, IsTrue, Preceded
  <2> QED
    BY <1>6, <2>1 DEF ListenerInv
<1>13. LogsInv'
  BY <1>2, <1>3, <1>4, <1>5 DEF TesterInv, LogsInv, IsTrue
<1>14. CountInv'
  <2>1. CASE test.at = "reading"
    <3>1. test.index \in Index /\ test.server \in 0 .. NumServers
      BY <2>1 DEF TesterInv, CountInv, TypeOK
    <3> DEFINE F == Found(test.server, test.index)
               G == {k \in 0 .. test.server - 1 : logs'[k][test.index] # 0}
    <3>2. \A k \in 0 .. test.server - 1 : k \in Server
      BY <3>1, ServersAssumption DEF Server
    <3>3. F \subseteq G
      BY <1>5, <3>1, <3>2 DEF Found
    <3>4. G \subseteq Server
      BY <3>2
    <3>5. IsFiniteSet(G)
      BY <3>4, ConstantsTyped, FS_Subset
    <3>6. /\ Cardinality(F) <= Cardinality(G) /\ Cardinality(F) \in Nat
          /\ Cardinality(G) \in Nat
      BY <3>3, <3>5, FS_Subset, FS_CardinalityType
    <3>7. test.count <= Cardinality(F) /\ test.count \in Int
      BY <2>1, ServersAssumption DEF TesterInv, CountInv, TypeOK
    <3>8. Found(test.server, test.index)' = G
      BY <1>3 DEF Found
    <3> HIDE DEF F, G
    <3>9. (test.count <= Cardinality(Found(test.server, test.index)))'
      BY <1>3, <3>6, <3>7, <3>8
    <3> QED
      BY <1>3, <3>9 DEF TesterInv, CountInv
  <2>2. CASE test.at # "reading"
    BY <1>3, <2>2 DEF TesterInv, CountInv
  <2> QED
    BY <2>1, <2>2
<1>15. (Promise!AgreementInv /\ ReturnedInv /\ ReturnedIsCommitted)'
  BY <1>3, ReturnedStays
     DEF TesterInv, ReturnedInv,
         Promise!AgreementInv, Promise!ChosenInv, Promise!AppliedInv,
         Promise!Filled, Promise!Commands
<1> QED
  BY <1>3, <1>7, <1>11, <1>12, <1>13, <1>14, <1>15 DEF TesterInv

(* What the thread of the test does besides starting a command changes     *)
(* nothing of the nodes and the listeners.                                 *)
LEMMA TestStep ==
  ASSUME TesterInv,
         UNCHANGED <<starts, chosen, applied, queue, logs, listener>>,
         TypeOK', CountInv', ReturnedInv', ReturnedIsCommitted', ~exited'
  PROVE  TesterInv'
<1>1. QueueInv'
  BY DEF TesterInv, QueueInv, IsTrue, InOrder, HandedOn, Preceded, Holds
<1>2. ListenerInv'
  BY DEF TesterInv, ListenerInv, IsTrue, Preceded
<1>3. (Promise!AgreementInv /\ LogsInv)'
  BY DEF TesterInv, LogsInv, Promise!AgreementInv, Promise!ChosenInv,
         Promise!AppliedInv, Promise!Filled, Promise!Commands
<1> QED
  BY <1>1, <1>2, <1>3 DEF TesterInv

Test == [at : {"starting", "reading", "dead", "done"},
         command : Command, index : Index \cup {0},
         server : 0 .. NumServers, count : 0 .. NumServers,
         cmd : Command \cup {0}]

(* The thread of the test has an index for its command.                    *)
LEMMA StartTakenKeeps ==
  ASSUME TesterInv, StartTaken
  PROVE  TesterInv'
<1>1. PICK n \in Index :
        /\ test.at = "starting" /\ Len(starts) < MaxStarts
        /\ starts' = Append(starts, test.command)
        /\ test' = [test EXCEPT !.at = "reading", !.index = n]
        /\ UNCHANGED <<chosen, applied, queue, logs, listener, returned, exited>>
  BY DEF StartTaken
<1>2. test \in Test /\ starts \in Seq(Command) /\ TypeOK
  BY DEF TesterInv, TypeOK, Test
<1>3. /\ starts' \in Seq(Command)
      /\ Len(starts) \in Nat /\ Len(starts') = Len(starts) + 1
      /\ \A x \in 1 .. Len(starts) : starts'[x] = starts[x]
      /\ starts'[Len(starts) + 1] = test.command
  BY <1>1, <1>2, AppendProperties, LenProperties DEF Test
<1>4. /\ test' \in Test /\ test'.at = "reading" /\ test'.index = n
      /\ test'.command = test.command /\ test'.count = test.count
      /\ test'.server = test.server
  BY <1>1, <1>2 DEF Test
<1>5. /\ \A m \in Index : chosen[m] # 0 =>
           chosen[m] \in 1 .. Len(starts) /\ starts'[chosen[m]] = starts[chosen[m]]
      /\ \A j \in Server, m \in Index : applied[j][m] # 0 =>
           starts'[applied[j][m]] = starts[applied[j][m]]
  BY <1>3, AppliedFacts DEF TesterInv
<1>6. TypeOK'
  BY <1>1, <1>2, <1>3, <1>4 DEF TypeOK, Test
<1>7. Promise!AgreementInv'
  <2>1. 1 .. Len(starts') \subseteq Request
    BY <1>1, <1>3, BoundsAssumption DEF Request
  <2>2. 1 .. Len(starts) \subseteq 1 .. Len(starts')
    BY <1>3
  <2> QED
    BY <1>1, <2>1, <2>2
       DEF TesterInv, Promise!AgreementInv, Promise!ChosenInv,
           Promise!AppliedInv, Promise!Filled, Promise!Commands
<1>8. QueueInv'
  <2>1. ASSUME NEW j \in Server, NEW k \in 1 .. Len(queue[j])
        PROVE  IsTrue(j, queue[j][k])'
    <3>1. queue[j] \in Seq(ApplyMsg)
      BY <1>2 DEF TypeOK, ApplyMsg
    <3>2. queue[j][k] \in ApplyMsg
      BY <3>1, ElementOfSeq
    <3>3. PICK m \in Index : m = queue[j][k].index
      BY <3>2 DEF ApplyMsg
    <3>4. applied[j][m] # 0 /\ queue[j][k].command = starts[applied[j][m]]
      BY <3>3 DEF TesterInv, QueueInv, IsTrue
    <3>5. applied'[j][m] # 0 /\ queue'[j][k].command = starts'[applied'[j][m]]
      BY <1>1, <1>5, <3>4
    <3> QED
      BY <1>1, <3>3, <3>5 DEF IsTrue
  <2> QED
    BY <1>1, <2>1
       DEF TesterInv, QueueInv, InOrder, HandedOn, Preceded, Holds
<1>9. ListenerInv'
  BY <1>1, <1>5 DEF TesterInv, ListenerInv, IsTrue, Preceded, ApplyMsg
<1>10. LogsInv'
  BY <1>1, <1>5 DEF TesterInv, LogsInv
<1>11. CountInv'
  <2>1. test.count = 0
    BY <1>1 DEF TesterInv, CountInv
  <2>2. 0 <= Cardinality(Found(test.server, n))
    <3>1. test.server \in 0 .. NumServers
      BY <1>2 DEF Test
    <3>2. Cardinality(Found(test.server, n)) \in 0 .. test.server
      BY <3>1, FoundFacts
    <3> QED
      BY <3>1, <3>2, ServersAssumption
  <2>3. (0 <= Cardinality(Found(test.server, test.index)))'
    BY <1>1, <1>4, <2>2 DEF Found
  <2> QED
    BY <1>4, <2>1, <2>3 DEF CountInv
<1>12. ReturnedInv'
  <2>1. test.command \in Int
    BY <1>2 DEF Test, Command
  <2>2. \A x \in 1 .. Len(starts') : starts'[x] <= test'.command
    BY <1>3, <1>4, <2>1 DEF TesterInv, ReturnedInv
  <2>3. \A k \in 1 .. Len(returned) : returned[k].index \in Index
    <3>1. returned \in Seq(ApplyMsg)
      BY <1>2 DEF TypeOK, ApplyMsg
    <3>2. \A k \in 1 .. Len(returned) : returned[k] \in ApplyMsg
      BY <3>1, ElementOfSeq
    <3> QED
      BY <3>2 DEF ApplyMsg
  <2>4. ReturnedInv
    BY DEF TesterInv
  <2> QED
    BY <1>1, <1>4, <1>5, <2>2, <2>3, <2>4 DEF ReturnedInv
<1>13. ReturnedIsCommitted'
  BY <1>1, <1>2, <1>5, ReturnedStays DEF TesterInv
<1> QED
  BY <1>1, <1>6, <1>7, <1>8, <1>9, <1>10, <1>11, <1>12, <1>13 DEF TesterInv

(* The thread of the test reads the next map.                              *)
LEMMA ReadNextKeeps ==
  ASSUME TesterInv, ReadNext
  PROVE  TesterInv'
<1>1. /\ test \in Test /\ TypeOK /\ test.at = "reading"
      /\ UNCHANGED <<starts, chosen, applied, queue, logs, listener, returned>>
  BY DEF ReadNext, service, TesterInv, TypeOK, Test
<1>2. PICK j \in Server : /\ j = test.server /\ j \in 0 .. NumServers
                          /\ j < NumServers /\ j + 1 \in 0 .. NumServers
  <2>1. test.server \in 0 .. NumServers /\ test.server < NumServers
    BY <1>1 DEF ReadNext, Test
  <2> QED
    BY <2>1, ServersAssumption DEF Server
<1>3. PICK n \in Index : n = test.index
  BY <1>1 DEF TesterInv, CountInv
<1>4. /\ test.count \in Nat
      /\ test.count <= Cardinality(Found(j, n))
      /\ test.count > 0 => chosen[n] # 0 /\ test.cmd = starts[chosen[n]]
  BY <1>1, <1>2, <1>3, ServersAssumption DEF TesterInv, CountInv, Test
<1>5. /\ Cardinality(Found(j, n)) \in 0 .. j
      /\ Cardinality(Found(j, n)) <= Cardinality(Found(j + 1, n))
      /\ logs[j][n] # 0 => Cardinality(Found(j + 1, n))
                            = Cardinality(Found(j, n)) + 1
      /\ Cardinality(Found(j + 1, n)) \in 0 .. j + 1
  BY <1>2, FoundFacts
<1>6. (ReturnedInv /\ ReturnedIsCommitted)'
  <2>1. /\ test'.command = test.command
        /\ test'.at \in {"starting", "reading"} => test.at \in {"starting", "reading"}
    BY <1>1, <1>2 DEF ReadNext, Test
  <2> QED
    BY <1>1, <2>1, ReturnedStays DEF TesterInv, ReturnedInv
<1>7. CASE test' = [test EXCEPT !.server = @ + 1] /\ exited' = exited
  <2>1. /\ test' \in Test /\ test'.at = "reading" /\ test'.server = j + 1
        /\ test'.index = n /\ test'.count = test.count /\ test'.cmd = test.cmd
    BY <1>1, <1>2, <1>3, <1>7 DEF Test
  <2>2. test.count <= Cardinality(Found(j + 1, n))
    BY <1>2, <1>4, <1>5
  <2>3. CountInv'
    BY <1>1, <1>4, <2>1, <2>2 DEF CountInv, Found
  <2>4. TypeOK'
    BY <1>1, <1>7, <2>1 DEF TypeOK, Test
  <2> QED
    BY <1>1, <1>6, <1>7, <2>3, <2>4, TestStep DEF TesterInv
<1>8. ASSUME NEW cmd \in Readable(j, n), cmd # 0,
             test' = [test EXCEPT !.server = @ + 1, !.count = @ + 1, !.cmd = cmd],
             exited' = (test.count > 0 /\ test.cmd # cmd)
      PROVE  TesterInv'
  <2>1. /\ logs[j][n] # 0 /\ chosen[n] # 0
        /\ cmd = starts[chosen[n]] /\ cmd \in Command
    BY <1>8, ReadableFacts
  <2>2. /\ test.count + 1 <= Cardinality(Found(j + 1, n))
        /\ test.count + 1 \in 0 .. NumServers
    BY <1>2, <1>4, <1>5, <2>1, ServersAssumption
  <2>3. /\ test' \in Test /\ test'.at = "reading" /\ test'.server = j + 1
        /\ test'.index = n /\ test'.count = test.count + 1 /\ test'.cmd = cmd
    BY <1>1, <1>2, <1>3, <1>8, <2>1, <2>2 DEF Test
  <2>4. ~exited' /\ exited' \in BOOLEAN
    BY <1>4, <1>8, <2>1
  <2>5. CountInv'
    BY <1>1, <2>1, <2>2, <2>3 DEF CountInv, Found
  <2>6. TypeOK'
    BY <1>1, <2>3, <2>4 DEF TypeOK, Test
  <2> QED
    BY <1>1, <1>6, <2>4, <2>5, <2>6, TestStep
<1>9. CASE test' = [test EXCEPT !.at = "dead"] /\ exited' = exited
  <2>1. test' \in Test /\ test'.at = "dead"
    BY <1>1, <1>9 DEF Test
  <2>2. CountInv'
    BY <2>1 DEF CountInv
  <2>3. TypeOK'
    BY <1>1, <1>9, <2>1 DEF TypeOK, Test
  <2> QED
    BY <1>1, <1>6, <1>9, <2>2, <2>3, TestStep DEF TesterInv
<1> QED
  BY <1>2, <1>3, <1>7, <1>8, <1>9 DEF ReadNext

(* What is counted has been applied.                                       *)
LEMMA CountedIsApplied ==
  ASSUME TesterInv, test.at = "reading", test.server = NumServers, Committed
  PROVE  /\ test.index \in Index /\ chosen[test.index] # 0
         /\ starts[chosen[test.index]] = test.command
         /\ Expected <= Cardinality({i \in Server :
              /\ applied[i][test.index] # 0
              /\ starts[applied[i][test.index]] = test.command})
<1>1. /\ test \in Test /\ test.index \in Index
      /\ test.count > 0 /\ test.count >= Expected
      /\ test.count <= Cardinality(Found(NumServers, test.index))
      /\ chosen[test.index] # 0
      /\ starts[chosen[test.index]] = test.command
  BY DEF Committed, TesterInv, CountInv, TypeOK, Test
<1> DEFINE F == Found(NumServers, test.index)
           A == {i \in Server : /\ applied[i][test.index] # 0
                                /\ starts[applied[i][test.index]] = test.command}
<1>2. F \subseteq A
  <2> SUFFICES ASSUME NEW i \in F PROVE i \in A
    OBVIOUS
  <2>1. i \in Server /\ logs[i][test.index] # 0
    BY DEF Found, Server
  <2>2. applied[i][test.index] # 0 /\ applied[i][test.index] = chosen[test.index]
    BY <1>1, <2>1, AppliedFacts DEF TesterInv, LogsInv
  <2> QED
    BY <1>1, <2>1, <2>2
<1>3. A \subseteq Server /\ IsFiniteSet(A)
  BY ConstantsTyped, FS_Subset
<1>4. /\ Cardinality(F) <= Cardinality(A) /\ Cardinality(F) \in Nat
      /\ Cardinality(A) \in Nat
  BY <1>2, <1>3, FS_Subset, FS_CardinalityType
<1>5. test.count \in Int /\ Expected \in Int
  BY <1>1, ServersAssumption DEF Test
<1>6. test.count <= Cardinality(F)
  BY <1>1
<1> HIDE DEF F, A
<1>7. Expected <= Cardinality(A)
  BY <1>1, <1>4, <1>5, <1>6
<1> QED
  BY <1>1, <1>7 DEF A

(* startCommit returns.                                                    *)
LEMMA StartCommitReturnsKeeps ==
  ASSUME TesterInv, StartCommitReturns
  PROVE  TesterInv'
<1> DEFINE r == [index |-> test.index, command |-> test.command]
<1>1. /\ test \in Test /\ TypeOK /\ test.at = "reading"
      /\ test.server = NumServers /\ Committed
      /\ returned' = Append(returned, r)
      /\ UNCHANGED <<starts, chosen, applied, queue, logs, listener, exited>>
  BY DEF StartCommitReturns, service, TesterInv, TypeOK, Test
<1>2. /\ test.index \in Index /\ chosen[test.index] # 0
      /\ starts[chosen[test.index]] = test.command
      /\ Expected <= Cardinality({i \in Server :
           /\ applied[i][test.index] # 0
           /\ starts[applied[i][test.index]] = test.command})
  BY <1>1, CountedIsApplied
<1>3. PICK len \in Nat : len = Len(returned) /\ returned \in Seq(ApplyMsg)
  BY <1>1, LenProperties DEF TypeOK, ApplyMsg
<1>4. /\ test.command \in Command /\ len = test.command - 1
      /\ test.command \in Int
  BY <1>1, <1>3 DEF TesterInv, ReturnedInv, Test, Command
<1>5. r \in ApplyMsg
  BY <1>2, <1>4 DEF ApplyMsg
<1>6. /\ returned' \in Seq(ApplyMsg) /\ Len(returned') = len + 1
      /\ DOMAIN returned' = 1 .. len + 1 /\ DOMAIN returned = 1 .. len
      /\ \A k \in 1 .. len : returned'[k] = returned[k]
      /\ returned'[len + 1] = r
  <2> HIDE DEF r
  <2>1. /\ returned' \in Seq(ApplyMsg) /\ Len(returned') = len + 1
        /\ \A k \in 1 .. len : returned'[k] = returned[k]
        /\ returned'[len + 1] = r
    BY <1>1, <1>3, <1>5, AppendProperties
  <2> QED
    BY <1>3, <2>1, LenProperties
<1>7. /\ test' \in Test /\ test'.at \in {"starting", "done"}
      /\ test'.at = "starting" => /\ test'.count = 0
                                  /\ test'.command = test.command + 1
      /\ test'.command >= test.command
  <2>1. CASE test.command < MaxCommand
    <3>1. test' = Starting(test.command + 1)
      BY <2>1 DEF StartCommitReturns, NextCommand
    <3>2. test.command + 1 \in Command /\ 0 \in 0 .. NumServers
      BY <1>4, <2>1, BoundsAssumption, ServersAssumption DEF Command
    <3> QED
      BY <1>4, <3>1, <3>2 DEF Starting, Test
  <2>2. CASE ~(test.command < MaxCommand)
    <3>1. test' = [test EXCEPT !.at = "done"]
      BY <2>2 DEF StartCommitReturns, NextCommand
    <3> QED
      BY <1>1, <1>4, <3>1 DEF Test
  <2> QED
    BY <2>1, <2>2
<1>8. TypeOK'
  BY <1>1, <1>6, <1>7 DEF TypeOK, Test, ApplyMsg
<1>9. CountInv'
  BY <1>7 DEF CountInv
<1>10. ReturnedInv'
  <2>1. ASSUME NEW x \in 1 .. Len(starts)
        PROVE  starts[x] <= test.command /\ starts[x] \in Int
    <3>1. starts[x] \in Command
      BY <1>1, ElementOfSeq DEF TypeOK
    <3>2. starts[x] <= test.command
      BY DEF TesterInv, ReturnedInv
    <3> QED
      BY <3>1, <3>2 DEF Command
  <2>2. \A x \in 1 .. Len(starts') : starts'[x] <= test'.command
    BY <1>1, <1>4, <1>7, <2>1 DEF Test, Command
  <2>3. /\ Len(returned') <= test'.command
        /\ test'.at \in {"starting", "reading"}
             => Len(returned') = test'.command - 1
    BY <1>3, <1>4, <1>6, <1>7 DEF Test, Command
  <2>4. ASSUME NEW n \in Index, chosen[n] # 0
        PROVE  starts[chosen[n]] <= test.command /\ starts[chosen[n]] \in Int
    BY <2>1, <2>4, AppliedFacts DEF TesterInv
  <2>5. ASSUME NEW k \in 1 .. len + 1
        PROVE  /\ returned'[k].command = k
               /\ chosen[returned'[k].index] # 0
               /\ starts[chosen[returned'[k].index]] = k
               /\ \A n \in Index : chosen[n] # 0 /\ starts[chosen[n]] > k
                                    => n > returned'[k].index
    <3>1. CASE k \in 1 .. len
      BY <1>3, <1>6, <3>1 DEF TesterInv, ReturnedInv
    <3>2. CASE k = len + 1
      <4>1. k = test.command /\ returned'[k] = r
        BY <1>3, <1>4, <1>6, <3>2
      <4>2. \A n \in Index : chosen[n] # 0 => ~(starts[chosen[n]] > k)
        BY <1>4, <2>4, <4>1
      <4> QED
        BY <1>2, <4>1, <4>2
    <3> QED
      BY <3>1, <3>2
  <2> QED
    BY <1>1, <1>6, <2>2, <2>3, <2>5 DEF ReturnedInv
<1>11. ReturnedIsCommitted'
  <2>1. ASSUME NEW k \in 1 .. len + 1
        PROVE  Expected <= Cardinality({i \in Server :
                 /\ applied[i][returned'[k].index] # 0
                 /\ starts[applied[i][returned'[k].index]] = returned'[k].command})
    <3>1. CASE k \in 1 .. len
      <4>1. ReturnedIsCommitted /\ k \in DOMAIN returned
        BY <1>6, <3>1 DEF TesterInv
      <4> QED
        BY <1>6, <3>1, <4>1 DEF ReturnedIsCommitted
    <3>2. CASE k = len + 1
      <4>1. /\ returned'[k].index = test.index
            /\ returned'[k].command = test.command
        BY <1>6, <3>2
      <4> QED
        BY <1>2, <4>1
    <3> QED
      BY <3>1, <3>2
  <2> QED
    BY <1>1, <1>6, <2>1 DEF ReturnedIsCommitted
<1> QED
  BY <1>1, <1>8, <1>9, <1>10, <1>11, TestStep DEF TesterInv

(* It does not, yet.                                                       *)
LEMMA ReadAgainKeeps ==
  ASSUME TesterInv, ReadAgain
  PROVE  TesterInv'
<1>1. /\ test \in Test /\ TypeOK /\ test.at = "reading"
      /\ UNCHANGED <<starts, chosen, applied, queue, logs, listener, returned,
                     exited>>
  BY DEF ReadAgain, service, TesterInv, TypeOK, Test
<1>2. 0 \in 0 .. NumServers /\ test.command \in Command
  BY <1>1, ServersAssumption DEF Test
<1>3. CASE test' = [test EXCEPT !.server = 0, !.count = 0, !.cmd = 0]
  <2>1. /\ test' \in Test /\ test'.at = "reading" /\ test'.server = 0
        /\ test'.index = test.index /\ test'.count = 0
        /\ test'.command = test.command
    BY <1>1, <1>2, <1>3 DEF Test
  <2>2. test.index \in Index
    BY <1>1 DEF TesterInv, CountInv
  <2>3. Cardinality(Found(0, test.index)) = 0
    BY <1>2, <2>2, FoundFacts
  <2>4. (test.count <= Cardinality(Found(test.server, test.index)))'
    BY <1>1, <2>1, <2>3 DEF Found
  <2>5. CountInv'
    BY <2>1, <2>2, <2>4 DEF CountInv
  <2>6. TypeOK'
    BY <1>1, <2>1 DEF TypeOK, Test
  <2>7. (ReturnedInv /\ ReturnedIsCommitted)'
    BY <1>1, <2>1, ReturnedStays DEF TesterInv, ReturnedInv
  <2> QED
    BY <1>1, <2>5, <2>6, <2>7, TestStep DEF TesterInv
<1>4. CASE test' = Starting(test.command)
  <2>1. /\ test' \in Test /\ test'.at = "starting" /\ test'.count = 0
        /\ test'.command = test.command
    BY <1>2, <1>4 DEF Starting, Test
  <2>2. CountInv'
    BY <2>1 DEF CountInv
  <2>3. TypeOK'
    BY <1>1, <2>1 DEF TypeOK, Test
  <2>4. (ReturnedInv /\ ReturnedIsCommitted)'
    BY <1>1, <2>1, ReturnedStays DEF TesterInv, ReturnedInv
  <2> QED
    BY <1>1, <2>2, <2>3, <2>4, TestStep DEF TesterInv
<1> QED
  BY <1>3, <1>4 DEF ReadAgain

LEMMA InitTester ==
  ASSUME Init
  PROVE  TesterInv
<1>1. Promise!AgreementInv
  <2>1. Promise!Init
    BY EmptySeq, SameCardinality
       DEF Init, Service!Init, Promise!Init, Service!Empty, Promise!Empty,
           Service!Index, Promise!Index
  <2> QED
    BY <2>1, ConstantsTyped, SameCardinality, Promise!InitAgreement
<1>2. /\ starts = <<>> /\ returned = <<>> /\ test = Starting(1) /\ ~exited
      /\ \A i \in Server : queue[i] = <<>> /\ listener[i] = Listening
      /\ \A i \in Server, n \in Index : logs[i][n] = 0
      /\ \A i \in Server, n \in Index : applied[i][n] = 0
  BY ConstantsTyped
     DEF Init, Service!Init, Service!Empty
<1>3. /\ Listening \in Listener /\ Listening.at = "taking" /\ ~Listening.error
      /\ 0 \in 0 .. NumServers
  BY ServersAssumption DEF Listening, NoMessage, Listener
<1>4. test \in Test /\ test.at = "starting" /\ test.count = 0 /\ test.command = 1
  BY <1>2, <1>3, BoundsAssumption DEF Starting, Test, Command
<1>5. Len(<<>>) = 0 /\ 1 .. 0 = {} /\ DOMAIN <<>> = {}
  OBVIOUS
<1>6. TypeOK
  <2>1. /\ chosen \in [Index -> Request \cup {0}]
        /\ applied \in [Server -> [Index -> Request \cup {0}]]
    BY <1>1, ConstantsTyped
       DEF Promise!AgreementInv, Promise!ChosenInv, Promise!AppliedInv,
           Promise!Sequence
  <2>2. /\ starts \in Seq(Command) /\ returned \in Seq(ApplyMsg)
        /\ queue \in [Server -> Seq(ApplyMsg)]
        /\ logs \in [Server -> [Index -> Command \cup {0}]]
    BY DEF Init
  <2>3. listener \in [Server -> Listener] /\ exited \in BOOLEAN
    BY <1>3 DEF Init
  <2> QED
    BY <1>4, <2>1, <2>2, <2>3 DEF TypeOK, Listener, Test, ApplyMsg
<1>7. QueueInv /\ ListenerInv /\ LogsInv
  BY <1>2, <1>3, <1>5 DEF QueueInv, ListenerInv, LogsInv
<1>8. CountInv /\ ReturnedInv /\ ReturnedIsCommitted
  BY <1>2, <1>4, <1>5 DEF CountInv, ReturnedInv, ReturnedIsCommitted
<1> QED
  BY <1>1, <1>2, <1>6, <1>7, <1>8 DEF TesterInv

LEMMA NextKeepsTester ==
  ASSUME TesterInv, [Next]_vars
  PROVE  TesterInv'
<1>1. CASE \E i \in Server : \/ Applies(i)
                            \/ Take(i) \/ CheckOther(i) \/ Put(i) \/ PutDone(i)
  BY <1>1, AppliesKeeps, TakeKeeps, CheckOtherKeeps, PutKeeps, PutDoneKeeps
<1>2. CASE StartTaken \/ ReadNext \/ StartCommitReturns \/ ReadAgain
  BY <1>2, StartTakenKeeps, ReadNextKeeps, StartCommitReturnsKeeps,
     ReadAgainKeeps
<1>3. CASE UNCHANGED vars
  <2>1. UNCHANGED <<starts, chosen, applied, queue, logs, listener, test,
                    returned, exited>>
    BY <1>3 DEF vars
  <2>2. TypeOK' /\ ~exited'
    BY <2>1 DEF TesterInv, TypeOK
  <2>3. CountInv' /\ ReturnedInv' /\ ReturnedIsCommitted'
    BY <2>1, ReturnedStays DEF TesterInv, CountInv, Found, ReturnedInv
  <2> QED
    BY <2>1, <2>2, <2>3, TestStep
<1> QED
  BY <1>1, <1>2, <1>3 DEF Next

(* Once a command has been returned, those that are agreed on for later    *)
(* ones lie behind it.                                                     *)
LEMMA InOrderFollows ==
  ASSUME TesterInv
  PROVE  ReturnedInOrder
<1> SUFFICES ASSUME NEW k \in DOMAIN returned, NEW l \in DOMAIN returned, k < l
             PROVE  returned[k].index < returned[l].index
  BY DEF ReturnedInOrder
<1>1. returned \in Seq(ApplyMsg)
  BY DEF TesterInv, TypeOK, ApplyMsg
<1>2. k \in 1 .. Len(returned) /\ l \in 1 .. Len(returned)
  BY <1>1, LenProperties
<1>3. returned[k] \in ApplyMsg /\ returned[l] \in ApplyMsg
  BY <1>1, <1>2, ElementOfSeq
<1>4. PICK m \in Index : m = returned[k].index
  BY <1>3 DEF ApplyMsg
<1>5. PICK n \in Index : n = returned[l].index
  BY <1>3 DEF ApplyMsg
<1>6. chosen[n] # 0 /\ starts[chosen[n]] = l
  BY <1>2, <1>5 DEF TesterInv, ReturnedInv
<1>7. starts[chosen[n]] > k => n > m
  BY <1>2, <1>4, <1>6 DEF TesterInv, ReturnedInv
<1> QED
  BY <1>2, <1>4, <1>5, <1>6, <1>7, BoundsAssumption DEF Index

-----------------------------------------------------------------------------
(***************************************************************************)
(* The theorems.                                                           *)
(***************************************************************************)

(* TesterInv is inductive.                                                 *)
LEMMA TesterInvHolds == Spec => []TesterInv
<1>1. Init => TesterInv
  BY InitTester
<1>2. TesterInv /\ [Next]_vars => TesterInv'
  BY NextKeepsTester
<1> QED
  BY <1>1, <1>2, PTL DEF Spec

(* The variables of Config's threads keep their types, for any number of   *)
(* servers, commands, starts and messages.                                 *)
THEOREM TesterTyped == Spec => []TypeOK
<1>1. TesterInv => TypeOK
  BY DEF TesterInv
<1> QED
  BY <1>1, TesterInvHolds, PTL

(* The tester raises no alarm about nodes that agree (listenRaftPeer,      *)
(* nCommitted), for any number of servers and in any order of its threads. *)
THEOREM NeverAFalseAlarm == Spec => []NoFalseAlarm
<1>1. TesterInv => NoFalseAlarm
  BY DEF TesterInv, NoFalseAlarm
<1> QED
  BY <1>1, TesterInvHolds, PTL

(* What startCommit returns has been applied by as many servers as were    *)
(* expected.                                                               *)
THEOREM ReturnsTheTruth == Spec => []ReturnedIsCommitted
<1>1. TesterInv => ReturnedIsCommitted
  BY DEF TesterInv
<1> QED
  BY <1>1, TesterInvHolds, PTL

(* Commands that were committed one after the other have indexes in that   *)
(* order.                                                                  *)
THEOREM ReturnsInOrder == Spec => []ReturnedInOrder
<1>1. TesterInv => ReturnedInOrder
  BY InOrderFollows
<1> QED
  BY <1>1, TesterInvHolds, PTL
=============================================================================
