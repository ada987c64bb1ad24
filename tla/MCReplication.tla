--------------------------- MODULE MCReplication ---------------------------
(***************************************************************************)
(* Model checking of RaftReplication: who may stand for which term, and    *)
(* how far down nextIndex may go.                                          *)
(***************************************************************************)
EXTENDS RaftReplication

(* Node 0 stands for the first term; 0 and 1 compete for every later one.  *)
Rivals == [t \in 1 .. MaxTerm |-> IF t = 1 THEN {0} ELSE {0, 1}]

(* Node 0 stands for the first term, node 1 for the second.                *)
InTurn == [t \in 1 .. MaxTerm |-> {t - 1}]

(* Nodes 0 and 1 take turns, so that node 0 leads again in the third term. *)
Back == [t \in 1 .. MaxTerm |-> {(t - 1) % 2}]

BelowZero == -1
=============================================================================
