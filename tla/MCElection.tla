----------------------------- MODULE MCElection -----------------------------
(* Model-checking instances of RaftElection.                               *)
EXTENDS RaftElection

Closed == {}
Open == RacePoints
=============================================================================
