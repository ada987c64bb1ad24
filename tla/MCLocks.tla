------------------------------ MODULE MCLocks -------------------------------
(* Model-checking instances of NodeLocks.                                  *)
EXTENDS NodeLocks

EveryBlock == Block

(* The blocks of a node that is neither asked to start a command nor       *)
(* elected.                                                                *)
Downward == Block \ Upward
=============================================================================
