------------------------------ MODULE Agreement ------------------------------
(***************************************************************************)
(* What the program promises to its clients (Config, RaftTest): the nodes  *)
(* apply one sequence of commands, each node a prefix of it, and nothing   *)
(* is in it that nobody started, or twice.  It is what RaftReplication     *)
(* implements when its calls come in order; how is not said here.          *)
(***************************************************************************)
EXTENDS Integers, FiniteSets

CONSTANTS Node,
          Command,   \* finitely many
          Nothing    \* no command

Index == 1 .. Cardinality(Command)

VARIABLES
  started,   \* the commands a leader has taken on
  chosen,    \* the command agreed on for each index, or Nothing
  applied    \* what each node has handed to applyChannel, by index

vars == <<started, chosen, applied>>

Empty == [n \in Index |-> Nothing]
Length(s) == Cardinality({n \in Index : s[n] # Nothing})
Prefix(s, k) == [n \in Index |-> IF n <= k THEN s[n] ELSE Nothing]
Commands(s) == {s[n] : n \in Index} \ {Nothing}

Init ==
  /\ started = {}
  /\ chosen = Empty
  /\ applied = [i \in Node |-> Empty]

(* A leader takes on a command.                                            *)
Start ==
  \E c \in Command \ started :
    /\ started' = started \cup {c}
    /\ UNCHANGED <<chosen, applied>>

(* Node i applies more of what has been agreed on.                         *)
Learn(i) ==
  \E k \in Length(applied[i]) + 1 .. Length(chosen) :
    /\ applied' = [applied EXCEPT ![i] = Prefix(chosen, k)]
    /\ UNCHANGED <<started, chosen>>

(* Node i is the first to apply another command, behind all the others.    *)
Choose(i) ==
  \E c \in started \ Commands(chosen) :
    /\ chosen' = [chosen EXCEPT ![Length(chosen) + 1] = c]
    /\ applied' = [applied EXCEPT ![i] = chosen']
    /\ UNCHANGED started

Next == Start \/ \E i \in Node : Learn(i) \/ Choose(i)

Spec == Init /\ [][Next]_vars
=============================================================================
