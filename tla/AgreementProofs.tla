--------------------------- MODULE AgreementProofs ---------------------------
(***************************************************************************)
(* What Agreement means for its clients, for any nodes and commands.       *)
(***************************************************************************)
EXTENDS Agreement, TLAPS, FiniteSetTheorems

Sequence == [Index -> Command \cup {Nothing}]

(* The first k places of s are filled, and no others.                      *)
Filled(s, k) == \A n \in Index : s[n] # Nothing <=> n <= k

ChosenInv ==
  /\ started \subseteq Command
  /\ chosen \in Sequence
  /\ Commands(chosen) \subseteq started
  /\ \E k \in 0 .. Cardinality(Command) : Filled(chosen, k)
  /\ \A m, n \in Index : chosen[m] = chosen[n] /\ chosen[m] # Nothing => m = n

AppliedInv ==
  /\ applied \in [Node -> Sequence]
  /\ \A i \in Node : \E k \in 0 .. Cardinality(Command) : Filled(applied[i], k)
  /\ \A i \in Node, n \in Index :
       applied[i][n] # Nothing => applied[i][n] = chosen[n]

AgreementInv == ChosenInv /\ AppliedInv

(* All nodes apply the same command at an index, without gaps, and no      *)
(* command twice: what Config relies on.                                   *)
SameSequence ==
  /\ \A i, j \in Node, n \in Index :
       applied[i][n] # Nothing /\ applied[j][n] # Nothing
         => applied[i][n] = applied[j][n]
  /\ \A i \in Node, m, n \in Index :
       m < n /\ applied[i][n] # Nothing =>
         applied[i][m] \notin {Nothing, applied[i][n]}

-----------------------------------------------------------------------------
(* A sequence that is filled up to k has length k.                         *)
LEMMA LengthOfFilled ==
  ASSUME IsFiniteSet(Command), NEW s, NEW k \in 0 .. Cardinality(Command),
         Filled(s, k)
  PROVE  Length(s) = k
<1>1. Cardinality(Command) \in Nat
  BY FS_CardinalityType
<1>2. {n \in Index : s[n] # Nothing} = 1 .. k
  BY <1>1 DEF Filled, Index
<1>3. Cardinality(1 .. k) = k
  BY <1>1, FS_Interval
<1> QED
  BY <1>2, <1>3 DEF Length

(* What node i learns is a longer prefix of what is chosen.                *)
LEMMA LearnKeeps ==
  ASSUME IsFiniteSet(Command), Nothing \notin Command, AgreementInv,
         NEW i \in Node, Learn(i)
  PROVE  /\ AgreementInv'
         /\ \A j \in Node, n \in Index :
              applied[j][n] # Nothing => applied'[j][n] = applied[j][n]
<1>1. Cardinality(Command) \in Nat
  BY FS_CardinalityType
<1>2. PICK l \in 0 .. Cardinality(Command) : Filled(chosen, l)
  BY DEF AgreementInv, ChosenInv
<1>3. PICK a \in 0 .. Cardinality(Command) : Filled(applied[i], a)
  BY DEF AgreementInv, AppliedInv
<1>4. Length(chosen) = l /\ Length(applied[i]) = a
  BY <1>2, <1>3, LengthOfFilled
<1>5. PICK k \in a + 1 .. l : applied' = [applied EXCEPT ![i] = Prefix(chosen, k)]
  BY <1>4 DEF Learn
<1>6. UNCHANGED <<started, chosen>>
  BY DEF Learn
<1>7. /\ Prefix(chosen, k) \in Sequence
      /\ Filled(Prefix(chosen, k), k)
      /\ k \in 0 .. Cardinality(Command)
      /\ \A n \in Index : Prefix(chosen, k)[n] # Nothing =>
           Prefix(chosen, k)[n] = chosen[n]
  BY <1>1, <1>2, <1>5 DEF Prefix, Filled, Sequence, AgreementInv, ChosenInv, Index
<1>8. \A n \in Index : applied[i][n] # Nothing =>
        Prefix(chosen, k)[n] = applied[i][n]
  BY <1>1, <1>3, <1>5 DEF Prefix, Filled, AgreementInv, AppliedInv, Index
<1>9. /\ applied'[i] = Prefix(chosen, k)
      /\ \A j \in Node \ {i} : applied'[j] = applied[j]
      /\ applied' \in [Node -> Sequence]
  BY <1>5, <1>7 DEF AgreementInv, AppliedInv
<1>10. ChosenInv'
  BY <1>6 DEF AgreementInv, ChosenInv, Filled, Commands
<1>11. AppliedInv'
  BY <1>6, <1>7, <1>9 DEF AgreementInv, AppliedInv, Filled
<1> QED
  BY <1>8, <1>9, <1>10, <1>11 DEF AgreementInv

(* A new command is chosen behind all others.                              *)
LEMMA ChooseKeeps ==
  ASSUME IsFiniteSet(Command), Nothing \notin Command, AgreementInv,
         NEW i \in Node, Choose(i)
  PROVE  /\ AgreementInv'
         /\ \A j \in Node, n \in Index :
              applied[j][n] # Nothing => applied'[j][n] = applied[j][n]
         /\ \A n \in Index : chosen'[n] # chosen[n] =>
              /\ chosen'[n] \in started
              /\ \A m \in Index : chosen[m] # Nothing => m < n
<1>1. Cardinality(Command) \in Nat
  BY FS_CardinalityType
<1>2. PICK l \in 0 .. Cardinality(Command) : Filled(chosen, l)
  BY DEF AgreementInv, ChosenInv
<1>3. Length(chosen) = l
  BY <1>2, LengthOfFilled
<1>4. PICK c \in started \ Commands(chosen) :
        /\ chosen' = [chosen EXCEPT ![l + 1] = c]
        /\ applied' = [applied EXCEPT ![i] = chosen']
        /\ started' = started
  BY <1>3 DEF Choose
<1>5. c \in Command /\ c # Nothing
  BY <1>4 DEF AgreementInv, ChosenInv
<1>6. /\ chosen' \in Sequence
      /\ \A n \in Index : chosen'[n] = IF n = l + 1 THEN c ELSE chosen[n]
  BY <1>4, <1>5 DEF AgreementInv, ChosenInv, Sequence
<1>7. \E k \in 0 .. Cardinality(Command) : Filled(chosen', k)
  <2>1. CASE l + 1 <= Cardinality(Command)
    <3>1. Filled(chosen', l + 1)
      BY <1>1, <1>2, <1>5, <1>6 DEF Filled, Index
    <3> QED
      BY <1>1, <2>1, <3>1
  <2>2. CASE l + 1 > Cardinality(Command)
    <3>1. Filled(chosen', l)
      BY <1>1, <1>2, <1>6, <2>2 DEF Filled, Index
    <3> QED
      BY <3>1
  <2> QED
    BY <1>1, <2>1, <2>2
<1>8. \A n \in Index : chosen[n] # Nothing => chosen'[n] = chosen[n]
  BY <1>1, <1>2, <1>6 DEF Filled, Index
<1>9. \A n \in Index : chosen[n] # c
  BY <1>4, <1>5 DEF Commands
<1>10. ChosenInv'
  <2>1. Commands(chosen') \subseteq started'
    BY <1>4, <1>6 DEF Commands, AgreementInv, ChosenInv
  <2>2. \A m, n \in Index : chosen'[m] = chosen'[n] /\ chosen'[m] # Nothing => m = n
    BY <1>6, <1>9 DEF AgreementInv, ChosenInv
  <2> QED
    BY <1>4, <1>6, <1>7, <2>1, <2>2 DEF AgreementInv, ChosenInv
<1>11. /\ applied'[i] = chosen'
       /\ \A j \in Node \ {i} : applied'[j] = applied[j]
       /\ applied' \in [Node -> Sequence]
  BY <1>4, <1>6 DEF AgreementInv, AppliedInv
<1>12. AppliedInv'
  BY <1>7, <1>8, <1>11 DEF AgreementInv, AppliedInv, Filled
<1>13. \A j \in Node, n \in Index :
         applied[j][n] # Nothing => applied'[j][n] = applied[j][n]
  BY <1>8, <1>11 DEF AgreementInv, AppliedInv
<1>14. \A n \in Index : chosen'[n] # chosen[n] =>
         /\ chosen'[n] \in started
         /\ \A m \in Index : chosen[m] # Nothing => m < n
  BY <1>1, <1>2, <1>4, <1>6 DEF Filled, Index
<1> QED
  BY <1>10, <1>12, <1>13, <1>14 DEF AgreementInv

LEMMA InitAgreement ==
  ASSUME IsFiniteSet(Command), Init
  PROVE  AgreementInv
<1>1. Cardinality(Command) \in Nat
  BY FS_CardinalityType
<1>2. Empty \in Sequence /\ Filled(Empty, 0) /\ 0 \in 0 .. Cardinality(Command)
  BY <1>1 DEF Empty, Sequence, Filled, Index
<1> QED
  BY <1>2 DEF Init, AgreementInv, ChosenInv, AppliedInv, Commands, Empty

LEMMA InvIsSameSequence ==
  ASSUME IsFiniteSet(Command), Nothing \notin Command, AgreementInv
  PROVE  SameSequence
<1>1. Cardinality(Command) \in Nat
  BY FS_CardinalityType
<1>2. ASSUME NEW i \in Node, NEW m \in Index, NEW n \in Index,
             m < n, applied[i][n] # Nothing
      PROVE  applied[i][m] \notin {Nothing, applied[i][n]}
  <2>1. PICK k \in 0 .. Cardinality(Command) : Filled(applied[i], k)
    BY DEF AgreementInv, AppliedInv
  <2>2. applied[i][m] # Nothing
    BY <1>1, <1>2, <2>1 DEF Filled, Index
  <2> QED
    BY <1>1, <1>2, <2>2 DEF AgreementInv, ChosenInv, AppliedInv, Index
<1> QED
  BY <1>2 DEF SameSequence, AgreementInv, AppliedInv

(* The promise of Agreement: what the nodes apply is, in every state, one  *)
(* sequence without gaps and repetitions, for any finite set of commands.  *)
THEOREM OneSequenceIsApplied ==
  ASSUME IsFiniteSet(Command), Nothing \notin Command
  PROVE  Spec => []SameSequence
<1>1. Init => AgreementInv
  BY InitAgreement
<1>2. AgreementInv /\ [Next]_vars => AgreementInv'
  <2> SUFFICES ASSUME AgreementInv, [Next]_vars PROVE AgreementInv'
    OBVIOUS
  <2>1. CASE Start
    BY <2>1 DEF Start, AgreementInv, ChosenInv, AppliedInv, Filled, Commands
  <2>2. CASE UNCHANGED vars
    BY <2>2 DEF vars, AgreementInv, ChosenInv, AppliedInv, Filled, Commands
  <2> QED
    BY <2>1, <2>2, LearnKeeps, ChooseKeeps DEF Next
<1>3. AgreementInv => SameSequence
  BY InvIsSameSequence
<1> QED
  BY <1>1, <1>2, <1>3, PTL DEF Spec
=============================================================================
