------------------------- MODULE KillSwitch_proofs -------------------------
(***************************************************************************)
(* The global rows of the kill switch, from the empty table of the         *)
(* migration or from one row: first toggles that overlap insert a row each *)
(* and no other toggle inserts one.                                        *)
(***************************************************************************)
EXTENDS KillSwitch, FiniteSetTheorems, SequenceTheorems, TLAPS

\* The migration leaves the table empty; the first toggle inserts a row.
FewRowsAtStart ==
  /\ IsFiniteSet(Operator) /\ Operator # {}
  /\ \A rows \in FirstRows : Len(rows) <= 1

Toggling == [pc : {"idle", "write"}, row : Nat, active : BOOLEAN]

\* Operators that have found no row and are about to insert one.
Inserting == {o \in Operator : operator[o].pc = "write" /\ operator[o].row = 0}

RowsInv ==
  /\ switches \in Seq(BOOLEAN)
  /\ operator \in [Operator -> Toggling]
  /\ \A o \in Operator : operator[o].pc = "write" => operator[o].row <= Len(switches)
  /\ Len(switches) > 0 => Len(switches) + Cardinality(Inserting) <= Cardinality(Operator)

LEMMA InsertingFinite ==
  ASSUME FewRowsAtStart
  PROVE  /\ IsFiniteSet(Inserting) /\ Cardinality(Inserting) \in Nat
         /\ Cardinality(Operator) \in Nat /\ Cardinality(Inserting) <= Cardinality(Operator)
<1>1. IsFiniteSet(Operator) /\ Inserting \subseteq Operator
  BY DEF FewRowsAtStart, Inserting
<1> QED
  BY <1>1, FS_Subset, FS_CardinalityType

LEMMA RowsBounded ==
  ASSUME FewRowsAtStart, RowsInv
  PROVE  RowPerOperator
<1>1. /\ Cardinality(Inserting) \in Nat /\ Cardinality(Operator) \in Nat
      /\ Len(switches) \in Nat
      /\ Len(switches) > 0 => Len(switches) + Cardinality(Inserting) <= Cardinality(Operator)
  BY InsertingFinite DEF RowsInv
<1> QED
  BY <1>1 DEF RowPerOperator

LEMMA RowsInit ==
  ASSUME FewRowsAtStart, SwitchInit
  PROVE  RowsInv
<1>1. /\ switches \in Seq(BOOLEAN) /\ Len(switches) \in Nat /\ Len(switches) <= 1
      /\ operator \in [Operator -> Toggling] /\ \A o \in Operator : operator[o].pc = "idle"
  BY SwitchAssumption DEF FewRowsAtStart, SwitchInit, Toggling
<1>2. Inserting = {}
  BY <1>1 DEF Inserting
<1>3. Cardinality(Inserting) = 0
  BY <1>2, FS_EmptySet
<1>4. Cardinality(Operator) \in Nat /\ Cardinality(Operator) # 0
  BY FS_EmptySet, FS_CardinalityType DEF FewRowsAtStart
<1> QED
  BY <1>1, <1>3, <1>4 DEF RowsInv

\* What a write leaves of the rows.
LEMMA RowWritten ==
  ASSUME NEW rows \in Seq(BOOLEAN), NEW row \in Nat, row <= Len(rows), NEW active \in BOOLEAN
  PROVE  /\ Len(rows) \in Nat
         /\ row = 0 => /\ Append(rows, active) \in Seq(BOOLEAN)
                       /\ Len(Append(rows, active)) = Len(rows) + 1
         /\ row # 0 => /\ [rows EXCEPT ![row] = active] \in Seq(BOOLEAN)
                       /\ Len([rows EXCEPT ![row] = active]) = Len(rows)
<1>1. CASE row = 0
  BY <1>1
<1>2. CASE row # 0
  <2>1. row \in 1..Len(rows)
    BY <1>2
  <2> QED
    BY <1>2, <2>1, ExceptSeq
<1> QED
  BY <1>1, <1>2

LEMMA RowsStep ==
  ASSUME FewRowsAtStart, RowsInv, [Toggle]_switchVars
  PROVE  RowsInv'
<1> DEFINE n == Len(switches)
           k == Cardinality(Inserting)
           max == Cardinality(Operator)
<1>1. /\ IsFiniteSet(Inserting) /\ n \in Nat /\ k \in Nat /\ max \in Nat /\ k <= max
      /\ n > 0 => n + k <= max
  BY InsertingFinite DEF RowsInv
<1>2. ASSUME NEW o \in Operator, ReadGlobalRow(o)
      PROVE  RowsInv'
  <2>1. PICK want \in BOOLEAN :
          operator' = [operator EXCEPT ![o] =
                         [pc |-> "write", row |-> Len(switches), active |-> want]]
    BY <1>2 DEF ReadGlobalRow
  <2>2. operator[o].pc = "idle" /\ switches' = switches
    BY <1>2 DEF ReadGlobalRow
  <2>3. /\ operator' \in [Operator -> Toggling]
        /\ \A p \in Operator : operator'[p].pc = "write" => operator'[p].row <= n
    BY <1>1, <2>1 DEF RowsInv, Toggling
  <2>4. n > 0 => Inserting' = Inserting
    BY <1>1, <2>1, <2>2 DEF Inserting, RowsInv
  <2> HIDE DEF n, k, max
  <2>5. n > 0 => n + Cardinality(Inserting') <= max
    BY <1>1, <2>4 DEF k
  <2> QED
    BY <2>2, <2>3, <2>5 DEF RowsInv, n, max
<1>3. ASSUME NEW o \in Operator, WriteGlobalRow(o)
      PROVE  RowsInv'
  <2>1. /\ operator[o].pc = "write" /\ operator[o].row \in Nat
        /\ operator[o].active \in BOOLEAN /\ operator[o].row <= Len(switches)
        /\ switches \in Seq(BOOLEAN)
    BY <1>3 DEF WriteGlobalRow, RowsInv, Toggling
  <2>2. operator' = [operator EXCEPT ![o].pc = "idle"]
    BY <1>3 DEF WriteGlobalRow
  <2>3. operator' \in [Operator -> Toggling]
    BY <2>2 DEF RowsInv, Toggling
  <2>4. \A p \in Operator : operator'[p].pc = "write" => operator'[p] = operator[p]
    BY <2>2 DEF RowsInv
  <2>5. CASE operator[o].row = 0
    <3>1. switches' = Append(switches, operator[o].active)
      BY <1>3, <2>5 DEF WriteGlobalRow
    <3>2. switches' \in Seq(BOOLEAN) /\ Len(switches') = n + 1
      BY <2>1, <2>5, <3>1, RowWritten
    <3>3. Inserting' = Inserting \ {o} /\ o \in Inserting
      BY <2>1, <2>2, <2>5 DEF Inserting, RowsInv, Toggling
    <3>4. Cardinality(Inserting') = k - 1
      BY <1>1, <3>3, FS_RemoveElement
    <3>5. \A p \in Operator : operator'[p].pc = "write" => operator'[p].row <= n + 1
      <4>1. \A p \in Operator : operator[p].pc = "write" =>
              operator[p].row \in Nat /\ operator[p].row <= n
        BY DEF RowsInv, Toggling
      <4> HIDE DEF n
      <4> QED
        BY <1>1, <2>4, <4>1
    <3>6. n = 0 \/ n > 0
      BY <1>1
    <3> HIDE DEF n, k, max
    <3>7. (n + 1) + (k - 1) <= max
      BY <1>1, <3>6
    <3> QED
      BY <2>3, <3>2, <3>4, <3>5, <3>7 DEF RowsInv, max
  <2>6. CASE operator[o].row # 0
    <3>1. switches' = [switches EXCEPT ![operator[o].row] = operator[o].active]
      BY <1>3, <2>6 DEF WriteGlobalRow
    <3>2. switches' \in Seq(BOOLEAN) /\ Len(switches') = n
      BY <2>1, <2>6, <3>1, RowWritten
    <3>3. Inserting' = Inserting
      BY <2>1, <2>2, <2>6 DEF Inserting, RowsInv, Toggling
    <3>4. \A p \in Operator : operator'[p].pc = "write" => operator'[p].row <= n
      BY <2>4 DEF RowsInv
    <3> HIDE DEF n, k, max
    <3> QED
      BY <1>1, <2>3, <3>2, <3>3, <3>4 DEF RowsInv, k, max
  <2> QED
    BY <2>5, <2>6
<1>4. CASE UNCHANGED switchVars
  BY <1>4 DEF switchVars, RowsInv, Inserting
<1> QED
  BY <1>2, <1>3, <1>4 DEF Toggle

\* A table of one row at most reports what it enforces.
LEMMA OneRowAgrees ==
  ASSUME RowsInv, Len(switches) <= 1
  PROVE  SwitchAgrees
<1>1. switches \in Seq(BOOLEAN) /\ Len(switches) \in Nat
  BY DEF RowsInv
<1>2. CASE Len(switches) = 0
  BY <1>1, <1>2 DEF SwitchAgrees, Blocked, Reported
<1>3. CASE Len(switches) = 1
  <2>1. switches # <<>> /\ 1..Len(switches) = {1}
    BY <1>1, <1>3
  <2> QED
    BY <1>3, <2>1 DEF SwitchAgrees, Blocked, Reported
<1>4. Len(switches) = 0 \/ Len(switches) = 1
  <2>1. \A n \in Nat : n <= 1 => n = 0 \/ n = 1
    OBVIOUS
  <2> QED
    BY <1>1, <2>1, Zenon
<1> QED
  BY <1>2, <1>3, <1>4

\* routers/kill_switch.py, "only the very first toggle ever made INSERTs": for
\* any number of operators and toggles, from the empty table on, there are never
\* more rows than operators.
THEOREM RowsAreFew ==
  ASSUME FewRowsAtStart
  PROVE  SwitchSpec => []RowPerOperator
<1>1. SwitchInit => RowsInv
  BY RowsInit
<1>2. RowsInv /\ [Toggle]_switchVars => RowsInv'
  BY RowsStep
<1>3. RowsInv => RowPerOperator
  BY RowsBounded
<1> QED
  BY <1>1, <1>2, <1>3, PTL DEF SwitchSpec

\* "ONE ROW PER GLOBAL SWITCH": as long as a single operator toggles, from the
\* empty table on, the row that the console reports is the one that blocks.
THEOREM OneOperatorAgrees ==
  ASSUME FewRowsAtStart, Cardinality(Operator) = 1
  PROVE  SwitchSpec => []SwitchAgrees
<1>1. SwitchInit => RowsInv
  BY RowsInit
<1>2. RowsInv /\ [Toggle]_switchVars => RowsInv'
  BY RowsStep
<1>3. RowsInv => SwitchAgrees
  <2> SUFFICES ASSUME RowsInv PROVE SwitchAgrees
    OBVIOUS
  <2>1. Len(switches) <= 1
    BY RowsBounded DEF RowPerOperator
  <2> QED
    BY <2>1, OneRowAgrees
<1> QED
  BY <1>1, <1>2, <1>3, PTL DEF SwitchSpec
=============================================================================
