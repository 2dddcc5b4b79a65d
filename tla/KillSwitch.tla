----------------------------- MODULE KillSwitch -----------------------------
(***************************************************************************)
(* The global rows of governance.kill_switches and the REST toggle of the  *)
(* gatekeeper.  The toggle reads the newest row and then updates it, or    *)
(* inserts the first one; the two statements autocommit separately.  The   *)
(* gatekeeper and the publisher read the table itself, uncached.           *)
(***************************************************************************)
EXTENDS Naturals, Sequences, FiniteSets

CONSTANTS
  Operator,    \* toggle requests that can be in progress at the same time
  FirstRows,   \* tables the system can start with: no global row, or one
  MaxToggles   \* bound on the toggles of one behaviour

ASSUME SwitchAssumption == FirstRows \subseteq Seq(BOOLEAN)

VARIABLES
  switches,    \* "active" of the global rows, oldest first
  operator,    \* [pc, row, active]: the row a toggle has read (0 for none)
  toggled      \* toggles that have started

switchVars == <<switches, operator, toggled>>

\* is_blocked: any active global row blocks.
Blocked == \E i \in 1..Len(switches) : switches[i]

\* GET /kill-switch: what the newest row says.
Reported == switches # <<>> /\ switches[Len(switches)]

SwitchInit ==
  /\ switches \in FirstRows
  /\ operator = [o \in Operator |-> [pc |-> "idle", row |-> 0, active |-> FALSE]]
  /\ toggled = 0

ReadGlobalRow(o) ==
  /\ operator[o].pc = "idle"
  /\ toggled < MaxToggles
  /\ \E want \in BOOLEAN :
       operator' = [operator EXCEPT ![o] =
                      [pc |-> "write", row |-> Len(switches), active |-> want]]
  /\ toggled' = toggled + 1
  /\ UNCHANGED switches

\* A seeded bug, used by no behaviour: the toggle that always inserts.
BugInsertGlobalRow(o) ==
  /\ operator[o].pc = "write"
  /\ switches' = Append(switches, operator[o].active)
  /\ operator' = [operator EXCEPT ![o].pc = "idle"]
  /\ UNCHANGED toggled

WriteGlobalRow(o) ==
  LET row == operator[o].row IN
  /\ operator[o].pc = "write"
  /\ switches' = IF row = 0 THEN Append(switches, operator[o].active)
                 ELSE [switches EXCEPT ![row] = operator[o].active]
  /\ operator' = [operator EXCEPT ![o].pc = "idle"]
  /\ UNCHANGED toggled

Toggle == \E o \in Operator : ReadGlobalRow(o) \/ WriteGlobalRow(o)

SwitchSpec == SwitchInit /\ [][Toggle]_switchVars

-----------------------------------------------------------------------------
(* Properties *)

\* routers/kill_switch.py, "only the very first toggle ever made INSERTs": from
\* the empty table that the migration leaves, the first toggles insert a row each
\* when they overlap, and whatever is toggled after them adds none: the rows never
\* outnumber the operators.
RowPerOperator == Len(switches) <= Cardinality(Operator)

\* "ONE ROW PER GLOBAL SWITCH": the newest row, which the console shows and the
\* toggle updates, is what blocks gate and publisher.  True of one operator; with
\* two the older of two first rows can block unseen, and no toggle reaches it.
SwitchAgrees == Blocked <=> Reported
=============================================================================
