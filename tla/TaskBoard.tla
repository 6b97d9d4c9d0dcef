----------------------------- MODULE TaskBoard ------------------------------
(***************************************************************************)
(* What the task event log promises its readers, without the log: for each *)
(* task a register that holds a mapping state and the start of the         *)
(* transaction that put it there.  A write that began before the write it  *)
(* would replace is ignored.  One transaction of the unlock job may free   *)
(* any number of tasks at once.                                            *)
(***************************************************************************)
EXTENDS Integers

CONSTANT Task

VARIABLE board

States == {"UNLOCKED_TO_MAP", "LOCKED_FOR_MAPPING", "UNLOCKED_TO_VALIDATE",
           "LOCKED_FOR_VALIDATION", "UNLOCKED_DONE"}

Init == board = [t \in Task |-> [state |-> "UNLOCKED_TO_MAP", stamp |-> 0]]

Cell == [state : States, stamp : Nat]

\* An event of a mapper or validator takes effect.
Write(t) ==
  /\ board'[t] \in Cell
  /\ board'[t].stamp > board[t].stamp
  /\ board' = [board EXCEPT ![t] = board'[t]]

\* A run of the unlock job that began at n takes effect, on tasks nobody has written since.
Release(n) ==
  \E T \in SUBSET Task :
    /\ \A t \in T : n > board[t].stamp
    /\ board' = [t \in Task |-> IF t \in T THEN [state |-> "UNLOCKED_TO_MAP", stamp |-> n]
                                           ELSE board[t]]

Next ==
  \/ \E t \in Task : Write(t)
  \/ \E t \in Task : Release(board'[t].stamp)

Spec == Init /\ [][Next]_board
=============================================================================
