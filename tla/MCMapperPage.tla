---------------------------- MODULE MCMapperPage ----------------------------
(***************************************************************************)
(* The instance of MapperPage for TLC.                                     *)
(***************************************************************************)
EXTENDS MapperPage

CONSTANTS t1, t2, e1, e2

\* One feature reaches over the border into the other task, the other out of the project.
TwoTasks == [e \in {e1, e2} |-> IF e = e1 THEN t1 ELSE t2]
Border == [e \in {e1, e2} |-> IF e = e1 THEN {t2} ELSE {None}]
Boxes == [t \in {t1, t2} |-> IF t = t1 THEN {e1} ELSE {e1, e2}]
=============================================================================
