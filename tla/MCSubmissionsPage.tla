-------------------------- MODULE MCSubmissionsPage -------------------------
(***************************************************************************)
(* The instance of SubmissionsPage for TLC.  What is left of the bounds at *)
(* the start makes three cases: the user works on the project page, he     *)
(* reviews submissions, or he goes through the table.                      *)
(***************************************************************************)
EXTENDS SubmissionsPage, TLC

CONSTANTS t1, t2, s1, s2, e1

\* Two submissions about one entity.
OneEntity == [s \in {s1, s2} |-> e1]

Mapper(p) == [role |-> "MAPPER", manages |-> FALSE, project_role |-> p]

Untouched == \A t \in Task : board[t].ver = 0

OnlyTable == OnTable /\ Untouched /\ sent = MaxSent /\ events = MaxOwn

MCInit ==
  /\ Init
  /\ \/ rights = Mapper("PROJECT_MANAGER")
     \/ rights = Mapper("MAPPER") /\ Untouched
  /\ \/ page = Project /\ sent = 1 /\ events = 0 /\ reviews = MaxReviews /\ tableSent = MaxTable + 1
     \/ OnlyTable /\ reviews = 0 /\ tableSent = MaxTable + 1
     \/ OnlyTable /\ reviews = MaxReviews /\ tableSent = 1

MCSpec == MCInit /\ [][Next]_vars

Alike == Permutations(Task) \union Permutations(Sub)
=============================================================================
