------------------------- MODULE MCProjectCreation --------------------------
(***************************************************************************)
(* The instance of ProjectCreation for TLC.                                *)
(***************************************************************************)
EXTENDS ProjectCreation

CONSTANTS b1, p1, p2, m1

Shortest == [extract |-> "none", additional |-> FALSE, big |-> FALSE, admins |-> {}]

\* A project without map data, a plain one, and one with everything.
SomePlans ==
  {Shortest,
   [extract |-> "osm_data_extract", additional |-> FALSE, big |-> FALSE, admins |-> {m1}],
   [extract |-> "custom_data_extract", additional |-> TRUE, big |-> TRUE, admins |-> {}]}

\* Bounds: submissions that meet are of one plan; once a manage page was opened, of the
\* shortest, and then either nothing fails or there is one submission only.
Bounded ==
  /\ \A t, u \in thunk' : t.plan = u.plan
  /\ wizard'[b1].visits > 0 =>
       /\ \A t \in thunk' : t.plan = Shortest
       /\ faults' + losses' = 0 \/ wizard'[b1].tries <= 1

MCSpec == Init /\ [][Next /\ Bounded]_vars /\ Fairness
=============================================================================
