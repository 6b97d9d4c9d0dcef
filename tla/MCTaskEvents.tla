---------------------------- MODULE MCTaskEvents ----------------------------
(***************************************************************************)
(* Instances of TaskEvents for TLC.                                        *)
(***************************************************************************)
EXTENDS TaskEvents

CONSTANTS p1, t1, svc

OneTask == [t \in {t1} |-> p1]

\* What the two frontends send: comment text with COMMENT events only.
ClientPayload == {<<"MAP", FALSE>>, <<"FINISH", FALSE>>, <<"COMMENT", TRUE>>}

\* Locks of both kinds, and the event that gives one up.
LockPayload == {<<"MAP", FALSE>>, <<"ASSIGN", FALSE>>, <<"BAD", FALSE>>}
=============================================================================
