---------------------------- MODULE MCEntitySync ----------------------------
(***************************************************************************)
(* Instances of EntitySync for TLC.                                        *)
(***************************************************************************)
EXTENDS EntitySync

CONSTANTS e1, e2, r1
=============================================================================
