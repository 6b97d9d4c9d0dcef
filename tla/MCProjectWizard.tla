-------------------------- MODULE MCProjectWizard ---------------------------
(***************************************************************************)
(* Instances of ProjectWizard for TLC.                                     *)
(***************************************************************************)
EXTENDS ProjectWizard, TLC

CONSTANTS a1, a2, k1, k2, good, bad

=============================================================================
