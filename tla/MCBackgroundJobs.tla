-------------------------- MODULE MCBackgroundJobs --------------------------
(***************************************************************************)
(* Instances of BackgroundJobs for TLC.                                    *)
(***************************************************************************)
EXTENDS BackgroundJobs, TLC

CONSTANTS r1, r2, r3, c1, c2

\* A basemap and a large project with tiles of the same source, and the deletion of the project.
Kinds == (r1 :> "tiles") @@ (r2 :> "files") @@ (r3 :> "delete")
Sources == (r1 :> "custom") @@ (r2 :> "custom") @@ (r3 :> "custom")
=============================================================================
