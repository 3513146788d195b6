---------------------------- MODULE MCDeployment ----------------------------
(* The releases are interchangeable: no action or property tells one from    *)
(* another except by equality.                                               *)
EXTENDS Deployment, TLC

Releases == Permutations(Versions)
=============================================================================
