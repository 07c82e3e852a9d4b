---------------------------- MODULE MCDeployment ----------------------------
(***************************************************************************)
(* Instances of Deployment for TLC.                                        *)
(***************************************************************************)
EXTENDS Deployment

\* The second manifest is an update in place, the third has another selector.
MCSelector == [m \in Manifests |-> IF m < 3 THEN 1 ELSE 2]
=============================================================================
