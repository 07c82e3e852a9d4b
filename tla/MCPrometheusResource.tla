------------------------ MODULE MCPrometheusResource ------------------------
(***************************************************************************)
(* Instances of PrometheusResource for TLC.                                *)
(***************************************************************************)
EXTENDS PrometheusResource

\* The second manifest has another image, the third only another volume.
MCVisible == [m \in Manifests |-> IF m = 1 THEN 1 ELSE 2]
=============================================================================
