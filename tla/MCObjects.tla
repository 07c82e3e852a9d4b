------------------------------ MODULE MCObjects -----------------------------
(***************************************************************************)
(* Instances of Objects for TLC.                                           *)
(***************************************************************************)
EXTENDS Objects

\* The second manifest has other metadata than the first, the third other
\* subjects or another specification, the fourth another role as well.
MCBody == <<1, 1, 2, 3>>
MCRoleRef == <<1, 1, 2>>
MCMeta == <<{"own", "plain"}, {"plain"}, {"own"}, {}>>
=============================================================================
