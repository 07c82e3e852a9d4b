------------------------------- MODULE Rollout -------------------------------
(***************************************************************************)
(* What the operator and its tasks promise of a rollout, and nothing of how *)
(* they bring it about: one target at a time, parts that only move to what  *)
(* the target allows, success only when every part is made from the target, *)
(* and a success that is only ever undone by removing parts.                *)
(*                                                                         *)
(* Implemented by Deployment, whose parts are pods and whose targets are    *)
(* manifests, and by Operator, whose parts are tasks and whose targets are  *)
(* release versions.                                                       *)
(***************************************************************************)
CONSTANTS
    Parts,    \* what is rolled out
    Targets,  \* what it can be made from
    Nothing,  \* what a part is made from that is missing or incomplete
    May       \* what the parts of a target may be made from on the way to it

VARIABLES
    phase,    \* idle, busy, ok or failed
    target,   \* the present or the last target
    made      \* what each part is made from

rolloutVars == <<phase, target, made>>

Init ==
    /\ phase = "idle" /\ target \in Targets \cup {Nothing}
    /\ made = [p \in Parts |-> Nothing]

\* A rollout begins; the one before may have failed, or be out of date.
Begin(t) ==
    /\ phase # "busy"
    /\ phase' = "busy" /\ target' = t
    /\ UNCHANGED made

\* Parts are replaced or removed; after a success they are only removed.
Change ==
    /\ phase # "idle"
    /\ made' \in [Parts -> Targets \cup {Nothing}]
    /\ \A p \in Parts :
          \/ made'[p] \in {made[p], Nothing}
          \/ phase # "ok" /\ made'[p] \in May[target]
    /\ UNCHANGED <<phase, target>>

Succeed ==
    /\ phase = "busy" /\ \A p \in Parts : made[p] = target
    /\ phase' = "ok"
    /\ UNCHANGED <<target, made>>

\* It fails, in the worst case right after it has removed parts.
Fail ==
    /\ phase = "busy"
    /\ phase' = "failed"
    /\ made' \in [Parts -> Targets \cup {Nothing}]
    /\ \A p \in Parts : made'[p] \in {made[p], Nothing}
    /\ UNCHANGED target

\* Whoever rolls out is done, or dies, and comes back, perhaps for another target.
Rest(t) ==
    /\ phase' = "idle" /\ target' = t
    /\ UNCHANGED made

Next ==
    \/ \E t \in Targets : Begin(t) \/ Rest(t)
    \/ Change \/ Succeed \/ Fail

Spec == Init /\ [][Next]_rolloutVars
=============================================================================
