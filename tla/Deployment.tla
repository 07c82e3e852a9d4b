----------------------------- MODULE Deployment -----------------------------
(***************************************************************************)
(* How a task brings a Deployment or a DaemonSet to its manifest: apply it  *)
(* and poll until it is rolled out (CreateOrUpdateDeployment,               *)
(* CreateOrUpdateDaemonSet and the WaitFor...Rollout functions of           *)
(* pkg/client/client.go), with the controller, the garbage collector and    *)
(* the pods around it.                                                      *)
(*                                                                         *)
(* A manifest is abstracted to a number; the manifests of successive        *)
(* configurations and releases have increasing ones.  What may not be       *)
(* updated in place is its selector.  Pods are the ones the present object  *)
(* owns, one per replica or node.                                           *)
(***************************************************************************)
EXTENDS Naturals, FiniteSets

CONSTANTS
    Slots,       \* the replicas of the Deployment, the nodes of the DaemonSet
    MaxManifest, \* bound on the manifests
    Selector,    \* the immutable part of each manifest
    MaxFaults,   \* bound on failing calls, timeouts, restarts and failing pods
    MaxDeletes   \* bound on deletions by others

Manifests == 1..MaxManifest

ASSUME SomeSlots == IsFiniteSet(Slots) /\ Slots # {}

ASSUME SelectorsMoveOn ==
    /\ MaxManifest \in Nat /\ MaxFaults \in Nat /\ MaxDeletes \in Nat
    /\ Selector \in [Manifests -> Nat]
    /\ \A m, n \in Manifests : m <= n => Selector[m] <= Selector[n]

VARIABLES
    kind,     \* of the object: a Deployment or a DaemonSet
    pc,       \* the task's position
    want,     \* the manifest of this sync
    object,   \* the object in the API server
    seen,     \* the manifest that the controller works on
    pods,     \* the pod in each slot, made from manifest 0 if there is none
    faults, deletes

vars == <<kind, pc, want, object, seen, pods, faults, deletes>>

NoPod == [made |-> 0, ready |-> FALSE]
NoStatus == [observed |-> 0, replicas |-> 0, updated |-> 0, unavailable |-> 0]
NoObject ==
    [exists |-> FALSE, deleting |-> FALSE, spec |-> 0, generation |-> 0, status |-> NoStatus]

Count == 0..Cardinality(Slots)

\* Only a Deployment is ever there and being deleted: the deletion of a DaemonSet
\* frees its name for the creation that follows.
TypeOK ==
    /\ kind \in {"Deployment", "DaemonSet"}
    /\ pc \in {"idle", "get", "create", "update", "delete", "recreate", "wait", "ok", "failed"}
    /\ want \in 0..MaxManifest /\ seen \in 0..MaxManifest
    /\ object \in [exists : BOOLEAN, deleting : BOOLEAN, spec : 0..MaxManifest, generation : Nat,
                   status : [observed : Nat, replicas : Count, updated : Count,
                             unavailable : Count]]
    /\ object.exists \/ object = NoObject
    /\ object.deleting => kind = "Deployment"
    /\ pods \in [Slots -> [made : 0..MaxManifest, ready : BOOLEAN]]
    /\ faults \in Nat /\ deletes \in Nat

Init ==
    /\ kind \in {"Deployment", "DaemonSet"} /\ pc = "idle" /\ want = 0
    /\ object = NoObject /\ seen = 0 /\ pods = [i \in Slots |-> NoPod]
    /\ faults = 0 /\ deletes = 0

Fault == faults < MaxFaults /\ faults' = faults + 1

clusterVars == <<kind, object, seen, pods, deletes>>

-----------------------------------------------------------------------------
(* The task.                                                               *)

\* A sync calls the function with its manifest, which is the one of the last
\* sync or a later one.
Begin(m) ==
    /\ pc \in {"idle", "ok", "failed"} /\ m >= want
    /\ pc' = "get" /\ want' = m
    /\ UNCHANGED <<clusterVars, faults>>

Get ==
    /\ pc = "get"
    /\ pc' = IF object.exists THEN "update" ELSE "create"
    /\ UNCHANGED <<want, clusterVars, faults>>

\* The object with the manifest of this sync.  The API server counts a
\* generation for each change of the specification.
Updated ==
    [object EXCEPT !.spec = want, !.generation = IF object.spec = want THEN @ ELSE @ + 1]

\* A mutant: what may not be updated in place is an error like any other.
UpdateInPlaceOnly ==
    /\ pc = "update"
    /\ IF object.exists /\ Selector[object.spec] = Selector[want]
       THEN object' = Updated /\ pc' = "wait"
       ELSE pc' = "failed" /\ UNCHANGED object
    /\ UNCHANGED <<kind, want, seen, pods, deletes, faults>>

\* The object may be gone since Get; an update of the selector is answered with
\* 422 Invalid and leads to the object being deleted and created anew.
Update ==
    /\ pc = "update"
    /\ IF object.exists /\ Selector[object.spec] = Selector[want]
       THEN object' = Updated /\ pc' = "wait"
       ELSE pc' = (IF object.exists THEN "delete" ELSE "failed") /\ UNCHANGED object
    /\ UNCHANGED <<kind, want, seen, pods, deletes, faults>>

\* A mutant: a DaemonSet is deleted in the foreground as well.
AlwaysInForeground ==
    /\ object' = [object EXCEPT !.deleting = object.exists]
    /\ UNCHANGED <<seen, pods>>

\* The deletion of a Deployment, in the foreground, only marks it; the one of a
\* DaemonSet removes it at once.  An object that is gone is no error.
RemoveOrMark ==
    IF kind = "Deployment" \/ ~object.exists
    THEN object' = [object EXCEPT !.deleting = object.exists] /\ UNCHANGED <<seen, pods>>
    ELSE object' = NoObject /\ seen' = 0 /\ pods' = [i \in Slots |-> NoPod]

Delete ==
    /\ pc = "delete" /\ RemoveOrMark
    /\ pc' = "recreate"
    /\ UNCHANGED <<kind, want, deletes, faults>>

\* The name is taken as long as the object is being deleted.
Create ==
    /\ pc \in {"create", "recreate"}
    /\ IF object.exists
       THEN pc' = "failed" /\ UNCHANGED object
       ELSE /\ object' = [NoObject EXCEPT !.exists = TRUE, !.spec = want, !.generation = 1]
            /\ pc' = "wait"
    /\ UNCHANGED <<kind, want, seen, pods, deletes, faults>>

\* A mutant: the status is trusted whatever generation it is about.
RolledOutIgnoringGeneration(o) ==
    /\ o.status.updated = o.status.replicas
    /\ o.status.unavailable = 0

RolledOut(o) ==
    /\ o.generation <= o.status.observed
    /\ o.status.updated = o.status.replicas
    /\ o.status.unavailable = 0

\* A mutant: nothing is left to wait for when the object is gone.
WaitUntilGone ==
    /\ pc = "wait" /\ (~object.exists \/ RolledOut(object))
    /\ pc' = "ok"
    /\ UNCHANGED <<want, clusterVars, faults>>

\* The poll that ends the wait: the rollout is complete, or the object is gone.
WaitForRollout ==
    /\ pc = "wait"
    /\ \/ ~object.exists /\ pc' = "failed"
       \/ object.exists /\ RolledOut(object) /\ pc' = "ok"
    /\ UNCHANGED <<want, clusterVars, faults>>

\* Any call may fail, and the wait is given up after five minutes.
Fails ==
    /\ pc \notin {"idle", "ok", "failed"} /\ Fault
    /\ pc' = "failed"
    /\ UNCHANGED <<want, clusterVars>>

\* A call may fail although the API server carried it out.
LostResponse ==
    /\ Fault
    /\ \/ /\ pc = "update" /\ object.exists /\ Selector[object.spec] = Selector[want]
          /\ object' = Updated /\ UNCHANGED <<seen, pods>>
       \/ pc = "delete" /\ RemoveOrMark
       \/ /\ pc \in {"create", "recreate"} /\ ~object.exists
          /\ object' = [NoObject EXCEPT !.exists = TRUE, !.spec = want, !.generation = 1]
          /\ UNCHANGED <<seen, pods>>
    /\ pc' = "failed"
    /\ UNCHANGED <<kind, want, deletes>>

Task ==
    \/ \E m \in Manifests : Begin(m)
    \/ Get \/ Update \/ Delete \/ Create \/ WaitForRollout \/ Fails \/ LostResponse

-----------------------------------------------------------------------------
(* The cluster.                                                            *)

Running == {i \in Slots : pods[i].made # 0}
UpToDate == {i \in Slots : pods[i].made = object.spec}
Available == {i \in Slots : pods[i].ready}

\* The controller sees the object and writes its status, the number of the
\* generation it has seen included.  It has no pods of a new one yet.
Observe ==
    /\ object.exists
    /\ seen' = object.spec
    /\ object' = [object EXCEPT !.status =
                    [observed |-> object.generation,
                     replicas |-> Cardinality(Running),
                     updated |-> Cardinality(UpToDate),
                     unavailable |-> Cardinality(Slots) - Cardinality(Available)]]
    /\ UNCHANGED <<kind, pc, want, pods, faults, deletes>>

\* It replaces a pod that is not made from the manifest it has seen.
ReplacePod(i) ==
    /\ object.exists /\ ~object.deleting /\ object.status.observed # 0
    /\ pods[i].made # seen
    /\ pods' = [pods EXCEPT ![i] = [made |-> seen, ready |-> FALSE]]
    /\ UNCHANGED <<kind, pc, want, object, seen, faults, deletes>>

PodReady(i) ==
    /\ pods[i].made # 0 /\ ~pods[i].ready
    /\ pods' = [pods EXCEPT ![i].ready = TRUE]
    /\ UNCHANGED <<kind, pc, want, object, seen, faults, deletes>>

PodFails(i) ==
    /\ pods[i].ready /\ Fault
    /\ pods' = [pods EXCEPT ![i].ready = FALSE]
    /\ UNCHANGED <<kind, pc, want, object, seen, deletes>>

\* Deletion in the foreground: the pods first, then the object.
CollectPod(i) ==
    /\ object.deleting /\ pods[i].made # 0
    /\ pods' = [pods EXCEPT ![i] = NoPod]
    /\ UNCHANGED <<kind, pc, want, object, seen, faults, deletes>>

CollectObject ==
    /\ object.deleting /\ \A i \in Slots : pods[i].made = 0
    /\ object' = NoObject /\ seen' = 0
    /\ UNCHANGED <<kind, pc, want, pods, faults, deletes>>

\* Somebody else deletes the object, at once, and its pods with it.
DeletedByOthers ==
    /\ object.exists /\ deletes < MaxDeletes
    /\ deletes' = deletes + 1
    /\ object' = NoObject /\ seen' = 0 /\ pods' = [i \in Slots |-> NoPod]
    /\ UNCHANGED <<kind, pc, want, faults>>

Cluster ==
    \/ Observe \/ CollectObject \/ DeletedByOthers
    \/ \E i \in Slots : ReplacePod(i) \/ PodReady(i) \/ PodFails(i) \/ CollectPod(i)

Next == Task \/ Cluster

Spec == Init /\ [][Next]_vars

\* Syncs recur with the resync of the informers, and the code of the task, the
\* controller and the garbage collector run.
Fairness ==
    /\ WF_vars(\E m \in Manifests : Begin(m))
    /\ WF_vars(Get) /\ WF_vars(Update) /\ WF_vars(Delete) /\ WF_vars(Create)
    /\ WF_vars(WaitForRollout)
    /\ WF_vars(Observe) /\ WF_vars(CollectObject)
    /\ \A i \in Slots : WF_vars(ReplacePod(i)) /\ WF_vars(PodReady(i)) /\ WF_vars(CollectPod(i))

FairSpec == Spec /\ Fairness

-----------------------------------------------------------------------------
\* The rollout the task reports is the one of its own manifest: at the poll that
\* ends the wait every pod is made from it and the object is there to stay,
\* however stale the status, the controller's view and the object found by Get
\* were on the way.
RolledOutWhenOk ==
    [][pc # "ok" /\ pc' = "ok"
         => ~object.deleting /\ \A i \in Slots : pods[i].made = want]_vars

-----------------------------------------------------------------------------
(* Why the reported rollout is the right one: the invariant behind          *)
(* RolledOutWhenOk.                                                         *)

ReadyPodsExist == \A i \in Slots : pods[i].ready => pods[i].made # 0

\* The object is never ahead of the task, and while the task waits it is the
\* task's own, if it is there.
SpecIsWanted ==
    /\ pc # "idle" => want # 0
    /\ object.exists => object.spec # 0 /\ object.spec <= want
    /\ object.exists /\ pc = "wait" => object.spec = want

\* Only an object with an earlier selector is ever deleted by the task.
DeletingIsOld ==
    /\ object.deleting => Selector[object.spec] < Selector[want]
    /\ object.exists /\ pc = "delete" => Selector[object.spec] < Selector[want]

\* A status about the present generation says what the controller has seen, and
\* when it says that the rollout is complete it still is.
StatusIsTrue ==
    object.exists =>
      /\ object.generation # 0 /\ object.status.observed <= object.generation
      /\ object.status.observed = object.generation => seen = object.spec
      /\ RolledOut(object) /\ ~object.deleting => \A i \in Slots : pods[i].made = object.spec

IInv == TypeOK /\ ReadyPodsExist /\ SpecIsWanted /\ DeletingIsOld /\ StatusIsTrue

-----------------------------------------------------------------------------
\* A manifest that cannot be updated in place does not stop the rollout: once
\* calls, pods and other writers stop failing it, syncs succeed again and again
\* and every pod is and stays ready and made from the manifest.
EventuallyRolledOut ==
    /\ []<>(pc = "ok")
    /\ <>[](object.exists /\ \A i \in Slots : pods[i] = [made |-> want, ready |-> TRUE])
-----------------------------------------------------------------------------
(* The abstract specification of a rollout, and the invariant that shows     *)
(* that this one implements it.                                             *)

RolloutPhase == IF pc \in {"idle", "ok", "failed"} THEN pc ELSE "busy"
PodsMade == [i \in Slots |-> pods[i].made]
AllowedPods == [m \in Manifests |-> 1..m]

Abstract ==
    INSTANCE Rollout WITH Parts <- Slots, Targets <- Manifests, Nothing <- 0,
        May <- AllowedPods, phase <- RolloutPhase, target <- want, made <- PodsMade

\* The steps of task, controller, garbage collector and other writers together
\* are those of a rollout: no pod is ever made from a manifest later than the
\* task's, success is reported only of a complete rollout, and after it pods
\* disappear but never go back or ahead.
ImplementsRollout == Abstract!Spec

\* The controller is never ahead of the task, there are no pods without their
\* object, and a success leaves nothing for the controller to do.
PodsFollow ==
    /\ seen <= want /\ (pc = "idle" => want = 0)
    /\ object.exists /\ object.status.observed # 0 => seen # 0
    /\ ~object.exists => pods = [i \in Slots |-> NoPod]
    /\ pc = "ok" /\ object.exists
          => /\ ~object.deleting /\ object.spec = want /\ seen = want
             /\ \A i \in Slots : pods[i].made = want
=============================================================================
