------------------------- MODULE PrometheusResource -------------------------
(***************************************************************************)
(* How a task brings an operand that the prometheus-operator runs to its    *)
(* manifest or takes it away: a Prometheus, Alertmanager or ThanosRuler     *)
(* resource (CreateOrUpdatePrometheus, WaitForPrometheus, DeletePrometheus   *)
(* and their counterparts in pkg/client/client.go).  The task writes the     *)
(* resource; the prometheus-operator makes a StatefulSet of it; the          *)
(* StatefulSet's controller makes the pods; the task polls the pods.         *)
(*                                                                         *)
(* A manifest is abstracted to a number.  Of a pod the poll compares only   *)
(* the image and the arguments of its first container with the              *)
(* StatefulSet's template.  Manifests come in any order: an administrator   *)
(* who changes the retention or the log level may change it back.           *)
(***************************************************************************)
EXTENDS Naturals, FiniteSets

CONSTANTS
    Slots,       \* the replicas of the operand
    MaxManifest, \* bound on the manifests
    Visible,     \* the image and arguments of each manifest's first container
    MaxFaults,   \* bound on failing calls, timeouts and failing pods
    MaxDeletes   \* bound on deletions of the resource by others

Manifests == 1..MaxManifest

ASSUME SomeReplicas ==
    /\ IsFiniteSet(Slots) /\ Slots # {}
    /\ MaxManifest \in Nat /\ MaxFaults \in Nat /\ MaxDeletes \in Nat
    /\ Visible \in [Manifests -> Nat]

VARIABLES
    pc,       \* the task's position
    want,     \* the manifest of this sync
    enabled,  \* whether this sync is to keep the operand or to take it away
    resource, \* the manifest the resource has in the API server, 0 without one
    cached,   \* the resource as the prometheus-operator's cache has it
    sts,      \* the manifest the StatefulSet was made from, 0 without one
    pods,     \* the pod in each slot, made from manifest 0 if there is none
    listed,   \* the pods as the poll has listed them
    since,    \* history: the manifests the StatefulSet has had since then
    faults, deletes

vars == <<pc, want, enabled, resource, cached, sts, pods, listed, since, faults, deletes>>

NoPod == [made |-> 0, ready |-> FALSE]
NoPods == [i \in Slots |-> NoPod]
Pods == [Slots -> [made : 0..MaxManifest, ready : BOOLEAN]]

TypeOK ==
    /\ pc \in {"idle", "get", "create", "update", "wait", "status", "delete", "gone", "ok", "failed"}
    /\ {want, resource, cached, sts} \subseteq 0..MaxManifest
    /\ enabled \in BOOLEAN
    /\ pc \in {"get", "create", "update", "wait", "status"} => enabled /\ want # 0
    /\ pc \in {"delete", "gone"} => ~enabled
    /\ pods \in Pods /\ listed \in Pods /\ since \subseteq Manifests
    /\ faults \in Nat /\ deletes \in Nat

Init ==
    /\ pc = "idle" /\ want = 0 /\ enabled = FALSE /\ resource = 0 /\ cached = 0 /\ sts = 0
    /\ pods = NoPods /\ listed = NoPods /\ since = {}
    /\ faults = 0 /\ deletes = 0

Fault == faults < MaxFaults /\ faults' = faults + 1

operandVars == <<cached, sts, pods>>

-----------------------------------------------------------------------------
(* The task.                                                               *)

\* A mutant: an operand that is to be taken away is applied all the same.
BeginAlwaysApplies(m, e) ==
    /\ pc \in {"idle", "ok", "failed"}
    /\ want' = m /\ enabled' = e /\ pc' = "get"
    /\ UNCHANGED <<resource, operandVars, listed, since, faults, deletes>>

\* A sync brings the operand to manifest m, or takes it away.
Begin(m, e) ==
    /\ pc \in {"idle", "ok", "failed"}
    /\ want' = m /\ enabled' = e /\ pc' = IF e THEN "get" ELSE "delete"
    /\ UNCHANGED <<resource, operandVars, listed, since, faults, deletes>>

Get ==
    /\ pc = "get"
    /\ pc' = IF resource = 0 THEN "create" ELSE "update"
    /\ UNCHANGED <<want, enabled, resource, operandVars, listed, since, faults, deletes>>

\* A mutant: a resource that exists is left as it is.
CreateIfNotExists ==
    /\ pc \in {"create", "update"}
    /\ resource' = (IF resource = 0 THEN want ELSE resource) /\ pc' = "wait"
    /\ UNCHANGED <<want, enabled, operandVars, listed, since, faults, deletes>>

\* The update is an error when the resource is gone since Get.
CreateOrUpdate ==
    /\ pc \in {"create", "update"}
    /\ IF pc = "update" /\ resource = 0
       THEN pc' = "failed" /\ UNCHANGED resource
       ELSE pc' = "wait" /\ resource' = want
    /\ UNCHANGED <<want, enabled, operandVars, listed, since, faults, deletes>>

\* A poll reads the resource and lists the pods, then reads the StatefulSet.
PollPods ==
    /\ pc = "wait"
    /\ IF resource = 0
       THEN pc' = "failed" /\ UNCHANGED <<listed, since>>
       ELSE pc' = "status" /\ listed' = pods /\ since' = {sts} \ {0}
    /\ UNCHANGED <<want, enabled, resource, operandVars, faults, deletes>>

Ready == {i \in Slots : listed[i].ready}

\* needsUpdate
UpToDate == {i \in Ready : Visible[listed[i].made] = Visible[sts]}

\* A mutant: enough ready pods are taken for a rollout.
RolledOutWhenAvailable == Cardinality(Ready) >= Cardinality(Slots)

RolledOut ==
    /\ Cardinality(UpToDate) = Cardinality(Slots)
    /\ Cardinality(Ready) >= Cardinality(Slots)

\* Without a StatefulSet the wait ends with an error.
PollStatus ==
    /\ pc = "status"
    /\ pc' = IF sts = 0 THEN "failed" ELSE IF RolledOut THEN "ok" ELSE "wait"
    /\ listed' = NoPods /\ since' = {}
    /\ UNCHANGED <<want, enabled, resource, operandVars, faults, deletes>>

Delete ==
    /\ pc = "delete"
    /\ resource' = 0 /\ pc' = "gone"
    /\ UNCHANGED <<want, enabled, operandVars, listed, since, faults, deletes>>

\* The poll that ends the wait for the pods to go.
PodsGone ==
    /\ pc = "gone" /\ pods = NoPods
    /\ pc' = "ok"
    /\ UNCHANGED <<want, enabled, resource, operandVars, listed, since, faults, deletes>>

\* Any call may fail, whether or not the API server carried it out, a wait is
\* given up in the end, and the process may stop.
Fails ==
    /\ pc \notin {"idle", "ok", "failed"} /\ Fault
    /\ resource' \in {resource} \cup (CASE pc = "create" -> {want}
                                        [] pc = "update" /\ resource # 0 -> {want}
                                        [] pc = "delete" -> {0}
                                        [] OTHER -> {})
    /\ pc' = "failed" /\ listed' = NoPods /\ since' = {}
    /\ UNCHANGED <<want, enabled, operandVars, deletes>>

Task ==
    \/ \E m \in Manifests, e \in BOOLEAN : Begin(m, e)
    \/ Get \/ CreateOrUpdate \/ PollPods \/ PollStatus \/ Delete \/ PodsGone \/ Fails

-----------------------------------------------------------------------------
(* The prometheus-operator, the StatefulSet's controller, the garbage       *)
(* collector, and whoever else may delete the resource.                     *)

taskVars == <<pc, want, enabled, listed>>
unseen == <<taskVars, since>>

Notice ==
    /\ cached # resource /\ cached' = resource
    /\ UNCHANGED <<unseen, resource, sts, pods, faults, deletes>>

\* From its cache, which may still have a resource that is deleted.
Reconcile ==
    /\ cached # 0 /\ sts # cached
    /\ sts' = cached
    /\ since' = IF pc = "status" THEN since \cup {cached} ELSE since
    /\ UNCHANGED <<taskVars, resource, cached, pods, faults, deletes>>

CollectStatefulSet ==
    /\ resource = 0 /\ sts # 0
    /\ sts' = 0
    /\ UNCHANGED <<unseen, resource, cached, pods, faults, deletes>>

ReplacePod(i) ==
    /\ sts # 0 /\ pods[i].made # sts
    /\ pods' = [pods EXCEPT ![i] = [made |-> sts, ready |-> FALSE]]
    /\ UNCHANGED <<unseen, resource, cached, sts, faults, deletes>>

CollectPod(i) ==
    /\ sts = 0 /\ pods[i].made # 0
    /\ pods' = [pods EXCEPT ![i] = NoPod]
    /\ UNCHANGED <<unseen, resource, cached, sts, faults, deletes>>

PodReady(i) ==
    /\ pods[i].made # 0 /\ ~pods[i].ready
    /\ pods' = [pods EXCEPT ![i].ready = TRUE]
    /\ UNCHANGED <<unseen, resource, cached, sts, faults, deletes>>

PodFails(i) ==
    /\ pods[i].ready /\ Fault
    /\ pods' = [pods EXCEPT ![i].ready = FALSE]
    /\ UNCHANGED <<unseen, resource, cached, sts, deletes>>

DeletedByOthers ==
    /\ resource # 0 /\ deletes < MaxDeletes
    /\ deletes' = deletes + 1 /\ resource' = 0
    /\ UNCHANGED <<unseen, operandVars, faults>>

Cluster ==
    \/ Notice \/ Reconcile \/ CollectStatefulSet \/ DeletedByOthers
    \/ \E i \in Slots : ReplacePod(i) \/ CollectPod(i) \/ PodReady(i) \/ PodFails(i)

Next == Task \/ Cluster

Spec == Init /\ [][Next]_vars

\* Syncs recur with the resync of the informers; the code of the task and the
\* controllers of the cluster run.
Fairness ==
    /\ WF_vars(\E m \in Manifests, e \in BOOLEAN : Begin(m, e))
    /\ WF_vars(Get) /\ WF_vars(CreateOrUpdate) /\ WF_vars(PollPods) /\ WF_vars(PollStatus)
    /\ WF_vars(Delete) /\ WF_vars(PodsGone)
    /\ WF_vars(Notice) /\ WF_vars(Reconcile) /\ WF_vars(CollectStatefulSet)
    /\ \A i \in Slots : WF_vars(ReplacePod(i)) /\ WF_vars(PodReady(i)) /\ WF_vars(CollectPod(i))

FairSpec == Spec /\ Fairness

-----------------------------------------------------------------------------
AllMade(m) == \A i \in Slots : pods[i].made = m

ReportsDone == pc # "ok" /\ pc' = "ok" /\ enabled

\* SetDone's comment: "We require that all components be rolled out and available
\* at the new version before reporting this value."  A wait that ends without
\* an error leaves every pod made from the manifest of this sync.
RolledOutBeforeDone == [][ReportsDone => AllMade(want)]_vars

\* What the wait does ensure: if the prometheus-operator has handled the
\* manifest by the last read of the StatefulSet, then every pod has the image and the
\* arguments of the manifest, although the pods were listed before that and may have
\* been replaced since, unless the StatefulSet has left these and come back to them in
\* between: a pod that is out of date now was up to date and ready when it was listed,
\* and was replaced by one of a manifest that the StatefulSet has had since.
NoOutdatedPodUnlessReverted ==
    [][ReportsDone /\ sts = want
         => \A i \in Slots :
              \/ pods[i].made = 0 \/ Visible[pods[i].made] = Visible[want]
              \/ /\ pods[i].made \in since
                 /\ listed[i].ready /\ Visible[listed[i].made] = Visible[want]]_vars

\* Whatever failed on the way, and whatever the prometheus-operator's cache
\* still holds, once the manifest settles every pod is made from it and ready,
\* or nothing of the operand is left.
EventuallySettled ==
    <>[][UNCHANGED <<want, enabled>>]_vars =>
        /\ []<>(pc = "ok")
        /\ <>[](IF enabled THEN \A i \in Slots : pods[i] = [made |-> want, ready |-> TRUE]
                           ELSE sts = 0 /\ AllMade(0))
=============================================================================
