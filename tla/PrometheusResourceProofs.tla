---------------------- MODULE PrometheusResourceProofs ----------------------
(***************************************************************************)
(* What the wait for a Prometheus, Alertmanager or ThanosRuler ensures, for *)
(* any number of replicas, manifests, faults and deletions.                 *)
(***************************************************************************)
EXTENDS PrometheusResource, FiniteSetTheorems, TLAPS

\* While the poll is between its two reads: the StatefulSet is one of those it has had
\* since the pods were listed, and a pod is the listed one, one made since or missing.
Replaced ==
    pc = "status" =>
        /\ sts \in since \cup {0}
        /\ \A i \in Slots : pods[i].made \in {0, listed[i].made} \cup since

Inv == TypeOK /\ Replaced

\* The types in a form that the steps use.
LEMMA Types ==
    ASSUME TypeOK
    PROVE  /\ want \in 0..MaxManifest /\ resource \in 0..MaxManifest
           /\ cached \in 0..MaxManifest /\ sts \in 0..MaxManifest /\ MaxManifest \in Nat
           /\ \A i \in Slots : /\ pods[i].made \in 0..MaxManifest /\ pods[i].ready \in BOOLEAN
                               /\ listed[i].made \in 0..MaxManifest
                               /\ listed[i].ready \in BOOLEAN
<1>1. \A p \in Pods : \A i \in Slots : p[i].made \in 0..MaxManifest /\ p[i].ready \in BOOLEAN
  BY DEF Pods
<1> QED  BY <1>1, SomeReplicas DEF TypeOK

\* No pods at all.
LEMMA NoPodsType ==
    /\ NoPods \in Pods /\ \A i \in Slots : NoPods[i].made = 0 /\ ~NoPods[i].ready
BY SomeReplicas DEF NoPods, NoPod, Pods

\* Init is in the invariant.
LEMMA InitInv == Init => Inv
<1> SUFFICES ASSUME Init PROVE Inv
  OBVIOUS
<1>1. 0 \in 0..MaxManifest  BY SomeReplicas
<1>2. TypeOK  BY <1>1, NoPodsType DEF Init, TypeOK
<1>3. Replaced  BY DEF Init, Replaced
<1> QED  BY <1>2, <1>3 DEF Inv

\* A step of the task that does not list the pods.
LEMMA TaskInv ==
    ASSUME Inv, UNCHANGED operandVars, UNCHANGED deletes,
           faults' \in Nat, want' \in 0..MaxManifest, enabled' \in BOOLEAN,
           resource' \in {0, resource, want'},
           listed' \in {listed, NoPods}, since' \in {since, {}},
           pc' \in {"idle", "get", "create", "update", "wait", "delete", "gone", "ok", "failed"},
           pc' \in {"get", "create", "update", "wait"} => enabled' /\ want' # 0,
           pc' \in {"delete", "gone"} => ~enabled'
    PROVE  Inv'
<1>0. TypeOK  BY DEF Inv
<1>1. resource' \in 0..MaxManifest  BY <1>0, Types
<1>2. listed' \in Pods /\ since' \subseteq Manifests  BY <1>0, NoPodsType DEF TypeOK
<1>3. TypeOK'  BY <1>0, <1>1, <1>2 DEF TypeOK, operandVars
<1>4. Replaced'  BY DEF Replaced
<1> QED  BY <1>3, <1>4 DEF Inv

\* The pods are listed.
LEMMA PollPodsInv ==
    ASSUME Inv, PollPods
    PROVE  Inv'
<1>0. TypeOK  BY DEF Inv
<1>a. sts \in 0..MaxManifest  BY <1>0 DEF TypeOK
<1>b. {sts} \ {0} \subseteq Manifests  BY <1>a, SomeReplicas DEF Manifests
<1>c. since' = since \/ since' = {sts} \ {0}  BY DEF PollPods
<1>1. since' \subseteq Manifests
  BY <1>0, <1>b, <1>c DEF TypeOK
<1>2. TypeOK'  BY <1>0, <1>1 DEF TypeOK, PollPods, operandVars
<1>3. Replaced'
  <2>1. CASE resource = 0  BY <2>1 DEF PollPods, Replaced
  <2>2. CASE resource # 0  BY <2>2 DEF PollPods, Replaced, operandVars
  <2> QED  BY <2>1, <2>2
<1> QED  BY <1>2, <1>3 DEF Inv

\* Every step of the task keeps the invariant.
LEMMA TaskStepInv ==
    ASSUME Inv, Task
    PROVE  Inv'
<1>0. TypeOK  BY DEF Inv
<1>t. /\ want \in 0..MaxManifest /\ enabled \in BOOLEAN /\ faults \in Nat /\ deletes \in Nat
  BY <1>0, Types DEF TypeOK
<1>1. CASE \E m \in Manifests, e \in BOOLEAN : Begin(m, e)
  <2>1. PICK m \in Manifests, e \in BOOLEAN : Begin(m, e)  BY <1>1
  <2>2. want' \in 0..MaxManifest /\ want' # 0
    BY <2>1, SomeReplicas DEF Begin, Manifests
  <2> QED  BY <1>t, <2>1, <2>2, TaskInv DEF Begin
<1>2. CASE Get  BY <1>0, <1>t, <1>2, TaskInv DEF Get, TypeOK
<1>3. CASE CreateOrUpdate  BY <1>0, <1>t, <1>3, TaskInv DEF CreateOrUpdate, TypeOK
<1>4. CASE PollPods  BY <1>4, PollPodsInv
<1>5. CASE PollStatus  BY <1>0, <1>t, <1>5, TaskInv DEF PollStatus, TypeOK
<1>6. CASE Delete  BY <1>0, <1>t, <1>6, TaskInv DEF Delete, TypeOK
<1>7. CASE PodsGone  BY <1>0, <1>t, <1>7, TaskInv DEF PodsGone, TypeOK
<1>8. CASE Fails
  <2>1. resource' \in {0, resource, want}  BY <1>8 DEF Fails
  <2>2. faults' \in Nat  BY <1>t, <1>8 DEF Fails, Fault
  <2> QED  BY <1>t, <1>8, <2>1, <2>2, TaskInv DEF Fails
<1> QED  BY <1>1, <1>2, <1>3, <1>4, <1>5, <1>6, <1>7, <1>8 DEF Task

\* A pod is replaced, collected, becomes ready or fails.
LEMMA PodInv ==
    ASSUME Inv, UNCHANGED <<unseen, resource, cached, sts, deletes>>, faults' \in Nat,
           NEW i \in Slots, NEW p \in [made : 0..MaxManifest, ready : BOOLEAN],
           pods' = [pods EXCEPT ![i] = p],
           p.made \in {0, sts, pods[i].made}
    PROVE  Inv'
<1>0. TypeOK  BY DEF Inv
<1>1. TypeOK'  BY <1>0 DEF TypeOK, unseen, taskVars, Pods
<1>2. \A j \in Slots : /\ j = i => pods'[j] = p
                       /\ j # i => pods'[j] = pods[j]
  BY <1>0 DEF TypeOK, Pods
<1>3. \A j \in Slots : pods'[j].made \in {0, sts, pods[j].made}  BY <1>2
<1>4. Replaced'  BY <1>3 DEF Inv, Replaced, unseen, taskVars
<1> QED  BY <1>1, <1>4 DEF Inv

\* Every step of the cluster keeps the invariant.
LEMMA ClusterInv ==
    ASSUME Inv, Cluster
    PROVE  Inv'
<1>0. TypeOK /\ faults \in Nat /\ deletes \in Nat  BY DEF Inv, TypeOK
<1>1. CASE Notice \/ Reconcile \/ CollectStatefulSet \/ DeletedByOthers
  <2>1. /\ UNCHANGED <<pc, want, enabled, listed, pods, faults>> /\ deletes' \in Nat
        /\ resource' \in {0, resource} /\ cached' \in {cached, resource}
        /\ sts' \in {0, sts, cached}
    BY <1>0, <1>1 DEF Notice, Reconcile, CollectStatefulSet, DeletedByOthers, unseen, taskVars,
       operandVars
  <2>2. /\ since \subseteq since' /\ since' \subseteq Manifests
        /\ pc = "status" => sts' \in {0, sts} \cup since'
    <3>1. CASE Reconcile
      <4>1. cached \in Manifests  BY <1>0, <3>1, Types DEF Reconcile, Manifests
      <4> QED  BY <1>0, <3>1, <4>1 DEF Reconcile, TypeOK
    <3>2. CASE Notice \/ CollectStatefulSet \/ DeletedByOthers
      BY <1>0, <3>2 DEF Notice, CollectStatefulSet, DeletedByOthers, unseen, operandVars, TypeOK
    <3> QED  BY <1>1, <3>1, <3>2
  <2>3. TypeOK'  BY <1>0, <2>1, <2>2, Types DEF TypeOK
  <2>4. Replaced'  BY <2>1, <2>2 DEF Inv, Replaced
  <2> QED  BY <2>3, <2>4 DEF Inv
<1>2. CASE \E i \in Slots : ReplacePod(i) \/ CollectPod(i) \/ PodReady(i) \/ PodFails(i)
  <2>1. PICK i \in Slots : ReplacePod(i) \/ CollectPod(i) \/ PodReady(i) \/ PodFails(i)
    BY <1>2
  <2>2. /\ UNCHANGED <<unseen, resource, cached, sts, deletes>> /\ faults' \in Nat
    BY <1>0, <2>1 DEF ReplacePod, CollectPod, PodReady, PodFails, Fault
  <2>3. pods[i] \in [made : 0..MaxManifest, ready : BOOLEAN]
    BY <1>0 DEF TypeOK, Pods
  <2>4. CASE ReplacePod(i)
    BY <1>0, <2>2, <2>4, PodInv, Types DEF ReplacePod
  <2>5. CASE CollectPod(i)
    BY <1>0, <2>2, <2>5, PodInv, Types, SomeReplicas DEF CollectPod, NoPod
  <2>6. CASE PodReady(i) \/ PodFails(i)
    <3>1. PICK r \in BOOLEAN : pods' = [pods EXCEPT ![i].ready = r]
      BY <2>6 DEF PodReady, PodFails
    <3>2. [pods[i] EXCEPT !.ready = r] = [made |-> pods[i].made, ready |-> r]
      BY <2>3
    <3>3. pods' = [pods EXCEPT ![i] = [pods[i] EXCEPT !.ready = r]]
      BY <3>1
    <3>4. pods' = [pods EXCEPT ![i] = [made |-> pods[i].made, ready |-> r]]
      BY <3>2, <3>3
    <3> QED  BY <2>2, <2>3, <3>1, <3>4, PodInv
  <2> QED  BY <2>1, <2>4, <2>5, <2>6
<1> QED  BY <1>1, <1>2 DEF Cluster

\* Spec is in the invariant.
THEOREM Invariance == Spec => []Inv
<1>1. Inv /\ [Next]_vars => Inv'
  <2> SUFFICES ASSUME Inv, [Next]_vars PROVE Inv'
    OBVIOUS
  <2>1. CASE UNCHANGED vars
    BY <2>1 DEF vars, Inv, TypeOK, Replaced
  <2> QED  BY <2>1, TaskStepInv, ClusterInv DEF Next
<1> QED  BY <1>1, InitInv, PTL DEF Spec

\* Type correctness.
THEOREM TypeCorrect == Spec => []TypeOK
<1>1. Inv => TypeOK  BY DEF Inv
<1> QED  BY <1>1, Invariance, PTL

\* RolledOut, two comparisons of numbers, is about every replica.
LEMMA RolledOutIsAll ==
    ASSUME RolledOut
    PROVE  \A i \in Slots : listed[i].ready /\ Visible[listed[i].made] = Visible[sts]
<1>1. UpToDate \in SUBSET Slots  BY DEF UpToDate, Ready
<1>2. Cardinality(UpToDate) = Cardinality(Slots)  BY DEF RolledOut
<1>3. UpToDate = Slots  BY <1>1, <1>2, FS_Subset, SomeReplicas
<1> QED  BY <1>3 DEF UpToDate, Ready

\* A wait that ends when the StatefulSet is up to date leaves no pod with another image
\* or other arguments, but one of a manifest that the StatefulSet has had since the pod
\* in its place was listed, which was up to date (WaitForPrometheus, PrometheusStatus).
THEOREM NoPodIsOutdated == Spec => NoOutdatedPodUnlessReverted
<1>1. ASSUME Inv, [Next]_vars, ReportsDone, sts = want, NEW i \in Slots
      PROVE  \/ pods[i].made = 0 \/ Visible[pods[i].made] = Visible[want]
             \/ /\ pods[i].made \in since
                /\ listed[i].ready /\ Visible[listed[i].made] = Visible[want]
  <2>0. TypeOK  BY <1>1 DEF Inv
  <2>1. PollStatus
    <3>1. enabled /\ pc # "ok" /\ pc' = "ok"  BY <1>1 DEF ReportsDone
    <3>2. ~PodsGone  BY <2>0, <3>1 DEF PodsGone, TypeOK
    <3> QED
      BY <1>1, <3>1, <3>2 DEF Next, Task, Cluster, Begin, Get, CreateOrUpdate, PollPods, Delete,
         Fails, Notice, Reconcile, CollectStatefulSet, DeletedByOthers, ReplacePod, CollectPod,
         PodReady, PodFails, unseen, taskVars, vars
  <2>2. RolledOut /\ pc = "status"  BY <1>1, <2>1 DEF PollStatus, ReportsDone
  <2>3. listed[i].ready /\ Visible[listed[i].made] = Visible[want]
    BY <1>1, <2>2, RolledOutIsAll
  <2>4. pods[i].made \in {0, listed[i].made} \cup since
    BY <1>1, <2>2 DEF Inv, Replaced
  <2> QED  BY <2>3, <2>4
<1>2. Inv /\ [Next]_vars =>
        [ReportsDone /\ sts = want
           => \A i \in Slots :
                \/ pods[i].made = 0 \/ Visible[pods[i].made] = Visible[want]
                \/ /\ pods[i].made \in since
                   /\ listed[i].ready /\ Visible[listed[i].made] = Visible[want]]_vars
  BY <1>1
<1> QED  BY <1>2, Invariance, PTL DEF Spec, NoOutdatedPodUnlessReverted
=============================================================================
