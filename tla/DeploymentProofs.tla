-------------------------- MODULE DeploymentProofs --------------------------
(***************************************************************************)
(* A task that reports a Deployment or DaemonSet as rolled out is right,    *)
(* for any number of replicas, manifests, faults and deletions.             *)
(***************************************************************************)
EXTENDS Deployment, FiniteSetTheorems, TLAPS

ObjectType ==
    [exists : BOOLEAN, deleting : BOOLEAN, spec : 0..MaxManifest, generation : Nat,
     status : [observed : Nat, replicas : Count, updated : Count, unavailable : Count]]

PodsType == [Slots -> [made : 0..MaxManifest, ready : BOOLEAN]]

\* No object, and one that was just created.
LEMMA ObjectTypes ==
    ASSUME TypeOK, want # 0
    PROVE  /\ NoObject \in ObjectType
           /\ [NoObject EXCEPT !.exists = TRUE, !.spec = want, !.generation = 1] \in ObjectType
           /\ Updated \in ObjectType
<1>1. 0 \in Count /\ want \in 0..MaxManifest /\ 0 \in 0..MaxManifest
  BY SomeSlots, SelectorsMoveOn, FS_CardinalityType DEF Count, TypeOK
<1>2. NoStatus \in [observed : Nat, replicas : Count, updated : Count, unavailable : Count]
  BY <1>1 DEF NoStatus
<1>3. NoObject \in ObjectType
  BY <1>1, <1>2 DEF NoObject, ObjectType
<1>4. [NoObject EXCEPT !.exists = TRUE, !.spec = want, !.generation = 1] \in ObjectType
  BY <1>1, <1>3 DEF NoObject, ObjectType
<1>5. Updated \in ObjectType
  <2>1. object \in ObjectType
    BY DEF ObjectType, TypeOK
  <2>2. object.generation \in Nat /\ object.generation + 1 \in Nat
    BY <2>1 DEF ObjectType
  <2>3. \A g \in Nat : [object EXCEPT !.spec = want, !.generation = g] \in ObjectType
    BY <1>1, <2>1 DEF ObjectType
  <2> QED BY <2>1, <2>2, <2>3 DEF Updated, ObjectType
<1> QED BY <1>3, <1>4, <1>5

\* The counts of the status are counts of slots, and a status that is complete
\* is one of pods that are all made from the present manifest.
LEMMA StatusCounts ==
    ASSUME TypeOK, ReadyPodsExist, object.spec # 0
    PROVE  /\ {Cardinality(Running), Cardinality(UpToDate),
               Cardinality(Slots) - Cardinality(Available)} \subseteq Count
           /\ Cardinality(UpToDate) = Cardinality(Running)
              /\ Cardinality(Slots) - Cardinality(Available) = 0
                 => \A i \in Slots : pods[i].made = object.spec
<1>1. /\ Running \in SUBSET Slots /\ Available \in SUBSET Slots
      /\ UpToDate \in SUBSET Slots /\ UpToDate \in SUBSET Running
  BY DEF Running, Available, UpToDate
<1>2. /\ IsFiniteSet(Running)
      /\ Cardinality(Running) <= Cardinality(Slots)
      /\ Cardinality(Available) <= Cardinality(Slots)
      /\ Cardinality(UpToDate) <= Cardinality(Slots)
      /\ Cardinality(Slots) = Cardinality(Available) => Slots = Available
  BY <1>1, FS_Subset, SomeSlots
<1>3. Cardinality(Running) = Cardinality(UpToDate) => Running = UpToDate
  BY <1>1, <1>2, FS_Subset
<1>4. /\ Cardinality(Slots) \in Nat /\ Cardinality(Running) \in Nat
      /\ Cardinality(Available) \in Nat /\ Cardinality(UpToDate) \in Nat
  BY <1>1, FS_Subset, FS_CardinalityType, SomeSlots
<1>5. ASSUME Cardinality(UpToDate) = Cardinality(Running),
             Cardinality(Slots) - Cardinality(Available) = 0
      PROVE  \A i \in Slots : pods[i].made = object.spec
  <2>1. Slots = Available
    BY <1>2, <1>4, <1>5
  <2>2. Running = UpToDate
    BY <1>3, <1>5
  <2>3. Slots = Running
    BY <2>1 DEF Available, Running, ReadyPodsExist
  <2> QED BY <2>2, <2>3 DEF UpToDate
<1> QED BY <1>2, <1>4, <1>5 DEF Count

-----------------------------------------------------------------------------
LEMMA InitInv == Init => IInv
<1> SUFFICES ASSUME Init PROVE IInv
  OBVIOUS
<1>1. 0 \in Count /\ 0 \in 0..MaxManifest
  BY SomeSlots, SelectorsMoveOn, FS_CardinalityType DEF Count
<1> QED
  BY <1>1 DEF Init, IInv, TypeOK, ReadyPodsExist, SpecIsWanted, DeletingIsOld, StatusIsTrue, NoObject,
     NoStatus, NoPod

\* An earlier manifest with another selector has a smaller one.
LEMMA OlderSelector ==
    ASSUME NEW m \in Manifests, NEW n \in Manifests, m <= n, Selector[m] # Selector[n]
    PROVE  Selector[m] < Selector[n]
BY SelectorsMoveOn

\* Without the object nothing is promised.
LEMMA ObjectGone ==
    ASSUME IInv, object' = NoObject, seen' = 0, UNCHANGED <<kind, want>>,
           pods' = pods \/ pods' = [i \in Slots |-> NoPod], faults' \in Nat, deletes' \in Nat,
           pc' \in {"idle", "get", "create", "update", "delete", "recreate", "wait", "ok", "failed"},
           pc' # "idle" => want # 0
    PROVE  IInv'
<1>1. 0 \in Count /\ 0 \in 0..MaxManifest
  BY SomeSlots, SelectorsMoveOn, FS_CardinalityType DEF Count
<1>2. NoObject \in ObjectType
  BY <1>1 DEF NoObject, NoStatus, ObjectType
<1>3. pods' \in PodsType /\ \A i \in Slots : pods'[i].ready => pods'[i].made # 0
  <2>1. CASE pods' = pods
    BY <2>1 DEF IInv, TypeOK, PodsType, ReadyPodsExist
  <2>2. CASE pods' = [i \in Slots |-> NoPod]
    <3>1. pods' \in PodsType
      BY <1>1, <2>2 DEF PodsType, NoPod
    <3>2. \A i \in Slots : ~pods'[i].ready
      BY <2>2 DEF NoPod
    <3> QED BY <3>1, <3>2
  <2> QED BY <2>1, <2>2
<1>a. ~object'.deleting  BY DEF NoObject
<1>4. TypeOK'
  BY <1>1, <1>2, <1>3, <1>a DEF IInv, TypeOK, ObjectType, PodsType, Count
<1> QED
  BY <1>3, <1>4 DEF IInv, ReadyPodsExist, SpecIsWanted, DeletingIsOld, StatusIsTrue, NoObject

\* The steps of the task.
LEMMA TaskStep ==
    ASSUME IInv, Task
    PROVE  IInv'
<1> USE DEF IInv
<1>0. /\ object \in ObjectType /\ pods \in PodsType
      /\ want \in 0..MaxManifest /\ MaxManifest \in Nat
      /\ \A m \in Manifests : Selector[m] \in Nat
  BY SelectorsMoveOn DEF TypeOK, ObjectType, PodsType
<1>1. ASSUME NEW m \in Manifests, Begin(m) PROVE IInv'
  <2>1. UNCHANGED <<kind, object, seen, pods, deletes, faults>> /\ want' = m /\ pc' = "get" /\ m >= want
    BY <1>1 DEF Begin, clusterVars
  <2>2. TypeOK' /\ ReadyPodsExist' /\ StatusIsTrue'
    BY <1>0, <2>1 DEF TypeOK, ReadyPodsExist, StatusIsTrue, RolledOut, Manifests, Count
  <2>3. SpecIsWanted'
    BY <1>0, <2>1 DEF SpecIsWanted, Manifests, ObjectType
  <2>4. DeletingIsOld'
    <3>1. ASSUME object.deleting PROVE Selector[object.spec] < Selector[m]
      <4>1. object.exists /\ object.spec \in Manifests /\ want \in Manifests
        BY <1>0, <3>1 DEF TypeOK, NoObject, SpecIsWanted, Manifests, ObjectType
      <4>2. Selector[want] <= Selector[m]
        BY <2>1, <4>1, SelectorsMoveOn
      <4>3. Selector[object.spec] < Selector[want]
        BY <3>1 DEF DeletingIsOld
      <4>4. /\ Selector[object.spec] \in Nat /\ Selector[want] \in Nat /\ Selector[m] \in Nat
        BY <1>0, <1>1, <4>1
      <4> QED BY <4>2, <4>3, <4>4
    <3> QED BY <2>1, <3>1 DEF DeletingIsOld
  <2> QED BY <2>2, <2>3, <2>4
<1>2. ASSUME Get \/ WaitForRollout \/ Fails PROVE IInv'
  <2>1. /\ UNCHANGED <<kind, object, seen, pods, deletes, want>>
        /\ pc # "idle" /\ pc' \in {"update", "create", "failed", "ok"}
        /\ faults' \in Nat
    BY <1>2, SelectorsMoveOn DEF Get, WaitForRollout, Fails, Fault, clusterVars, TypeOK
  <2> QED
    BY <2>1 DEF TypeOK, ReadyPodsExist, StatusIsTrue, SpecIsWanted, DeletingIsOld, RolledOut, Count
\* What the API server does of an update, a deletion and a creation.
<1>a. ASSUME UNCHANGED <<kind, want, seen, pods, deletes>>, faults' \in Nat, want # 0,
             object.exists, Selector[object.spec] = Selector[want], object' = Updated,
             pc' \in {"wait", "failed"}
      PROVE  IInv'
  <2>1. ~object.deleting /\ object'.deleting = FALSE /\ object'.exists = TRUE
    BY <1>0, <1>a DEF DeletingIsOld, Updated, ObjectType, SpecIsWanted, Manifests
  <2>2. TypeOK'
    BY <1>0, <1>a, <2>1, ObjectTypes DEF TypeOK, ObjectType, PodsType, Count
  <2>3. SpecIsWanted' /\ DeletingIsOld' /\ ReadyPodsExist'
    BY <1>0, <1>a, <2>1 DEF SpecIsWanted, DeletingIsOld, Updated, ObjectType, ReadyPodsExist
  <2>4. CASE object.spec = want
    <3>1. object' = object
      BY <1>0, <1>a, <2>4 DEF Updated, ObjectType
    <3> QED BY <1>a, <2>2, <2>3, <3>1 DEF StatusIsTrue, RolledOut
  <2>5. CASE object.spec # want
    <3>1. object'.generation = object.generation + 1 /\ object'.status = object.status
      BY <1>0, <1>a, <2>5 DEF Updated, ObjectType
    <3>2. object.generation \in Nat /\ object.status.observed \in Nat
      BY <1>0 DEF ObjectType
    <3>3. StatusIsTrue'
      BY <1>a, <3>1, <3>2 DEF StatusIsTrue, RolledOut
    <3> QED BY <2>2, <2>3, <3>3
  <2> QED BY <2>4, <2>5
<1>b. ASSUME UNCHANGED <<kind, want, seen, pods, deletes>>, faults' \in Nat, want # 0, pc = "delete",
             object' = [object EXCEPT !.deleting = object.exists], pc' \in {"recreate", "failed"},
             object.exists => kind = "Deployment"
      PROVE  IInv'
  <2>1. CASE object.exists
    <3>1. /\ object'.deleting = TRUE /\ object'.exists = object.exists /\ object'.spec = object.spec
          /\ object'.generation = object.generation /\ object'.status = object.status
          /\ object' \in ObjectType
      BY <1>0, <1>b, <2>1 DEF ObjectType
    <3> QED
      BY <1>b, <2>1, <3>1 DEF TypeOK, ObjectType, Count, ReadyPodsExist, SpecIsWanted, DeletingIsOld,
         StatusIsTrue, RolledOut
  <2>2. CASE ~object.exists
    <3>1. object' = object
      BY <1>0, <1>b, <2>2 DEF TypeOK, NoObject, ObjectType
    <3> QED
      BY <1>b, <2>2, <3>1 DEF TypeOK, Count, ReadyPodsExist, SpecIsWanted, DeletingIsOld, StatusIsTrue
  <2> QED BY <2>1, <2>2
<1>c. ASSUME UNCHANGED <<kind, want, seen, pods, deletes>>, faults' \in Nat, want # 0,
             object' = [NoObject EXCEPT !.exists = TRUE, !.spec = want, !.generation = 1],
             pc' \in {"wait", "failed"}
      PROVE  IInv'
  <2>1. /\ object'.exists = TRUE /\ object'.deleting = FALSE /\ object'.spec = want
        /\ object'.generation = 1 /\ object'.status.observed = 0
    BY <1>c DEF NoObject, NoStatus
  <2>2. TypeOK'
    BY <1>0, <1>c, <2>1, ObjectTypes DEF TypeOK, ObjectType, PodsType, Count
  <2> QED
    BY <1>0, <1>c, <2>1, <2>2 DEF SpecIsWanted, DeletingIsOld, ReadyPodsExist, StatusIsTrue, RolledOut
<1>d. ASSUME UNCHANGED <<kind, want, seen, pods, deletes, object>>, faults' \in Nat, want # 0,
             pc' = "failed"
      PROVE  IInv'
  BY <1>d DEF TypeOK, ReadyPodsExist, StatusIsTrue, SpecIsWanted, DeletingIsOld, RolledOut, Count
<1>e. faults \in Nat /\ (Fault => faults' \in Nat) /\ (pc # "idle" => want # 0)
  BY DEF TypeOK, Fault, SpecIsWanted
<1>3. ASSUME Update PROVE IInv'
  <2>1. CASE object.exists /\ Selector[object.spec] = Selector[want]
    BY <1>3, <1>a, <1>e, <2>1 DEF Update
  <2>2. CASE object.exists /\ Selector[object.spec] # Selector[want]
    <3>1. object.spec \in Manifests /\ want \in Manifests /\ object.spec <= want
      BY <1>0, <2>2 DEF SpecIsWanted, ObjectType, Manifests
    <3>2. Selector[object.spec] < Selector[want]
      BY <2>2, <3>1, OlderSelector
    <3> QED
      BY <1>3, <1>e, <2>2, <3>2 DEF Update, TypeOK, ReadyPodsExist, StatusIsTrue, SpecIsWanted,
         DeletingIsOld, RolledOut, Count
  <2>3. CASE ~object.exists
    BY <1>3, <1>d, <1>e, <2>3 DEF Update
  <2> QED BY <2>1, <2>2, <2>3
<1>f. ASSUME UNCHANGED <<kind, want, deletes>>, faults' \in Nat, want # 0, pc = "delete", RemoveOrMark,
             pc' \in {"recreate", "failed"}
      PROVE  IInv'
  <2>1. CASE kind = "Deployment" \/ ~object.exists
    BY <1>b, <1>f, <2>1 DEF RemoveOrMark
  <2>2. CASE ~(kind = "Deployment" \/ ~object.exists)
    <3>1. deletes' \in Nat
      BY <1>f DEF TypeOK
    <3>2. object' = NoObject /\ seen' = 0 /\ pods' = [i \in Slots |-> NoPod]
      BY <1>f, <2>2 DEF RemoveOrMark
    <3> QED BY <1>f, <3>1, <3>2, ObjectGone
  <2> QED BY <2>1, <2>2
<1>4. ASSUME Delete PROVE IInv'
  BY <1>4, <1>e, <1>f DEF Delete
<1>5. ASSUME Create PROVE IInv'
  BY <1>5, <1>c, <1>d, <1>e DEF Create
<1>6. ASSUME LostResponse PROVE IInv'
  BY <1>6, <1>a, <1>c, <1>e, <1>f DEF LostResponse
<1> QED
  BY <1>1, <1>2, <1>3, <1>4, <1>5, <1>6 DEF Task

\* The steps of the cluster.
LEMMA ClusterStep ==
    ASSUME IInv, Cluster
    PROVE  IInv'
<1> USE DEF IInv
<1>0. /\ object \in ObjectType /\ pods \in PodsType /\ seen \in 0..MaxManifest
      /\ MaxManifest \in Nat /\ want \in 0..MaxManifest
      /\ NoPod \in [made : 0..MaxManifest, ready : BOOLEAN]
  BY SelectorsMoveOn DEF TypeOK, ObjectType, PodsType, NoPod
<1>1. ASSUME Observe PROVE IInv'
  <2>0. object.exists /\ object.spec # 0 /\ UNCHANGED <<kind, pc, want, pods, faults, deletes>>
        /\ seen' = object.spec
    BY <1>1 DEF Observe, SpecIsWanted
  <2>1. /\ object'.exists = object.exists /\ object'.deleting = object.deleting
        /\ object'.spec = object.spec /\ object'.generation = object.generation
        /\ object'.status = [observed |-> object.generation,
                             replicas |-> Cardinality(Running),
                             updated |-> Cardinality(UpToDate),
                             unavailable |-> Cardinality(Slots) - Cardinality(Available)]
        /\ object' = [object EXCEPT !.status = object'.status]
    BY <1>0, <1>1 DEF Observe, ObjectType
  <2>2. /\ Cardinality(Running) \in Count /\ Cardinality(UpToDate) \in Count
        /\ Cardinality(Slots) - Cardinality(Available) \in Count
    BY <2>0, StatusCounts
  <2>3. object'.status \in [observed : Nat, replicas : Count, updated : Count, unavailable : Count]
    BY <1>0, <2>1, <2>2 DEF ObjectType
  <2>4. object' \in ObjectType
    BY <1>0, <2>1, <2>3 DEF ObjectType
  <2>5. TypeOK'
    BY <1>0, <2>0, <2>1, <2>4 DEF TypeOK, ObjectType, Count
  <2>6. StatusIsTrue'
    <3>1. RolledOut(object') => \A i \in Slots : pods'[i].made = object'.spec
      BY <2>0, <2>1, StatusCounts DEF RolledOut
    <3> QED BY <1>0, <2>0, <2>1, <3>1 DEF StatusIsTrue, ObjectType
  <2> QED
    BY <2>0, <2>1, <2>5, <2>6 DEF ReadyPodsExist, SpecIsWanted, DeletingIsOld
<1>2. ASSUME CollectObject \/ DeletedByOthers PROVE IInv'
  <2>1. /\ object' = NoObject /\ seen' = 0 /\ UNCHANGED <<kind, pc, want, faults>>
        /\ deletes' \in Nat
        /\ pods' = pods \/ pods' = [i \in Slots |-> NoPod]
    BY <1>2 DEF CollectObject, DeletedByOthers, TypeOK
  <2>2. faults' \in Nat /\ (pc' # "idle" => want # 0)
        /\ pc' \in {"idle", "get", "create", "update", "delete", "recreate", "wait", "ok", "failed"}
    BY <2>1 DEF TypeOK, SpecIsWanted
  <2> QED BY <2>1, <2>2, ObjectGone
<1>3. ASSUME NEW i \in Slots, ReplacePod(i) \/ PodReady(i) \/ PodFails(i) \/ CollectPod(i)
      PROVE  IInv'
  <2>1. UNCHANGED <<kind, pc, want, object, seen, deletes>> /\ faults' \in Nat
    BY <1>3 DEF ReplacePod, PodReady, PodFails, CollectPod, Fault, TypeOK
  <2>2. PICK p \in [made : 0..MaxManifest, ready : BOOLEAN] :
           pods' = [pods EXCEPT ![i] = p] /\ (p.ready => p.made # 0)
                   /\ (p.made = pods[i].made \/ (p.made = seen /\ pods[i].made # seen)
                       \/ object.deleting)
    <3>1. CASE ReplacePod(i)
      <4>1. [made |-> seen, ready |-> FALSE] \in [made : 0..MaxManifest, ready : BOOLEAN]
        BY <1>0
      <4>2. pods' = [pods EXCEPT ![i] = [made |-> seen, ready |-> FALSE]] /\ pods[i].made # seen
        BY <3>1 DEF ReplacePod
      <4> QED BY <4>1, <4>2
    <3>2. CASE CollectPod(i)
      <4>1. pods' = [pods EXCEPT ![i] = NoPod] /\ object.deleting
        BY <3>2 DEF CollectPod
      <4>2. NoPod.ready = FALSE
        BY DEF NoPod
      <4> QED BY <1>0, <4>1, <4>2
    <3>3. CASE PodReady(i)
      <4>1. pods' = [pods EXCEPT ![i] = [pods[i] EXCEPT !.ready = TRUE]]
        BY <1>0, <3>3 DEF PodReady, PodsType
      <4> QED BY <1>0, <3>3, <4>1 DEF PodReady, PodsType
    <3>4. CASE PodFails(i)
      <4>1. pods' = [pods EXCEPT ![i] = [pods[i] EXCEPT !.ready = FALSE]]
        BY <1>0, <3>4 DEF PodFails, PodsType
      <4> QED BY <1>0, <3>4, <4>1 DEF PodFails, PodsType
    <3> QED BY <1>3, <3>1, <3>2, <3>3, <3>4
  <2>3. TypeOK' /\ ReadyPodsExist'
    BY <1>0, <2>1, <2>2 DEF TypeOK, Count, ReadyPodsExist, PodsType
  <2>4. StatusIsTrue'
    <3>1. ASSUME object.exists, RolledOut(object), ~object.deleting, NEW j \in Slots
          PROVE  pods'[j].made = object.spec
      <4>1. seen = object.spec /\ pods[j].made = object.spec
        BY <1>0, <3>1 DEF StatusIsTrue, RolledOut, ObjectType
      <4> QED BY <1>0, <2>2, <3>1, <4>1 DEF PodsType
    <3> QED BY <2>1, <3>1 DEF StatusIsTrue, RolledOut
  <2> QED BY <2>1, <2>3, <2>4 DEF SpecIsWanted, DeletingIsOld
<1> QED
  BY <1>1, <1>2, <1>3 DEF Cluster

LEMMA StutterStep ==
    ASSUME IInv, UNCHANGED vars
    PROVE  IInv'
BY DEF IInv, vars, TypeOK, Count, ReadyPodsExist, SpecIsWanted, DeletingIsOld, StatusIsTrue, RolledOut

\* The inductive invariant.
LEMMA Invariance == Spec => []IInv
<1>1. IInv /\ [Next]_vars => IInv'
  BY TaskStep, ClusterStep, StutterStep DEF Next
<1> QED BY InitInv, <1>1, PTL DEF Spec

\* The types of the Deployment's state, whatever the constants.
THEOREM TypeCorrect == Spec => []TypeOK
<1>1. IInv => TypeOK
  BY DEF IInv
<1> QED BY Invariance, <1>1, PTL

\* WaitForDeploymentRollout and WaitForDaemonSetRollout return without an error
\* only when every pod is made from the manifest that was applied and the
\* object is not about to go.
THEOREM RolloutIsComplete == Spec => RolledOutWhenOk
<1>1. ASSUME IInv, [Next]_vars, pc # "ok", pc' = "ok"
      PROVE  ~object.deleting /\ \A i \in Slots : pods[i].made = want
  <2>1. WaitForRollout
    BY <1>1 DEF Next, Task, Begin, Get, Update, Delete, Create, Fails, LostResponse, Cluster, Observe,
       CollectObject, DeletedByOthers, ReplacePod, PodReady, PodFails, CollectPod, vars
  <2>2. pc = "wait" /\ object.exists /\ RolledOut(object)
    BY <1>1, <2>1 DEF WaitForRollout
  <2>3. object.spec = want
    BY <1>1, <2>2 DEF IInv, SpecIsWanted
  <2>4. ~object.deleting
    <3>1. want \in Manifests /\ Selector[want] \in Nat
      BY <1>1, <2>2, SelectorsMoveOn DEF IInv, TypeOK, SpecIsWanted, Manifests
    <3> QED BY <1>1, <2>3, <3>1 DEF IInv, DeletingIsOld
  <2> QED BY <1>1, <2>2, <2>3, <2>4 DEF IInv, StatusIsTrue
<1> QED BY Invariance, <1>1, PTL DEF Spec, RolledOutWhenOk
-----------------------------------------------------------------------------
(* The refinement.                                                         *)

\* What a status that ends the wait tells of the controller and the pods.
LEMMA CompleteRollout ==
    ASSUME IInv, pc = "wait", object.exists, RolledOut(object)
    PROVE  /\ ~object.deleting /\ object.spec = want /\ seen = want
           /\ \A i \in Slots : pods[i].made = want
<1>1. object.spec = want
  BY DEF IInv, SpecIsWanted
<1>2. ~object.deleting
  <2>1. want \in Manifests /\ Selector[want] \in Nat
    BY SelectorsMoveOn DEF IInv, TypeOK, SpecIsWanted, Manifests
  <2> QED BY <1>1, <2>1 DEF IInv, DeletingIsOld
<1>3. object.status.observed = object.generation
  BY DEF IInv, TypeOK, StatusIsTrue, RolledOut
<1> QED BY <1>1, <1>2, <1>3 DEF IInv, StatusIsTrue

LEMMA PodsFollowTask ==
    ASSUME IInv, PodsFollow, Task
    PROVE  PodsFollow'
<1>0. /\ object \in ObjectType /\ seen \in Nat /\ want \in Nat
      /\ ~object.exists => object = NoObject
  BY SelectorsMoveOn DEF IInv, TypeOK, ObjectType
<1>1. ASSUME NEW m \in Manifests, Begin(m) PROVE PodsFollow'
  BY <1>0, <1>1 DEF Begin, clusterVars, PodsFollow, Manifests
<1>2. ASSUME Get \/ Fails PROVE PodsFollow'
  BY <1>2 DEF Get, Fails, clusterVars, PodsFollow
<1>3. ASSUME WaitForRollout PROVE PodsFollow'
  BY <1>3, CompleteRollout DEF WaitForRollout, clusterVars, PodsFollow
\* What the API server does of an update, a deletion and a creation.
<1>a. ASSUME UNCHANGED <<want, seen, pods>>, object.exists, object' = Updated, pc' \notin {"ok", "idle"}
      PROVE  PodsFollow'
  <2>1. object'.exists = object.exists /\ object'.status = object.status
    BY <1>0, <1>a DEF Updated, ObjectType
  <2> QED BY <1>a, <2>1 DEF PodsFollow
<1>b. ASSUME RemoveOrMark, UNCHANGED want, pc' \notin {"ok", "idle"} PROVE PodsFollow'
  <2>1. CASE kind = "Deployment" \/ ~object.exists
    <3>1. object'.exists = object.exists /\ object'.status = object.status /\ UNCHANGED <<seen, pods>>
      BY <1>0, <1>b, <2>1 DEF RemoveOrMark, ObjectType
    <3> QED BY <1>b, <3>1 DEF PodsFollow
  <2>2. CASE ~(kind = "Deployment" \/ ~object.exists)
    <3>1. object' = NoObject /\ seen' = 0 /\ pods' = [i \in Slots |-> NoPod]
      BY <1>b, <2>2 DEF RemoveOrMark
    <3>2. object'.exists = FALSE
      BY <3>1 DEF NoObject
    <3> QED BY <1>0, <1>b, <3>1, <3>2 DEF PodsFollow
  <2> QED BY <2>1, <2>2
<1>c. ASSUME UNCHANGED <<want, seen, pods>>, pc' \notin {"ok", "idle"},
             object' = [NoObject EXCEPT !.exists = TRUE, !.spec = want, !.generation = 1]
      PROVE  PodsFollow'
  <2>1. object'.exists = TRUE /\ object'.status.observed = 0
    BY <1>c DEF NoObject, NoStatus
  <2> QED BY <1>c, <2>1 DEF PodsFollow
<1>d. ASSUME UNCHANGED <<want, seen, pods, object>>, pc' \notin {"ok", "idle"} PROVE PodsFollow'
  BY <1>d DEF PodsFollow
<1>4. ASSUME Update PROVE PodsFollow'
  BY <1>4, <1>a, <1>d DEF Update
<1>5. ASSUME Delete PROVE PodsFollow'
  BY <1>5, <1>b DEF Delete
<1>6. ASSUME Create PROVE PodsFollow'
  BY <1>6, <1>c, <1>d DEF Create
<1>7. ASSUME LostResponse PROVE PodsFollow'
  BY <1>7, <1>a, <1>b, <1>c DEF LostResponse
<1> QED BY <1>1, <1>2, <1>3, <1>4, <1>5, <1>6, <1>7 DEF Task

LEMMA PodsFollowCluster ==
    ASSUME IInv, PodsFollow, Cluster
    PROVE  PodsFollow'
<1>0. /\ object \in ObjectType /\ pods \in PodsType /\ seen \in Nat /\ want \in Nat
      /\ ~object.exists => object = NoObject
  BY SelectorsMoveOn DEF IInv, TypeOK, ObjectType, PodsType
<1>1. ASSUME Observe PROVE PodsFollow'
  <2>1. /\ object'.exists = object.exists /\ object'.deleting = object.deleting
        /\ object'.spec = object.spec /\ object.exists /\ seen' = object.spec
        /\ UNCHANGED <<pc, want, pods>>
    BY <1>0, <1>1 DEF Observe, ObjectType
  <2>2. object.spec # 0 /\ object.spec <= want
    BY <2>1 DEF IInv, SpecIsWanted
  <2> QED BY <2>1, <2>2 DEF PodsFollow
<1>2. ASSUME CollectObject PROVE PodsFollow'
  <2>1. pods = [i \in Slots |-> NoPod]
    <3>1. \A i \in Slots : pods[i].made = 0 /\ ~pods[i].ready
      BY <1>2 DEF CollectObject, IInv, ReadyPodsExist
    <3>2. \A i \in Slots : pods[i] = NoPod
      BY <1>0, <3>1 DEF PodsType, NoPod
    <3> QED BY <1>0, <3>2 DEF PodsType
  <2>2. object'.exists = FALSE
    BY <1>2 DEF CollectObject, NoObject
  <2> QED BY <1>0, <1>2, <2>1, <2>2 DEF CollectObject, PodsFollow
<1>3. ASSUME DeletedByOthers PROVE PodsFollow'
  <2>1. object'.exists = FALSE
    BY <1>3 DEF DeletedByOthers, NoObject
  <2> QED BY <1>0, <1>3, <2>1 DEF DeletedByOthers, PodsFollow
<1>4. ASSUME NEW i \in Slots, ReplacePod(i) \/ PodReady(i) \/ PodFails(i) \/ CollectPod(i)
      PROVE  PodsFollow'
  <2>1. UNCHANGED <<pc, want, object, seen>>
    BY <1>4 DEF ReplacePod, PodReady, PodFails, CollectPod
  <2>2. object.exists
    <3>1. ASSUME ~object.exists PROVE FALSE
      <4>1. ~object.deleting
        BY <1>0, <3>1 DEF NoObject
      <4>2. pods[i].made = 0 /\ ~pods[i].ready
        BY <3>1 DEF PodsFollow, NoPod
      <4> QED BY <1>4, <3>1, <4>1, <4>2 DEF ReplacePod, PodReady, PodFails, CollectPod
    <3> QED BY <3>1
  <2>3. ASSUME pc = "ok", NEW j \in Slots PROVE pods'[j].made = want
    <3>1. ~object.deleting /\ seen = want /\ \A k \in Slots : pods[k].made = want
      BY <2>2, <2>3 DEF PodsFollow
    <3>2. PodReady(i) \/ PodFails(i)
      BY <1>4, <3>1 DEF ReplacePod, CollectPod
    <3> QED BY <1>0, <3>1, <3>2 DEF PodReady, PodFails, PodsType
  <2> QED BY <2>1, <2>2, <2>3 DEF PodsFollow
<1> QED BY <1>1, <1>2, <1>3, <1>4 DEF Cluster

\* The pods follow the task in every state.
LEMMA PodsFollowAlways == Spec => []PodsFollow
<1>1. ASSUME Init PROVE PodsFollow
  BY <1>1, SelectorsMoveOn DEF Init, PodsFollow, NoObject
<1>2. ASSUME IInv, PodsFollow, [Next]_vars PROVE PodsFollow'
  <2>1. CASE UNCHANGED vars
    BY <1>2, <2>1 DEF vars, PodsFollow
  <2> QED BY <1>2, <2>1, PodsFollowTask, PodsFollowCluster DEF Next
<1> QED BY Invariance, <1>1, <1>2, PTL DEF Spec

\* The pods as the abstract specification sees them: they are unchanged, some
\* are removed, or they are replaced by what the target allows.
LEMMA AbstractTask ==
    ASSUME IInv, PodsFollow, Task
    PROVE  Abstract!Next \/ UNCHANGED Abstract!rolloutVars
<1> USE DEF Abstract!Next, Abstract!rolloutVars, RolloutPhase
<1>0. pods \in PodsType /\ MaxManifest \in Nat /\ (pc # "idle" => want \in Manifests)
  BY SelectorsMoveOn DEF IInv, TypeOK, PodsType, SpecIsWanted, Manifests
<1>1. ASSUME NEW m \in Manifests, Begin(m) PROVE Abstract!Begin(m)
  BY <1>1 DEF Begin, clusterVars, Abstract!Begin, PodsMade
\* Without a change of the pods.
<1>2. ASSUME UNCHANGED <<want, pods>>, pc \notin {"idle", "ok", "failed"},
             pc' \notin {"idle", "ok", "failed"}
      PROVE  UNCHANGED Abstract!rolloutVars
  BY <1>2 DEF PodsMade
<1>3. ASSUME UNCHANGED want, pc \notin {"idle", "ok", "failed"},
             pods' = pods \/ pods' = [i \in Slots |-> NoPod]
      PROVE  /\ PodsMade' \in [Slots -> Manifests \cup {0}]
             /\ \A i \in Slots : PodsMade'[i] \in {PodsMade[i], 0}
  <2>1. CASE pods' = pods
    BY <1>0, <2>1 DEF PodsMade, PodsType, Manifests
  <2>2. CASE pods' = [i \in Slots |-> NoPod]
    BY <1>0, <2>2 DEF PodsMade, NoPod, Manifests
  <2> QED BY <1>3, <2>1, <2>2
<1>4. ASSUME UNCHANGED want, pc \notin {"idle", "ok", "failed"}, pc' = "failed",
             pods' = pods \/ pods' = [i \in Slots |-> NoPod]
      PROVE  Abstract!Fail
  BY <1>3, <1>4 DEF Abstract!Fail
<1>5. ASSUME UNCHANGED want, pc \notin {"idle", "ok", "failed"},
             pc' \notin {"idle", "ok", "failed"}, pods' = pods \/ pods' = [i \in Slots |-> NoPod]
      PROVE  Abstract!Change
  BY <1>3, <1>5 DEF Abstract!Change
<1>6. ASSUME WaitForRollout, pc' = "ok" PROVE Abstract!Succeed
  <2>1. \A i \in Slots : PodsMade[i] = want
    BY <1>6, CompleteRollout DEF WaitForRollout, PodsMade
  <2>2. pc = "wait" /\ UNCHANGED <<want, pods>>
    BY <1>6 DEF WaitForRollout, clusterVars
  <2> QED BY <1>6, <2>1, <2>2 DEF Abstract!Succeed, PodsMade
<1>7. ASSUME Get PROVE UNCHANGED Abstract!rolloutVars
  BY <1>2, <1>7 DEF Get, clusterVars
<1>8. ASSUME Update \/ Create PROVE UNCHANGED Abstract!rolloutVars \/ Abstract!Fail
  BY <1>2, <1>4, <1>8 DEF Update, Create
<1>9. RemoveOrMark => pods' = pods \/ pods' = [i \in Slots |-> NoPod]
  BY DEF RemoveOrMark
<1>10. ASSUME Delete PROVE Abstract!Change
  BY <1>5, <1>9, <1>10 DEF Delete
<1>11. ASSUME Fails \/ LostResponse PROVE Abstract!Fail
  BY <1>4, <1>9, <1>11 DEF Fails, LostResponse, clusterVars
<1>12. ASSUME WaitForRollout, pc' # "ok" PROVE Abstract!Fail
  BY <1>4, <1>12 DEF WaitForRollout, clusterVars
<1> QED BY <1>1, <1>6, <1>7, <1>8, <1>10, <1>11, <1>12 DEF Task

LEMMA AbstractCluster ==
    ASSUME IInv, PodsFollow, Cluster
    PROVE  Abstract!Change \/ UNCHANGED Abstract!rolloutVars
<1> USE DEF Abstract!rolloutVars, RolloutPhase
<1>0. /\ pods \in PodsType /\ MaxManifest \in Nat /\ seen \in 0..MaxManifest
      /\ pc # "idle" => want \in Manifests
      /\ want \in 0..MaxManifest
  BY SelectorsMoveOn DEF IInv, TypeOK, PodsType, SpecIsWanted, Manifests
\* Some pods are removed, or one is replaced by what the controller has seen.
<1>1. ASSUME object.exists, UNCHANGED <<pc, want>>, PodsMade' \in [Slots -> 0..MaxManifest],
             \A i \in Slots : \/ PodsMade'[i] \in {PodsMade[i], 0}
                              \/ pc # "ok" /\ PodsMade'[i] \in 1..want
      PROVE  Abstract!Change
  <2>1. pc # "idle"
    BY <1>1 DEF PodsFollow, IInv, TypeOK, SpecIsWanted
  <2>2. AllowedPods[want] = 1..want
    BY <1>0, <2>1 DEF AllowedPods
  <2>3. PodsMade' \in [Slots -> Manifests \cup {0}]
    BY <1>0, <1>1 DEF Manifests
  <2> QED BY <1>1, <2>1, <2>2, <2>3 DEF Abstract!Change
<1>2. ASSUME Observe \/ CollectObject PROVE UNCHANGED Abstract!rolloutVars
  BY <1>2 DEF Observe, CollectObject, PodsMade
<1>3. ASSUME DeletedByOthers PROVE Abstract!Change
  <2>1. object.exists /\ UNCHANGED <<pc, want>> /\ pods' = [i \in Slots |-> NoPod]
    BY <1>3 DEF DeletedByOthers
  <2>2. PodsMade' = [i \in Slots |-> 0]
    BY <2>1 DEF PodsMade, NoPod
  <2>3. PodsMade' \in [Slots -> 0..MaxManifest] /\ \A i \in Slots : PodsMade'[i] = 0
    BY <1>0, <2>2
  <2> QED BY <1>1, <2>1, <2>3
<1>4. ASSUME NEW i \in Slots, PodReady(i) \/ PodFails(i) PROVE UNCHANGED Abstract!rolloutVars
  <2>1. \A j \in Slots : pods'[j].made = pods[j].made
    BY <1>0, <1>4 DEF PodReady, PodFails, PodsType
  <2>2. PodsMade' = PodsMade
    BY <2>1 DEF PodsMade
  <2> QED BY <1>4, <2>2 DEF PodReady, PodFails
<1>5. ASSUME NEW i \in Slots, ReplacePod(i) \/ CollectPod(i) PROVE Abstract!Change
  <2>1. object.exists /\ UNCHANGED <<pc, want>>
    <3>1. object.deleting => object.exists
      BY DEF IInv, TypeOK, NoObject
    <3> QED BY <1>5, <3>1 DEF ReplacePod, CollectPod
  <2>2. CASE ReplacePod(i)
    <3>1. pods' = [pods EXCEPT ![i] = [made |-> seen, ready |-> FALSE]] /\ pods[i].made # seen
      BY <2>2 DEF ReplacePod
    <3>2. pc # "ok" /\ seen \in 1..want
      <4>1. seen # 0 /\ seen <= want
        BY <2>1, <2>2 DEF PodsFollow, ReplacePod
      <4> QED BY <1>0, <2>1, <3>1, <4>1 DEF PodsFollow
    <3>3. PodsMade' = [PodsMade EXCEPT ![i] = seen]
      BY <1>0, <3>1 DEF PodsMade, PodsType
    <3>4. PodsMade \in [Slots -> 0..MaxManifest]
      BY <1>0 DEF PodsMade, PodsType
    <3>5. /\ PodsMade' \in [Slots -> 0..MaxManifest]
          /\ \A j \in Slots : PodsMade'[j] = PodsMade[j] \/ PodsMade'[j] \in 1..want
      BY <1>0, <3>2, <3>3, <3>4
    <3> QED BY <1>1, <2>1, <3>2, <3>5
  <2>3. CASE CollectPod(i)
    <3>1. PodsMade' = [PodsMade EXCEPT ![i] = 0]
      BY <1>0, <2>3 DEF CollectPod, PodsMade, PodsType, NoPod
    <3>2. PodsMade \in [Slots -> 0..MaxManifest]
      BY <1>0 DEF PodsMade, PodsType
    <3>3. /\ PodsMade' \in [Slots -> 0..MaxManifest]
          /\ \A j \in Slots : PodsMade'[j] \in {PodsMade[j], 0}
      BY <1>0, <3>1, <3>2
    <3> QED BY <1>1, <2>1, <3>3
  <2> QED BY <1>5, <2>2, <2>3
<1> QED BY <1>2, <1>3, <1>4, <1>5 DEF Cluster

\* CreateOrUpdateDeployment, CreateOrUpdateDaemonSet and their waits, among the
\* controller, the garbage collector and other writers, implement the abstract
\* rollout: every step is one of its steps or leaves what it sees unchanged.
THEOREM DeploymentImplementsRollout == Spec => ImplementsRollout
<1>1. ASSUME Init PROVE Abstract!Init
  BY <1>1 DEF Init, Abstract!Init, RolloutPhase, PodsMade, NoPod
<1>2. ASSUME IInv, PodsFollow, [Next]_vars
      PROVE  Abstract!Next \/ UNCHANGED Abstract!rolloutVars
  <2>1. CASE UNCHANGED vars
    BY <2>1 DEF vars, Abstract!rolloutVars, RolloutPhase, PodsMade
  <2>2. CASE Cluster
    BY <1>2, <2>2, AbstractCluster DEF Abstract!Next
  <2> QED BY <1>2, <2>1, <2>2, AbstractTask DEF Next
<1> QED
  BY Invariance, PodsFollowAlways, <1>1, <1>2, PTL DEF Spec, ImplementsRollout, Abstract!Spec
=============================================================================
