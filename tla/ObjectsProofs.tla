---------------------------- MODULE ObjectsProofs ---------------------------
(***************************************************************************)
(* Proofs about Objects, for any manifests, kinds, keys and bounds.         *)
(***************************************************************************)
EXTENDS Objects, TLAPS

\* The calls of a function that applies its object.
Applying == {"get", "create", "update", "delete", "recreate"}

\* What a call relies on of the calls before it.
Sequence ==
    /\ pc \in Applying => want \in Manifests
    /\ pc = "remove" => want = 0
    /\ pc = "create" => read = NoObject

\* What was read is what is there, unless others have written.
Fresh == pc = "update" /\ ~moved => read = object

\* Only these kinds have a field that the cluster fills in.
Filled ==
    kind \notin Injected \cup {"Service"} => object.given = 0 /\ read.given = 0

Inv == TypeOK /\ Sequence /\ Fresh /\ Filled

-----------------------------------------------------------------------------
(* What is written.                                                        *)

\* NoObject is an object like any other.
LEMMA NoObjectType == NoObject \in Objects /\ ~NoObject.exists /\ NoObject.given = 0
BY DEF NoObject, Objects, Values

\* Metadata has its type, and is what the manifest says.
LEMMA MetadataType ==
    ASSUME NEW m \in Manifests, NEW existing \in [Keys -> Values]
    PROVE  /\ MetadataOf(m) \in [Keys -> Values] /\ mergeMetadata(m, existing) \in [Keys -> Values]
           /\ \A k \in Meta[m] \cap Keys :
                MetadataOf(m)[k] = "ours" /\ mergeMetadata(m, existing)[k] = "ours"
           /\ \A k \in (Prefixed \cap Keys) \ Meta[m] :
                MetadataOf(m)[k] = "absent" /\ mergeMetadata(m, existing)[k] = "absent"
           /\ \A k \in Keys \ (Prefixed \cup Meta[m]) : mergeMetadata(m, existing)[k] = existing[k]
BY DEF MetadataOf, mergeMetadata, Values

\* A new object has its type and is as wanted.
LEMMA NewType ==
    ASSUME want \in Manifests, NEW meta \in [Keys -> Values]
    PROVE  /\ New(meta) \in Objects /\ New(meta).exists
           /\ New(meta).body = Body[want] /\ New(meta).meta = meta
           /\ kind \notin Injected \cup {"Service"} => New(meta).given = 0
BY DEF New, Objects, Bodies

\* So has what an update writes.
LEMMA RequiredType ==
    ASSUME Inv, want \in Manifests
    PROVE  /\ Required \in Objects /\ Required.exists
           /\ Required.body = Body[want] /\ Required.given = Kept
           /\ Required.meta = IF kind \in Replacing THEN MetadataOf(want)
                              ELSE mergeMetadata(want, read.meta)
           /\ kind \notin Injected \cup {"Service"} => Required.given = 0
<1>1. read \in Objects  BY DEF Inv, TypeOK
<1>2. read.meta \in [Keys -> Values] /\ read.given \in 0..1  BY <1>1 DEF Objects
<1>3. Kept \in 0..1 /\ (kind \notin Injected \cup {"Service"} => Kept = 0)
  BY <1>2 DEF Kept, Injected
<1>4. (IF kind \in Replacing THEN MetadataOf(want) ELSE mergeMetadata(want, read.meta))
         \in [Keys -> Values]
  BY <1>2, MetadataType
<1>5. Body[want] \in Bodies \cup {0}  BY DEF Bodies
<1> QED  BY <1>3, <1>4, <1>5 DEF Required, Objects

-----------------------------------------------------------------------------
(* The invariant.                                                          *)

\* A write of the task's own: the call that creates or updates ends the function.
LEMMA WriteInv ==
    ASSUME Inv, UNCHANGED <<kind, want, read, moved, changes>>, faults' \in 0..MaxFaults,
           pc' \in {"ok", "failed"},
           object' \in Objects, object'.exists \/ object' = NoObject,
           kind \notin Injected \cup {"Service"} => object'.given = 0
    PROVE  Inv'
<1>1. TypeOK'  BY DEF Inv, TypeOK
<1> QED  BY <1>1 DEF Inv, Sequence, Applying, Fresh, Filled

\* A write of others.
LEMMA OthersInv ==
    ASSUME Inv, UNCHANGED <<kind, pc, want, read, faults>>, changes' \in 0..MaxChanges, moved',
           object' \in Objects, object'.exists \/ object' = NoObject,
           kind \notin Injected \cup {"Service"} => object'.given = 0
    PROVE  Inv'
<1>1. moved' \in BOOLEAN
  BY DEF Inv, TypeOK
<1>2. TypeOK'  BY <1>1 DEF Inv, TypeOK
<1> QED  BY <1>2 DEF Inv, Sequence, Applying, Fresh, Filled

\* What New and Required write, as one fact.
LEMMA Written ==
    ASSUME Inv, pc \in {"create", "recreate", "update"},
           \/ object' = New(IF pc = "create" THEN MetadataOf(want)
                                             ELSE mergeMetadata(want, read.meta))
           \/ object' = Required
    PROVE  /\ object' \in Objects /\ object'.exists /\ object'.body = Body[want]
           /\ kind \notin Injected \cup {"Service"} => object'.given = 0
           /\ \/ object'.meta = MetadataOf(want) /\ (pc = "create" \/ kind \in Replacing)
              \/ object'.meta = mergeMetadata(want, read.meta)
<1>1. want \in Manifests /\ read \in Objects  BY DEF Inv, TypeOK, Sequence, Applying
<1>2. read.meta \in [Keys -> Values]  BY <1>1 DEF Objects
<1> DEFINE meta == IF pc = "create" THEN MetadataOf(want) ELSE mergeMetadata(want, read.meta)
<1>3. meta \in [Keys -> Values]  BY <1>1, <1>2, MetadataType
<1>4. CASE object' = New(meta)
  <2> HIDE DEF meta
  <2>1. /\ object' \in Objects /\ object'.exists
        /\ object'.body = Body[want] /\ object'.meta = meta
        /\ kind \notin Injected \cup {"Service"} => object'.given = 0
    BY <1>1, <1>3, <1>4, NewType
  <2> QED  BY <2>1 DEF meta
<1>5. CASE object' = Required
  BY <1>1, <1>5, RequiredType
<1> QED  BY <1>4, <1>5

\* Init is in the invariant.
LEMMA InitInv == Init => Inv
<1> SUFFICES ASSUME Init PROVE Inv
  OBVIOUS
<1>1. 0 \in 0..MaxFaults /\ 0 \in 0..MaxChanges  BY KnownKinds
<1>2. TypeOK  BY <1>1, NoObjectType DEF Init, TypeOK
<1>3. Sequence /\ Fresh /\ Filled
  BY NoObjectType DEF Init, Sequence, Applying, Fresh, Filled
<1> QED  BY <1>2, <1>3 DEF Inv

\* Every step keeps the invariant.
LEMMA NextInv == Inv /\ [Next]_vars => Inv'
<1> SUFFICES ASSUME Inv, [Next]_vars PROVE Inv'
  OBVIOUS
<1>0. /\ object \in Objects /\ read \in Objects /\ faults \in 0..MaxFaults
      /\ changes \in 0..MaxChanges /\ MaxFaults \in Nat /\ MaxChanges \in Nat
      /\ object.exists \/ object = NoObject
  BY KnownKinds DEF Inv, TypeOK
<1>1. CASE \E m \in Manifests \cup {0} : Begin(m)
  <2>1. PICK m \in Manifests \cup {0} : Begin(m)  BY <1>1
  <2>2. changes' \in 0..MaxChanges  BY <1>0, <2>1 DEF Begin, Change
  <2>3. TypeOK'  BY <2>1, <2>2, NoObjectType DEF Begin, Inv, TypeOK
  <2>4. Sequence'
    <3>1. 0 \notin Manifests  BY ManifestsOfObjects
    <3> QED  BY <2>1, <3>1 DEF Begin, Sequence, Applying
  <2>5. Fresh' /\ Filled'  BY <2>1, NoObjectType DEF Begin, Inv, Fresh, Filled
  <2> QED  BY <2>3, <2>4, <2>5 DEF Inv
<1>2. CASE Get
  <2>1. TypeOK'  BY <1>0, <1>2 DEF Get, Inv, TypeOK, bounds
  <2>2. Sequence'
    <3>1. want \in Manifests  BY <1>2 DEF Get, Inv, Sequence, Applying
    <3>2. pc' = "create" => ~object.exists  BY <1>2 DEF Get
    <3>3. pc' \in {"create", "ok", "delete", "update"}  BY <1>2 DEF Get
    <3> QED  BY <1>0, <1>2, <3>1, <3>2, <3>3 DEF Get, Sequence, Applying
  <2>3. Fresh' /\ Filled'  BY <1>2 DEF Get, Inv, Fresh, Filled
  <2> QED  BY <2>1, <2>2, <2>3 DEF Inv
<1>3. CASE Create
  BY <1>0, <1>3, Written, WriteInv DEF Create, bounds, Inv, Filled
<1>4. CASE Update
  BY <1>0, <1>4, Written, WriteInv DEF Update, bounds, Inv, Filled
<1>5. CASE Delete
  <2>1. TypeOK'  BY <1>5, NoObjectType DEF Delete, Inv, TypeOK, bounds
  <2>2. Sequence' /\ Fresh' /\ Filled'
    BY <1>5, NoObjectType DEF Delete, Inv, Sequence, Applying, Fresh, Filled
  <2> QED  BY <2>1, <2>2 DEF Inv
<1>6. CASE Remove
  BY <1>0, <1>6, NoObjectType, WriteInv DEF Remove, bounds
<1>7. CASE Fails
  BY <1>0, <1>7, WriteInv DEF Fails, Fault, Inv, Filled
<1>8. CASE LostResponse
  <2>1. faults' \in 0..MaxFaults  BY <1>0, <1>8 DEF LostResponse, Fault
  <2> QED  BY <1>8, <2>1, Written, NoObjectType, WriteInv DEF LostResponse
<1>9. CASE \E k \in Keys : Annotate(k)
  <2>1. PICK k \in Keys : Annotate(k)  BY <1>9
  <2>2. changes' \in 0..MaxChanges  BY <1>0, <2>1 DEF Annotate, Change
  <2>3. object' \in Objects /\ object'.exists /\ object'.given = object.given
    BY <1>0, <2>1 DEF Annotate, Objects, Values
  <2> QED  BY <2>1, <2>2, <2>3, OthersInv DEF Annotate, Inv, Filled
<1>10. CASE DeletedByOthers
  <2>1. changes' \in 0..MaxChanges  BY <1>0, <1>10 DEF DeletedByOthers, Change
  <2> QED  BY <1>10, <2>1, NoObjectType, OthersInv DEF DeletedByOthers
<1>11. CASE \E m \in Manifests : RestoredByOthers(m)
  <2>1. PICK m \in Manifests : RestoredByOthers(m)  BY <1>11
  <2>2. changes' \in 0..MaxChanges  BY <1>0, <2>1 DEF RestoredByOthers, Change
  <2>3. MetadataOf(m) \in [Keys -> Values]  BY DEF MetadataOf, Values
  <2>4. /\ object' \in Objects /\ object'.exists
        /\ kind \notin Injected \cup {"Service"} => object'.given = 0
    BY <2>1, <2>3 DEF RestoredByOthers, Objects, Bodies
  <2> QED  BY <2>1, <2>2, <2>4, OthersInv DEF RestoredByOthers
<1>12. CASE Inject
  <2>1. object' \in Objects /\ object'.exists
    BY <1>0, <1>12 DEF Inject, Objects
  <2> QED  BY <1>0, <1>12, <2>1, OthersInv DEF Inject, bounds
<1>13. CASE UNCHANGED vars
  BY <1>13 DEF vars, Inv, TypeOK, Sequence, Fresh, Filled
<1> QED
  BY <1>1, <1>2, <1>3, <1>4, <1>5, <1>6, <1>7, <1>8, <1>9, <1>10, <1>11, <1>12, <1>13
     DEF Next, Task, Others

\* Spec is in the invariant.
THEOREM Invariance == Spec => []Inv
BY InitInv, NextInv, PTL DEF Spec

\* Type correctness.
THEOREM TypeCorrect == Spec => []TypeOK
<1>1. Inv => TypeOK  BY DEF Inv
<1> QED  BY <1>1, Invariance, PTL

-----------------------------------------------------------------------------
(* The action properties.                                                  *)

\* The steps that write are those of Create, Update and a call whose response is lost.
LEMMA WritingSteps ==
    ASSUME Inv, [Next]_vars, TaskWrites
    PROVE  /\ UNCHANGED <<kind, want, read>> /\ pc \in {"create", "recreate", "update"}
           /\ \/ /\ pc # "update" /\ ~object.exists
                 /\ object' = New(IF pc = "create" THEN MetadataOf(want)
                                                   ELSE mergeMetadata(want, read.meta))
              \/ pc = "update" /\ Accepted /\ object' = Required
<1>1. pc' # pc /\ object' # object /\ object'.exists  BY DEF TaskWrites
<1>2. ~\E k \in Keys : Annotate(k)  BY <1>1 DEF Annotate
<1>3. ~\E m \in Manifests : RestoredByOthers(m)  BY <1>1 DEF RestoredByOthers
<1>4. ~DeletedByOthers /\ ~Inject  BY <1>1 DEF DeletedByOthers, Inject
<1>5. ~Get /\ ~Fails /\ ~\E m \in Manifests \cup {0} : Begin(m)
  BY <1>1 DEF Get, Fails, Begin
<1>6. ~Delete /\ ~Remove  BY <1>1, NoObjectType DEF Delete, Remove
<1>7. ~UNCHANGED vars  BY <1>1 DEF vars
<1>8. Create \/ Update \/ LostResponse
  BY <1>2, <1>3, <1>4, <1>5, <1>6, <1>7 DEF Next, Task, Others
<1>9. CASE Create  BY <1>1, <1>9 DEF Create
<1>10. CASE Update  BY <1>1, <1>10 DEF Update
<1>11. CASE LostResponse  BY <1>1, <1>11, NoObjectType DEF LostResponse
<1> QED  BY <1>8, <1>9, <1>10, <1>11

\* What others wrote into the metadata survives.
THEOREM OthersAreRespected == Spec => OthersMetadataKept
<1>1. ASSUME Inv, [Next]_vars, TaskWrites, kind \notin Replacing
      PROVE  /\ read.exists => Foreign(read) \subseteq Foreign(object')
             /\ kind \in Locking /\ object.exists => Foreign(object) \subseteq Foreign(object')
  <2>1. pc \in {"create", "recreate", "update"}  BY <1>1, WritingSteps
  <2>2. want \in Manifests /\ read \in Objects
    BY <1>1, <2>1 DEF Inv, Sequence, Applying, TypeOK
  <2>3. read.meta \in [Keys -> Values]  BY <2>2 DEF Objects
  <2>4. \/ object'.meta = MetadataOf(want) /\ pc = "create"
        \/ object'.meta = mergeMetadata(want, read.meta)
    BY <1>1, WritingSteps, Written
  <2>5. read.exists => Foreign(read) \subseteq Foreign(object')
    <3> SUFFICES ASSUME read.exists PROVE Foreign(read) \subseteq Foreign(object')
      OBVIOUS
    <3>1. pc # "create"  BY <1>1, NoObjectType DEF Inv, Sequence
    <3>2. object'.meta = mergeMetadata(want, read.meta)  BY <2>4, <3>1
    <3>3. \A k \in Keys \ (Prefixed \cup Meta[want]) : object'.meta[k] = read.meta[k]
      BY <2>2, <2>3, <3>2, MetadataType
    <3> QED  BY <3>3 DEF Foreign
  <2>6. kind \in Locking /\ object.exists => object = read
    <3> SUFFICES ASSUME kind \in Locking, object.exists PROVE object = read
      OBVIOUS
    <3>1. pc = "update" /\ Accepted  BY <1>1, WritingSteps
    <3> QED  BY <1>1, <3>1 DEF Accepted, Inv, Fresh
  <2> QED  BY <2>5, <2>6
<1>2. Inv /\ [Next]_vars =>
        [TaskWrites /\ kind \notin Replacing =>
           /\ read.exists => Foreign(read) \subseteq Foreign(object')
           /\ kind \in Locking /\ object.exists =>
                Foreign(object) \subseteq Foreign(object')]_vars
  BY <1>1
<1> QED  BY <1>2, Invariance, PTL DEF Spec, OthersMetadataKept

\* What the cluster has filled in survives.
THEOREM GivenIsKept == Spec => GivenKept
<1>1. ASSUME Inv, [Next]_vars, TaskWrites, object.exists,
             kind # "ValidatingWebhookConfiguration"
      PROVE  object'.given = object.given
  <2>1. pc = "update" /\ Accepted /\ object' = Required  BY <1>1, WritingSteps
  <2>2. want \in Manifests  BY <1>1, <2>1 DEF Inv, Sequence, Applying
  <2>3. object'.given = Kept  BY <1>1, <2>1, <2>2, RequiredType
  <2>4. CASE kind = "Service"  BY <2>1, <2>3, <2>4 DEF Accepted
  <2>5. CASE kind = "APIService"
    <3>1. read = object  BY <1>1, <2>1, <2>5 DEF Accepted, Locking, Inv, Fresh
    <3> QED  BY <2>3, <2>5, <3>1 DEF Kept
  <2>6. CASE kind \notin {"Service", "APIService"}
    <3>1. object.given = 0  BY <1>1, <2>6 DEF Inv, Filled, Injected
    <3> QED  BY <2>3, <2>6, <3>1 DEF Kept
  <2> QED  BY <2>4, <2>5, <2>6
<1>2. Inv /\ [Next]_vars =>
        [TaskWrites /\ object.exists /\ kind # "ValidatingWebhookConfiguration"
           => object'.given = object.given]_vars
  BY <1>1
<1> QED  BY <1>2, Invariance, PTL DEF Spec, GivenKept

\* A function that returns without an error has applied its manifest.
THEOREM OkMeansApplied == Spec => AppliedWhenOk
<1>1. ASSUME Inv, [Next]_vars, pc # "ok", pc' = "ok"
      PROVE  Applied(object)' \/ (kind = "Route" /\ faults' # faults)
  <2>0. 0 \notin Manifests /\ Prefixed \subseteq Keys  BY ManifestsOfObjects
  <2>1. \/ Get \/ Create \/ Update \/ Remove \/ Fails
    BY <1>1 DEF Next, Task, Others, Begin, Delete, LostResponse, Annotate, DeletedByOthers,
                RestoredByOthers, Inject, vars
  <2>2. CASE Get
    <3>1. want \in Manifests /\ want' = want /\ want # 0 /\ kind' = kind /\ object' = object
      BY <1>1, <2>0, <2>2 DEF Get, Inv, Sequence, Applying
    <3>2. object.exists /\ (kind \in OnlyCreated \/ Same(object))  BY <1>1, <2>2 DEF Get
    <3> QED  BY <3>1, <3>2 DEF Applied, Same
  <2>3. CASE Create \/ Update
    <3>1. /\ pc \in {"create", "recreate", "update"} /\ want' = want /\ kind' = kind
          /\ \/ object' = New(IF pc = "create" THEN MetadataOf(want)
                                               ELSE mergeMetadata(want, read.meta))
             \/ object' = Required
      BY <1>1, <2>3 DEF Create, Update
    <3>2. want \in Manifests /\ want # 0 /\ read \in Objects
      BY <1>1, <2>0, <3>1 DEF Inv, Sequence, Applying, TypeOK
    <3>3. read.meta \in [Keys -> Values]  BY <3>2 DEF Objects
    <3>4. /\ object'.exists /\ object'.body = Body[want]
          /\ object'.meta \in {MetadataOf(want), mergeMetadata(want, read.meta)}
      BY <1>1, <3>1, Written
    <3>5. \A k \in Keys : /\ k \in Meta[want] => object'.meta[k] = "ours"
                          /\ k \in Prefixed \ Meta[want] => object'.meta[k] = "absent"
      BY <3>2, <3>3, <3>4, MetadataType
    <3> QED  BY <3>1, <3>2, <3>4, <3>5 DEF Applied
  <2>4. CASE Remove
    BY <1>1, <2>4, NoObjectType DEF Remove, Inv, Sequence, Applied
  <2>5. CASE Fails
    <3>1. faults \in Nat  BY <1>1, KnownKinds DEF Inv, TypeOK
    <3> QED  BY <1>1, <2>5, <3>1 DEF Fails, Fault
  <2> QED  BY <2>1, <2>2, <2>3, <2>4, <2>5
<1>2. Inv /\ [Next]_vars =>
        [pc # "ok" /\ pc' = "ok"
           => Applied(object)' \/ (kind = "Route" /\ faults' # faults)]_vars
  BY <1>1
<1> QED  BY <1>2, Invariance, PTL DEF Spec, AppliedWhenOk
=============================================================================
