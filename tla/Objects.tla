------------------------------ MODULE Objects -------------------------------
(***************************************************************************)
(* How a task brings any other object to its manifest: the CreateOrUpdate..., *)
(* Create...IfNotExists and Delete... functions of pkg/client/client.go,    *)
(* each a Get and what follows from it, call by call, with the API server,  *)
(* the service-ca controller and other writers in between.                  *)
(*                                                                         *)
(* The functions differ in few ways, which the sets of kinds below name.    *)
(* One kind stands for all that the code treats alike: Secret for ConfigMap, *)
(* Role and ClusterRole, ServiceMonitor for PrometheusRule, Alertmanager    *)
(* and SecurityContextConstraints, Keep for the functions that create a     *)
(* Secret or a ConfigMap if there is none.                                  *)
(***************************************************************************)
EXTENDS Naturals

CONSTANTS
    Manifests,   \* the manifests that syncs may find
    Body,        \* what each manifest asks for, its metadata aside
    RoleRef,     \* the part of a body that the API server lets nobody change in a binding
    Meta,        \* the keys of each manifest's annotations and labels
    Keys,        \* all the keys
    Prefixed,    \* the ones that start with monitoring.openshift.io/
    SpeltOut,    \* the manifests that leave nothing for the API server to default
    Kinds,       \* the kinds of object
    MaxChanges,  \* bound on the changes by others, of the manifest included
    MaxFaults    \* bound on failing calls

Bodies == {Body[m] : m \in Manifests}

ASSUME ManifestsOfObjects ==
    /\ 0 \notin Manifests /\ 0 \notin Bodies /\ Prefixed \subseteq Keys
    /\ Meta \in [Manifests -> SUBSET Keys] /\ SpeltOut \subseteq Manifests
    /\ DOMAIN RoleRef = Bodies

AllKinds ==
    {"Secret", "Keep", "Service", "ServiceMonitor", "RoleBinding", "ClusterRoleBinding",
     "ServiceAccount", "Route", "APIService", "ValidatingWebhookConfiguration"}

ASSUME KnownKinds == Kinds \subseteq AllKinds /\ MaxChanges \in Nat /\ MaxFaults \in Nat

\* Created if there is none and never changed.
OnlyCreated == {"Keep", "ServiceAccount", "Route"}
\* Updated with the resource version that was read.
Locking == {"Service", "ServiceMonitor", "APIService", "ValidatingWebhookConfiguration"}
\* Left alone when the body is as wanted.
Comparing == {"Service", "RoleBinding", "ClusterRoleBinding"}
\* Not merged with the metadata that was read.
Replacing == {"APIService", "ValidatingWebhookConfiguration"}
\* Given a CA bundle by the service-ca controller.
Injected == {"APIService", "ValidatingWebhookConfiguration"}
\* Removed by some configuration.
Removable == AllKinds \ Injected

VARIABLES
    kind,     \* of the object
    pc,       \* the call that the task makes next
    want,     \* the manifest of this sync, 0 for none
    object,   \* the object in the API server
    read,     \* the object as Get returned it
    moved,    \* whether the object was written since
    faults, changes

vars == <<kind, pc, want, object, read, moved, faults, changes>>

Values == {"absent", "ours", "others"}
NoObject == [exists |-> FALSE, body |-> 0, meta |-> [k \in Keys |-> "absent"], given |-> 0]
Objects == [exists : BOOLEAN, body : Bodies \cup {0}, meta : [Keys -> Values], given : 0..1]

\* given is the cluster IP of a Service, or the CA bundle.
TypeOK ==
    /\ kind \in Kinds /\ want \in Manifests \cup {0}
    /\ pc \in {"idle", "get", "create", "update", "delete", "recreate", "remove", "ok", "failed"}
    /\ object \in Objects /\ read \in Objects /\ moved \in BOOLEAN
    /\ \A o \in {object, read} : o.exists \/ o = NoObject
    /\ pc \in {"update", "delete", "recreate"} => read.exists
    /\ faults \in 0..MaxFaults /\ changes \in 0..MaxChanges

Init ==
    /\ kind \in Kinds /\ pc = "idle" /\ want = 0
    /\ object = NoObject /\ read = NoObject /\ moved = FALSE
    /\ faults = 0 /\ changes = 0

Fault == faults < MaxFaults /\ faults' = faults + 1
Change == changes < MaxChanges /\ changes' = changes + 1
bounds == <<faults, changes>>

-----------------------------------------------------------------------------
(* What is written.                                                        *)

MetadataOf(m) == [k \in Keys |-> IF k \in Meta[m] THEN "ours" ELSE "absent"]

\* A mutant: metadata of others is not merged.
OwnMetadataOnly(m, existing) == MetadataOf(m)

\* The manifest's metadata wins, that of others is kept, and keys with the prefix
\* that the manifest has no more are dropped.
mergeMetadata(m, existing) ==
    [k \in Keys |-> IF k \in Meta[m] THEN "ours"
                    ELSE IF k \in Prefixed THEN "absent" ELSE existing[k]]

\* A mutant: the CA bundle is not taken over.
KeptOfServicesOnly == IF kind = "Service" THEN read.given ELSE 0

\* The cluster IP and the CA bundle of an APIService are taken over from the
\* object that was read, the one of a webhook is not.
Kept == IF kind \in {"Service", "APIService"} THEN read.given ELSE 0

Required ==
    [exists |-> TRUE, body |-> Body[want],
     meta |-> IF kind \in Replacing THEN MetadataOf(want) ELSE mergeMetadata(want, read.meta),
     given |-> Kept]

\* A new object; the API server gives a Service its cluster IP.
New(meta) ==
    [exists |-> TRUE, body |-> Body[want], meta |-> meta,
     given |-> IF kind = "Service" THEN 1 ELSE 0]

\* A mutant: bindings are compared by their role only.
SameRole(o) ==
    /\ kind \in Comparing /\ RoleRef[o.body] = RoleRef[Body[want]]
    /\ kind = "Service" => want \in SpeltOut

\* The object that was read is left alone: reflect.DeepEqual of the Service's
\* specification, defaults of the API server included, or of the binding's role
\* and subjects.
Same(o) ==
    /\ kind \in Comparing /\ o.body = Body[want]
    /\ kind = "Service" => want \in SpeltOut

-----------------------------------------------------------------------------
(* The task.                                                               *)

\* A sync applies the object, or removes it.
Begin(m) ==
    /\ pc \in {"idle", "ok", "failed"}
    /\ IF m = want \/ pc = "idle" THEN UNCHANGED changes ELSE Change
    /\ want' = m /\ pc' = IF m = 0 THEN "remove" ELSE "get"
    /\ m = 0 => kind \in Removable
    /\ read' = NoObject /\ moved' = FALSE
    /\ UNCHANGED <<kind, object, faults>>

\* A mutant: an object that is not there is not told apart.
GetIgnoringNotFound ==
    /\ pc = "get"
    /\ read' = object /\ moved' = FALSE
    /\ pc' = IF object.exists /\ (kind \in OnlyCreated \/ Same(object)) THEN "ok" ELSE "update"
    /\ UNCHANGED <<kind, want, object, bounds>>

Get ==
    /\ pc = "get"
    /\ read' = object /\ moved' = FALSE
    /\ pc' = CASE ~object.exists -> "create"
               [] object.exists /\ (kind \in OnlyCreated \/ Same(object)) -> "ok"
               [] OTHER -> IF kind = "ClusterRoleBinding" THEN "delete" ELSE "update"
    /\ UNCHANGED <<kind, want, object, bounds>>

\* Created as the manifest says, or as merged with what Delete has removed.
Create ==
    /\ pc \in {"create", "recreate"}
    /\ IF object.exists
       THEN pc' = "failed" /\ UNCHANGED object
       ELSE /\ object' = New(IF pc = "create" THEN MetadataOf(want)
                                              ELSE mergeMetadata(want, read.meta))
            /\ pc' = "ok"
    /\ UNCHANGED <<kind, want, read, moved, bounds>>

\* What the API server accepts: an object that is there and, where the update
\* carries its version, as it was read; no other role in a binding, no other
\* cluster IP in a Service.
Accepted ==
    /\ object.exists
    /\ kind \in Locking => ~moved
    /\ kind = "RoleBinding" => RoleRef[object.body] = RoleRef[Body[want]]
    /\ kind = "Service" => object.given = Kept

Update ==
    /\ pc = "update"
    /\ IF Accepted THEN object' = Required /\ pc' = "ok"
                   ELSE pc' = "failed" /\ UNCHANGED object
    /\ UNCHANGED <<kind, want, read, moved, bounds>>

\* A ClusterRoleBinding is replaced, as its role cannot be changed; one that has
\* gone since is an error.
Delete ==
    /\ pc = "delete"
    /\ object' = NoObject
    /\ pc' = IF object.exists THEN "recreate" ELSE "failed"
    /\ UNCHANGED <<kind, want, read, moved, bounds>>

\* A mutant: an object that is not there cannot be removed.
RemoveExisting ==
    /\ pc = "remove"
    /\ object' = NoObject
    /\ pc' = IF object.exists THEN "ok" ELSE "failed"
    /\ UNCHANGED <<kind, want, read, moved, bounds>>

\* The Delete... functions: an object that is not there is no error.
Remove ==
    /\ pc = "remove"
    /\ object' = NoObject /\ pc' = "ok"
    /\ UNCHANGED <<kind, want, read, moved, bounds>>

\* A call fails and so does the function, but for the Get of a Route, whose
\* error is dropped.
Fails ==
    /\ pc \notin {"idle", "ok", "failed"} /\ Fault
    /\ pc' = IF pc = "get" /\ kind = "Route" THEN "ok" ELSE "failed"
    /\ UNCHANGED <<kind, want, object, read, moved, changes>>

\* A call fails although the API server has carried it out.
LostResponse ==
    /\ Fault
    /\ \/ /\ pc \in {"create", "recreate"} /\ ~object.exists
          /\ object' = New(IF pc = "create" THEN MetadataOf(want)
                                            ELSE mergeMetadata(want, read.meta))
       \/ pc = "update" /\ Accepted /\ object' = Required
       \/ pc \in {"delete", "remove"} /\ object.exists /\ object' = NoObject
    /\ pc' = "failed"
    /\ UNCHANGED <<kind, want, read, moved, changes>>

Task ==
    \/ \E m \in Manifests \cup {0} : Begin(m)
    \/ Get \/ Create \/ Update \/ Delete \/ Remove \/ Fails \/ LostResponse

-----------------------------------------------------------------------------
(* Others.                                                                 *)

Annotate(k) ==
    /\ object.exists /\ object.meta[k] # "others" /\ Change
    /\ object' = [object EXCEPT !.meta[k] = "others"] /\ moved' = TRUE
    /\ UNCHANGED <<kind, pc, want, read, faults>>

DeletedByOthers ==
    /\ object.exists /\ Change
    /\ object' = NoObject /\ moved' = TRUE
    /\ UNCHANGED <<kind, pc, want, read, faults>>

\* Somebody restores the object, as some manifest has it.
RestoredByOthers(m) ==
    /\ ~object.exists /\ Change
    /\ object' = [exists |-> TRUE, body |-> Body[m], meta |-> MetadataOf(m),
                  given |-> IF kind = "Service" THEN 1 ELSE 0]
    /\ moved' = TRUE
    /\ UNCHANGED <<kind, pc, want, read, faults>>

\* The service-ca controller.
Inject ==
    /\ kind \in Injected /\ object.exists /\ object.given = 0
    /\ object' = [object EXCEPT !.given = 1] /\ moved' = TRUE
    /\ UNCHANGED <<kind, pc, want, read, bounds>>

Others ==
    \/ \E k \in Keys : Annotate(k)
    \/ DeletedByOthers
    \/ \E m \in Manifests : RestoredByOthers(m)
    \/ Inject

Next == Task \/ Others

Spec == Init /\ [][Next]_vars

\* Syncs recur with the resync of the informers, and the code and the controller
\* run.
Fairness ==
    /\ WF_vars(\E m \in Manifests \cup {0} : Begin(m))
    /\ WF_vars(Get) /\ WF_vars(Create) /\ WF_vars(Update)
    /\ WF_vars(Delete) /\ WF_vars(Remove) /\ WF_vars(Inject)

FairSpec == Spec /\ Fairness

-----------------------------------------------------------------------------
(* Properties.                                                             *)

\* The metadata of others that a write of the task must leave alone.
Foreign(o) == {k \in Keys \ (Prefixed \cup Meta[want]) : o.meta[k] = "others"}

TaskWrites == pc' # pc /\ object' # object /\ object'.exists

\* What others have written into the metadata survives every write of a task:
\* all of it where the update carries the version that was read, and otherwise,
\* as with a ClusterRoleBinding that is deleted and created again, at least what
\* Get returned.  mergeMetadata is not called for the kinds that are replaced.
OthersMetadataKept ==
    [][TaskWrites /\ kind \notin Replacing =>
         /\ read.exists => Foreign(read) \subseteq Foreign(object')
         /\ kind \in Locking /\ object.exists => Foreign(object) \subseteq Foreign(object')]_vars

\* What the cluster has filled in is never taken away again by an update: a new
\* cluster IP would break every client of the Service, an APIService without its
\* CA bundle every call of the adapter's API.  The webhook is the exception: each
\* sync removes its CA bundle.
GivenKept ==
    [][TaskWrites /\ object.exists /\ kind # "ValidatingWebhookConfiguration"
         => object'.given = object.given]_vars

\* The object is as the sync wants it.  Objects that are only created may be as
\* an earlier manifest or somebody else made them, and those that are compared
\* first keep old metadata as long as their body is right.
Applied(o) ==
    IF want = 0 THEN ~o.exists
    ELSE /\ o.exists
         /\ kind \notin OnlyCreated => o.body = Body[want]
         /\ kind \notin OnlyCreated \cup Comparing =>
               \A k \in Keys : /\ k \in Meta[want] => o.meta[k] = "ours"
                               /\ k \in Prefixed \ Meta[want] => o.meta[k] = "absent"

\* A function that returns without an error leaves the object as its manifest
\* says, whoever wrote to it between its calls.  Only of a Route can a failing
\* Get pass for success.
AppliedWhenOk ==
    [][pc # "ok" /\ pc' = "ok"
         => Applied(object)' \/ (kind = "Route" /\ faults' # faults)]_vars

\* A binding whose role is another one than the manifest's cannot be updated.
Stuck ==
    /\ kind = "RoleBinding" /\ object.exists /\ want # 0
    /\ RoleRef[object.body] # RoleRef[Body[want]]

\* Once calls do not fail and others and the configuration leave the object
\* alone, syncs succeed and the object is and stays as wanted: a
\* ClusterRoleBinding lost between its deletion and its creation comes back, and
\* conflicts end.  What the cluster fills in comes back too, for good where it is
\* kept and again and again where it is not.  A RoleBinding with another role is
\* never brought to its manifest.
EventuallyApplied ==
    \/ <>[]Stuck
    \/ /\ []<>(pc = "ok") /\ <>[]Applied(object)
       /\ kind \in Injected => []<>(object.given = 1)
       /\ kind = "APIService" => <>[](object.given = 1)
=============================================================================
