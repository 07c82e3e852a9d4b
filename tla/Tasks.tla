------------------------------- MODULE Tasks --------------------------------
(***************************************************************************)
(* The tasks of a sync at work (pkg/tasks): all run at once, each through   *)
(* its own steps, on one API server.  They meet where one waits for, reads  *)
(* or mounts what another creates, and where the cluster around them fills  *)
(* in a CA bundle, admits a route, asks for new certificates or deletes an  *)
(* object.                                                                  *)
(*                                                                         *)
(* The content of an object is a number: 1 for what is made from a manifest *)
(* alone, 0 for what the cluster has yet to complete, the generation of a   *)
(* CA bundle, of a password or of certificates, and the generation it was   *)
(* made from for what is made from one of those.  Hashed copies of the same *)
(* object have the same name and different contents.                        *)
(*                                                                         *)
(* Events, retries and rollouts are the subject of Operator, Deployment and *)
(* PrometheusResource and simplified here: a sync that failed, or during    *)
(* which a triggering object changed, is followed by another, and a rollout *)
(* is complete when what the pods mount is there.                           *)
(***************************************************************************)
EXTENDS TaskPrograms, Naturals, FiniteSets

CONSTANTS
    Tasks,        \* the tasks of a sync
    Configs,      \* the configurations a sync may find
    Present,      \* the objects in the cluster at first
    Changing,     \* the objects whose content others may change
    Deletable,    \* the objects that others may delete
    MaxChanges,   \* bound on changes by others
    MaxDeletions, \* bound on deletions by others
    MaxFaults     \* bound on failing calls and timeouts

ASSUME KnownTasks == Tasks \subseteq AllTasks

ASSUME KindsOfConfiguration ==
    Configs \subseteq [userWorkload : BOOLEAN, telemeter : BOOLEAN, etcd : BOOLEAN]

\* Others change CA bundles and the certificate that they issue.
ASSUME ChangedByOthers ==
    Changing \subseteq {b[1] : b \in Bundles} \cup {"prometheus-adapter-tls"}

\* The files of passwords that are there at first were made from the password.
ASSUME PasswordsAtFirst ==
    Present \cap {"PrometheusK8sHtpasswdSecret", "ThanosQuerierHtpasswdSecret"} # {}
        => "GrafanaDatasources" \in Present

ASSUME BoundsOfRuns == MaxChanges \in Nat /\ MaxDeletions \in Nat /\ MaxFaults \in Nat

VARIABLES
    api,       \* the objects in the API server, each with its content
    mounted,   \* what the pods of each workload mount
    due,       \* whether the gRPC certificates are to be replaced, and why
    config,    \* the configuration of this sync, or of the last one
    pc,        \* the next step of each task, 0 for a task that does not run
    outcome,   \* of each task
    view,      \* the objects each task has read in this sync
    dueSeen,   \* due, as the task that replaces the certificates has read it
    pending,   \* whether a sync is due
    changes, deletions, faults

clusterVars == <<api, mounted, due>>
syncVars == <<config, pc, outcome, view, dueSeen>>
bounds == <<changes, deletions, faults>>
vars == <<clusterVars, syncVars, pending, bounds>>

-----------------------------------------------------------------------------
(* Objects.                                                                *)

Programs == [t \in Tasks |-> [c \in Configs |-> Program(t, c)]]

StepsOf(c) == UNION {{Programs[t][c][i] : i \in DOMAIN Programs[t][c]} : t \in Tasks}
ObjectsOf(ops, c) ==
    UNION {{s.objs[i] : i \in DOMAIN s.objs} : s \in {r \in StepsOf(c) : r.op \in ops}}

AllWrites == {"apply", "ensure", "copy", "generate", "derive", "deploy", "rotate"}

Workloads == UNION {ObjectsOf({"deploy"}, c) : c \in Configs}

\* The objects that can be there at all.
Objects ==
    Present \cup {"prometheus-adapter-tls"} \cup UNION {ObjectsOf(AllWrites, c) : c \in Configs}

Bundle == {b[1] : b \in Bundles}
Incomplete == Routes \cup Bundle

\* The objects whose changes trigger a sync.
Triggers ==
    {grpc, "prometheus-adapter-tls", "TelemeterTrustedCABundle", "AlertmanagerTrustedCABundle"}

Names(a) == {p[1] : p \in a}
Contents(o) == {p[2] : p \in {q \in api : q[1] = o}}
Without(a, objs) == {p \in a : p[1] \notin objs}
With(a, o, c) == Without(a, {o}) \cup {<<o, c>>}

Elements(s) == {s[i] : i \in DOMAIN s}

NoMount == [objects |-> {}, copies |-> {}]

\* A pod can be started when what it mounts is there; the mounts of CA bundles
\* are optional.
Startable(w) ==
    /\ mounted[w].objects \subseteq Names(api)
    /\ \A p \in mounted[w].copies : SourceOf(p[1]) \notin Bundle => p \in api

\* What has to be read in this sync before step s, in a sync with configuration c.
MadeFrom(s, c) ==
    CASE s.op \in {"copy", "prune", "uncopy"} -> {SourceOf(s.objs[1])}
      [] s.op = "deploy" -> {SourceOf(h) : h \in PodsOf(s.objs[1], c.etcd).copies}
      [] s.op = "derive" -> {"GrafanaDatasources"}
      [] s.op = "rotate" -> {grpc}
      [] OTHER -> {}

\* A task that runs has read what its next step is made from: no wait and no read
\* ends without an error and without the object.
TypeOK ==
    /\ api \subseteq Objects \X Nat
    /\ \A w \in Workloads : w \notin Names(api) => mounted[w] = NoMount
    /\ due \in {"no", "age", "forced"} /\ dueSeen \in {"no", "age", "forced"}
    /\ config \in Configs
    /\ outcome \in [Tasks -> {"running", "ok", "failed"}]
    /\ \A t \in Tasks :
          IF outcome[t] = "running"
          THEN /\ pc[t] \in DOMAIN Programs[t][config]
               /\ MadeFrom(Programs[t][config][pc[t]], config) \subseteq Names(view[t])
          ELSE pc[t] = 0 /\ view[t] = {}
    /\ pending \in BOOLEAN
    /\ changes \in Nat /\ deletions \in Nat /\ faults \in Nat

Init ==
    /\ api = {<<o, 1>> : o \in Present}
    /\ mounted = [w \in Workloads |-> NoMount] /\ due = "no"
    /\ config \in Configs
    /\ pc = [t \in Tasks |-> 0] /\ outcome = [t \in Tasks |-> "failed"]
    /\ view = [t \in Tasks |-> {}] /\ dueSeen = "no"
    /\ pending = TRUE
    /\ changes = 0 /\ deletions = 0 /\ faults = 0

-----------------------------------------------------------------------------
(* A sync.                                                                 *)

Idle == \A t \in Tasks : outcome[t] # "running"

\* Work that is due, or the periodic resync.
BeginSync(c) ==
    /\ Idle
    /\ config' = c /\ pending' = FALSE
    /\ pc' = [t \in Tasks |-> 1] /\ outcome' = [t \in Tasks |-> "running"]
    /\ dueSeen' = "no"
    /\ UNCHANGED <<clusterVars, view, bounds>>

step(t) == Programs[t][config][pc[t]]
At(t, ops) == outcome[t] = "running" /\ step(t).op \in ops
object(t) == step(t).objs[1]

Ends(t, o) ==
    /\ outcome' = [outcome EXCEPT ![t] = o]
    /\ pc' = [pc EXCEPT ![t] = 0] /\ view' = [view EXCEPT ![t] = {}]

\* Task t goes on, knowing what it has read in this step as well.
Goes(t, seen) ==
    /\ IF pc[t] = Len(Programs[t][config])
       THEN Ends(t, "ok")
       ELSE /\ pc' = [pc EXCEPT ![t] = @ + 1] /\ view' = [view EXCEPT ![t] = @ \cup seen]
            /\ UNCHANGED outcome
    /\ UNCHANGED config

Stops(t) == Ends(t, "failed") /\ pending' = TRUE /\ UNCHANGED config

Seen(t, o) == (CHOOSE p \in view[t] : p[1] = o)[2]

\* The API server has objects a, and the workloads that are gone mount nothing.
Stored(a) ==
    /\ api' = a
    /\ mounted' = [w \in Workloads |-> IF w \in Names(a) THEN mounted[w] ELSE NoMount]
    /\ UNCHANGED due

unchangedByStep == UNCHANGED <<dueSeen, bounds>>

\* A mutant: objects are updated and not created.
Updated(a, objs) == a

\* CreateOrUpdate..., CreateIfNotExist... and Delete... of objects.
Applied(a, objs) == Without(a, objs) \cup {<<o, 1>> : o \in objs}
Ensured(a, objs) ==
    a \cup {<<o, IF o \in Incomplete THEN 0 ELSE 1>> : o \in objs \ Names(a)}

Done(t, objs) ==
    CASE step(t).op = "apply" -> Applied(api, objs)
      [] step(t).op = "ensure" -> Ensured(api, objs)
      [] step(t).op = "remove" -> Without(api, objs)

Writes(t) ==
    /\ At(t, {"apply", "ensure", "remove"})
    /\ Stored(Done(t, Elements(step(t).objs))) /\ Goes(t, {})
    /\ UNCHANGED pending /\ unchangedByStep

\* A mutant: a wait ends without an error when there is no object.
AwaitIfPresent(t) ==
    /\ At(t, {"await"})
    /\ IF object(t) \in Names(api)
       THEN \E c \in Contents(object(t)) \ {0} : Goes(t, {<<object(t), c>>})
       ELSE Goes(t, {})
    /\ UNCHANGED <<clusterVars, pending>> /\ unchangedByStep

\* WaitForSecret, WaitForRouteReady and the poll of a CA bundle: the object is
\* there and complete.
Await(t) ==
    /\ At(t, {"await"})
    /\ \E c \in Contents(object(t)) \ {0} : Goes(t, {<<object(t), c>>})
    /\ UNCHANGED <<clusterVars, pending>> /\ unchangedByStep

\* A read that is an error when there is no object.
Get(t) ==
    /\ At(t, {"get"})
    /\ IF object(t) \in Names(api)
       THEN /\ \E c \in Contents(object(t)) : Goes(t, {<<object(t), c>>})
            /\ UNCHANGED pending
       ELSE Stops(t)
    /\ UNCHANGED clusterVars /\ unchangedByStep

\* A read whose error is not checked: the process panics, and the next one
\* begins with a sync.
Deref(t) ==
    /\ At(t, {"deref"})
    /\ IF object(t) \in Names(api)
       THEN Goes(t, {}) /\ UNCHANGED pending
       ELSE /\ outcome' = [u \in Tasks |-> IF outcome[u] = "ok" THEN "ok" ELSE "failed"]
            /\ pc' = [u \in Tasks |-> 0] /\ view' = [u \in Tasks |-> {}]
            /\ pending' = TRUE /\ UNCHANGED config
    /\ UNCHANGED clusterVars /\ unchangedByStep

-----------------------------------------------------------------------------
(* Hashed copies of certificates and CA bundles.                           *)

copyOf(t) == <<object(t), Seen(t, SourceOf(object(t)))>>

Copy(t) ==
    /\ At(t, {"copy"})
    /\ Stored(api \cup {copyOf(t)}) /\ Goes(t, {})
    /\ UNCHANGED pending /\ unchangedByStep

\* DeleteHashedSecret and DeleteHashedConfigMap.
Stale(t) ==
    {p \in api : p[1] = object(t) /\ (step(t).op = "prune" => p # copyOf(t))}

Prune(t) ==
    /\ At(t, {"prune", "unhash"})
    /\ Stored(api \ Stale(t)) /\ Goes(t, {})
    /\ UNCHANGED pending /\ unchangedByStep

\* destroy makes the copy's name from the present certificates and deletes it.
Uncopy(t) ==
    /\ At(t, {"uncopy"})
    /\ Stored(api \ {copyOf(t)}) /\ Goes(t, {})
    /\ UNCHANGED pending /\ unchangedByStep

-----------------------------------------------------------------------------
(* The gRPC certificates.                                                  *)

\* The certificates as they are, 0 when there are none.
Load(t) ==
    /\ At(t, {"load"})
    /\ Goes(t, {<<grpc, c>> : c \in IF Contents(grpc) = {} THEN {0} ELSE Contents(grpc)})
    /\ dueSeen' = due
    /\ UNCHANGED <<clusterVars, pending, bounds>>

\* A mutant: the secret is written whatever happened to it since it was read.
RotateUnconditionally(t) ==
    /\ At(t, {"rotate"})
    /\ LET new == Seen(t, grpc) = 0 \/ dueSeen # "no"
       IN /\ api' = With(api, grpc, IF new THEN Seen(t, grpc) + 1 ELSE Seen(t, grpc))
          /\ due' = "no" /\ pending' = (pending \/ new)
    /\ Goes(t, {})
    /\ dueSeen' = "no" /\ UNCHANGED <<mounted, bounds>>

\* RotateGRPCSecret on what was read, and CreateOrUpdateSecret.  The secret that
\* was read is written with its resource version: a secret that was changed,
\* annotated or deleted since makes it fail.  The age of the certificates is
\* part of what was read.
Rotate(t) ==
    /\ At(t, {"rotate"})
    /\ LET g == Seen(t, grpc)
           unchanged == /\ Contents(grpc) = IF g = 0 THEN {} ELSE {g}
                        /\ due = "forced" <=> dueSeen = "forced"
           new == g = 0 \/ dueSeen # "no"
       IN IF unchanged
          THEN /\ api' = With(api, grpc, IF new THEN g + 1 ELSE g)
               /\ due' = IF new THEN "no" ELSE due
               /\ pending' = (pending \/ new)
               /\ Goes(t, {}) /\ UNCHANGED mounted
          ELSE Stops(t) /\ UNCHANGED clusterVars
    /\ dueSeen' = "no" /\ UNCHANGED bounds

-----------------------------------------------------------------------------
(* The password with which Grafana queries the others.                     *)

\* A mutant: the password of each sync replaces the one before.
GenerateAnew(t) ==
    /\ At(t, {"generate"})
    /\ Stored(With(api, object(t), IF object(t) \in Names(api) THEN 2 ELSE 1))
    /\ Goes(t, {})
    /\ UNCHANGED pending /\ unchangedByStep

\* Each sync makes up a password, which is kept when there is none yet.
Generate(t) ==
    /\ At(t, {"generate"})
    /\ Stored(IF object(t) \in Names(api) THEN api ELSE api \cup {<<object(t), deletions + 1>>})
    /\ Goes(t, {})
    /\ UNCHANGED pending /\ unchangedByStep

\* The file of passwords a proxy accepts, kept when there is one.
Derive(t) ==
    /\ At(t, {"derive"})
    /\ Stored(IF object(t) \in Names(api)
              THEN api ELSE api \cup {<<object(t), Seen(t, "GrafanaDatasources")>>})
    /\ Goes(t, {})
    /\ UNCHANGED pending /\ unchangedByStep

-----------------------------------------------------------------------------
(* Workloads.                                                              *)

Deploy(t) ==
    /\ At(t, {"deploy"})
    /\ LET w == object(t)
       IN /\ api' = With(api, w, 1)
          /\ mounted' = [mounted EXCEPT ![w] =
                          [objects |-> PodsOf(w, config.etcd).objects,
                           copies |-> {<<h, Seen(t, SourceOf(h))>> : h \in PodsOf(w, config.etcd).copies}]]
    /\ Goes(t, {})
    /\ UNCHANGED <<due, pending>> /\ unchangedByStep

\* The pods start when what they mount is there.  When the workload is gone, or
\* without the prometheus-operator that makes its StatefulSet, the wait ends with
\* an error.
Rollout(t) ==
    /\ At(t, {"rollout"})
    /\ IF RunBy(object(t)) \cup {object(t)} \subseteq Names(api)
       THEN Startable(object(t)) /\ Goes(t, {}) /\ UNCHANGED pending
       ELSE Stops(t)
    /\ UNCHANGED clusterVars /\ unchangedByStep

-----------------------------------------------------------------------------
\* A call fails, after part of the step was done.
Fails(t) ==
    /\ outcome[t] = "running" /\ faults < MaxFaults /\ faults' = faults + 1
    /\ CASE step(t).op \in {"apply", "ensure", "remove"} ->
              \E k \in 0..Len(step(t).objs) : Stored(Done(t, Elements(SubSeq(step(t).objs, 1, k))))
         [] step(t).op \in {"prune", "unhash"} -> \E s \in SUBSET Stale(t) : Stored(api \ s)
         [] OTHER -> UNCHANGED clusterVars
    /\ Stops(t)
    /\ UNCHANGED <<dueSeen, changes, deletions>>

\* Task t waits for something that is not there.
Blocked(t) ==
    \/ At(t, {"await"}) /\ Contents(object(t)) \ {0} = {}
    \/ /\ At(t, {"rollout"}) /\ RunBy(object(t)) \cup {object(t)} \subseteq Names(api)
       /\ ~Startable(object(t))

\* A wait is given up after five minutes.
Timeout(t) ==
    /\ Blocked(t) /\ Stops(t)
    /\ UNCHANGED clusterVars /\ unchangedByStep

RunTask(t) ==
    \/ Writes(t) \/ Await(t) \/ Get(t) \/ Deref(t)
    \/ Copy(t) \/ Prune(t) \/ Uncopy(t) \/ Load(t) \/ Rotate(t)
    \/ Generate(t) \/ Derive(t) \/ Deploy(t) \/ Rollout(t)

-----------------------------------------------------------------------------
(* The cluster.                                                            *)

\* The router admits a route, the network operator fills in a bundle.
Complete(o) ==
    /\ <<o, 0>> \in api
    /\ api' = With(api, o, 1) /\ pending' = (pending \/ o \in Triggers)
    /\ UNCHANGED <<mounted, due, syncVars, bounds>>

\* The Service's certificate is issued.
IssueServingCert ==
    /\ "PrometheusAdapterService" \in Names(api) /\ "prometheus-adapter-tls" \notin Names(api)
    /\ api' = api \cup {<<"prometheus-adapter-tls", 1>>} /\ pending' = TRUE
    /\ UNCHANGED <<mounted, due, syncVars, bounds>>

Change == changes < MaxChanges /\ changes' = changes + 1 /\ UNCHANGED <<deletions, faults>>

\* A bundle or certificate gets another content.
Changed(o) ==
    /\ Change
    /\ \E c \in Contents(o) \ {0} : api' = With(api, o, c + 1)
    /\ pending' = (pending \/ o \in Triggers)
    /\ UNCHANGED <<mounted, due, syncVars>>

\* The gRPC certificates reach four fifths of their validity.
AgeOut ==
    /\ Change /\ grpc \in Names(api) /\ due = "no" /\ due' = "age"
    /\ UNCHANGED <<api, mounted, syncVars, pending>>

\* An administrator annotates them with grpc-tls-forced-rotate.
ForceRotate ==
    /\ Change /\ grpc \in Names(api) /\ due # "forced" /\ due' = "forced"
    /\ pending' = TRUE
    /\ UNCHANGED <<api, mounted, syncVars>>

DeletedByOthers(o) ==
    /\ deletions < MaxDeletions /\ deletions' = deletions + 1
    /\ o \in Names(api)
    /\ api' = Without(api, {o})
    /\ mounted' = [w \in Workloads |-> IF w = o THEN NoMount ELSE mounted[w]]
    /\ due' = IF o = grpc THEN "no" ELSE due
    /\ pending' = (pending \/ o \in Triggers)
    /\ UNCHANGED <<syncVars, changes, faults>>

Cluster ==
    \/ \E o \in Incomplete : Complete(o)
    \/ IssueServingCert
    \/ \E o \in Changing : Changed(o)
    \/ AgeOut \/ ForceRotate
    \/ \E o \in Deletable : DeletedByOthers(o)

Next ==
    \/ \E c \in Configs : BeginSync(c)
    \/ \E t \in Tasks : RunTask(t) \/ Timeout(t) \/ Fails(t)
    \/ Cluster

Spec == Init /\ [][Next]_vars

\* Syncs recur, tasks and the cluster's controllers run.  A step that is possible
\* in sync after sync is taken in one of them: no task is always the slowest.
Fairness ==
    /\ WF_vars(\E c \in Configs : BeginSync(c))
    /\ \A t \in Tasks :
          /\ WF_vars(RunTask(t)) /\ WF_vars(Timeout(t))
          /\ SF_vars(Writes(t) /\ step(t).op = "apply")
          /\ SF_vars(Writes(t) /\ step(t).op = "ensure")
    /\ \A o \in Incomplete : WF_vars(Complete(o))
    /\ WF_vars(IssueServingCert)

FairSpec == Spec /\ Fairness

-----------------------------------------------------------------------------
(* Properties.                                                             *)

Succeeded == \A t \in Tasks : outcome[t] = "ok"

\* After a sync that succeeded every pod of every workload could be started
\* again: what it mounts is there, also what other tasks of the same sync create
\* or prune, whatever failed in syncs before and however the configuration and
\* the certificates changed, as long as nobody else deletes objects.
Restartable ==
    Succeeded /\ deletions = 0 => \A w \in Workloads : Startable(w)

\* The copies of certificates and CA bundles whose changes trigger a sync.
Tracked == {h \in ObjectsOf({"copy"}, config) : SourceOf(h) \in Triggers}

\* When no sync is due there is exactly one copy of the certificates or the bundle
\* for each of their users, it is of the present ones, and the user mounts it:
\* the end-to-end test of the rotation counts the copies.  A change in the middle
\* of a sync, whether before or after a task has read it, is not lost.
CopiesAreCurrent ==
    Succeeded /\ ~pending /\ deletions = 0 =>
        \A h \in Tracked :
            /\ Contents(h) = Contents(SourceOf(h))
            /\ \A w \in Workloads : h \in PodsOf(w, config.etcd).copies =>
                  {p \in mounted[w].copies : p[1] = h} = {h} \X Contents(SourceOf(h))

\* The proxies accept the password that Grafana has, although every sync makes up
\* a new one: it is made from the secret that was kept, by tasks that run at the
\* same time as the one that keeps it.
PasswordAccepted ==
    deletions = 0 =>
        \A h \in {"PrometheusK8sHtpasswdSecret", "ThanosQuerierHtpasswdSecret"} :
            Contents(h) \subseteq Contents("GrafanaDatasources")

\* What destroy leaves behind, and of the copies of the certificates those of
\* earlier generations, as it makes their names from the present ones.
NeverRemoved ==
    {"ThanosRulerMonitoringClusterRoleBinding",
     "TelemeterClientClusterRoleBindingView", "TelemeterTrustedCABundle", "TelemeterTrustedCA",
     "TelemeterPrometheusRule", "PrometheusK8sEtcdSecret"}
Leftovers == NeverRemoved \cup (IF changes = 0 THEN {} ELSE GrpcCopies)

\* After a sync that succeeded nothing is left, but for the leftovers, of a part
\* that the configuration disables, whatever an interrupted creation or an
\* interrupted removal left behind.
DisabledIsGone ==
    Succeeded =>
        \A c \in Configs :
            Names(api) \cap ObjectsOf(AllWrites, c)
                \subseteq ObjectsOf(AllWrites, config) \cup Leftovers

\* The annotation that asks for new certificates goes only with the step that
\* replaces them: not lost to a task that read the secret before.
RotationHonoured ==
    [][due = "forced" /\ due' # "forced" => Contents(grpc)' # Contents(grpc)]_vars

\* A sync in which nothing fails needs no timeout: the tasks that wait for what
\* others create never wait for one another in a circle, or for a task that is
\* done without having created it.
NoCircularWait ==
    deletions = 0 =>
        \/ Idle \/ \E t \in Tasks : outcome[t] = "failed"
        \/ \E o \in Incomplete : <<o, 0>> \in api
        \/ \E t \in Tasks : outcome[t] = "running" /\ ~Blocked(t)

\* Once nothing fails, changes or is deleted any more, syncs succeed, and every
\* object of the configuration is there, those that others deleted and copies of
\* bundles whose changes trigger nothing included.
EventuallyComplete ==
    \A c \in Configs :
        <>[](config = c) =>
            /\ []<>Succeeded
            /\ <>[](/\ ObjectsOf(AllWrites, c) \subseteq Names(api)
                    /\ \A h \in ObjectsOf({"copy"}, c) : Contents(h) = Contents(SourceOf(h)))
=============================================================================
