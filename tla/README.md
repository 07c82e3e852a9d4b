# A TLA+ verification of the cluster monitoring operator

The cluster monitoring operator (CMO) deploys and upgrades the monitoring stack of an
OpenShift cluster: Prometheus, Alertmanager, Grafana, the Thanos components, exporters and
adapters. It watches its configuration, and on each change runs one *sync*: it computes all
manifests, applies them in fifteen parallel tasks, waits for their rollout and reports the
outcome in the `ClusterOperator` object that a cluster upgrade waits for.

The project models its own logic (`cmd/`, `pkg/`); vendored code only where the operator's
correctness rests on its contract (the work queue, the prometheus-operator).

## 1. Inventory

| Component | State | Operations | Interacts with |
|---|---|---|---|
| **Control loop** `pkg/operator/operator.go`, `cmd/operator/main.go`, `pkg/tasks/tasks.go` | informer caches, work queue, the sync under way, process lifetime | `Run`, `handleEvent`, `enqueue`, `processNextWorkItem`, `sync`, `Config`, `loadConfig`, `loadUserWorkloadConfig`, `RunAll` | API server (watch, read), tasks (goroutines), status reporter |
| **Work queue** client-go `workqueue` | queue, dirty set, processing set, shutdown flag | `Add`, `Get`, `Done`, `AddRateLimited`, `ShutDown` | informer handlers, worker |
| **Status reporter** `pkg/client/status_reporter.go`, `condition.go` | the ClusterOperator's conditions and version | `SetInProgress`, `SetDone`, `SetFailed` | API server; the previous status steers the next |
| **Deployments and DaemonSets** `pkg/client/client.go` | the object, its status, its pods | create, update, delete and create after 422, wait for rollout | Deployment controller, garbage collector |
| **Prometheus, Alertmanager, ThanosRuler resources** `pkg/client/client.go` | the resource, its StatefulSet, its pods | create, update, poll the pods, delete | prometheus-operator with a cache of its own |
| **Tasks** `pkg/tasks/*.go` | how far each task is, what it has read | the calls of fifteen tasks, in order | each other, through the API server |
| **Other client operations** `pkg/client/client.go` | the set of objects | create or update, create if absent, delete, wait for a Secret or a Route, delete hashed copies | tasks |
| **gRPC certificates, CA bundles** `pkg/manifests/tls.go`, `pkg/tasks/helpers.go` | certificate generation, rotation request, hashed copies | `RotateGRPCSecret`, `HashSecret`, `HashTrustedCA`, `syncTrustedCABundle` | network operator, service CA operator, administrators |
| **Configuration** `pkg/manifests/config.go`, `Config` in `pkg/operator/operator.go` | the configuration that a sync makes | parse, default, read the user's document, fetch cluster ID, token, proxy and etcd certificates, set flags | control loop, factory |
| **Manifest factory** `pkg/manifests/manifests.go` | none | one function per manifest | configuration, tasks |
| **Query generator** `pkg/promqlgen` | none | relabelling rule and query from selectors | factory |
| **String helpers** `pkg/strings` | none | formatting | status |

What is hard in this code, and what correct means:

* *Control loop.* Events arrive before, while and after a sync reads the object they are about;
  reads come from a cache that lags or from the API server at different moments of one sync;
  failed syncs return with a delay; the process may end anywhere and come back as another
  release. Correct: no change of a triggering object is lost, one sync at a time, the stack
  converges to the last configuration.
* *Status.* Three calls, each of which may fail, edit conditions left by an earlier process.
  Correct: conditions never contradict each other, a version is reported only after all tasks of
  a sync succeeded.
* *Rollouts.* Status fields belong to an older generation; an immutable field forces deletion in
  the foreground and creation; the prometheus-operator lags behind. Correct: a rollout that is
  reported is the one of this sync's manifest, and every manifest is rolled out in the end.
* *Tasks.* They run at once and yet depend on one another: three wait for Grafana's password,
  four copy the certificates that a fifth replaces, two read routes that others create. Correct:
  no circular wait, what pods mount is there, copies are current and unique, what is disabled
  goes away.
* *Objects.* Every function is a read and a write with others in between, some updates carry the
  version that was read and some do not, one kind is deleted and created. Correct: success means
  applied, and what others or the cluster put into the object survives.
* *Configuration and manifests.* Seven reads follow the document, each failing by itself, and the
  result is asked the same question by manifests of different tasks: is etcd monitored, who sends
  telemetry. Correct: the document wins, no section is nil when it is used, the manifests agree.

`PROJECT.json` lists each hazard with its line and the properties that would notice it.

## 2. Modules

```
WorkQueue   StatusReporter      Rollout      PrometheusResource   TaskPrograms   Promqlgen   Objects
      \       /                  .   .                                 |              |
       Operator  . . . . . . . . .     . . . . Deployment            Tasks       Configuration
```

Lines are EXTENDS or INSTANCE, dots an implementation. Every lowest module `M` has an instance `MCM` for
TLC and theorems in `MProofs`; those of `WorkQueue` and `StatusReporter` are used in `OperatorProofs`.
`TaskOrder` stands between `Tasks` and `TasksProofs`, and `MCTaskOrder` is its instance.

| Module | Models |
|---|---|
| `Rollout` | the abstract specification that `Deployment` and `Operator` implement |
| `WorkQueue` | client-go's queue as operators on a record |
| `StatusReporter` | the three status calls and `setCondition` as operators on the ClusterOperator |
| `Operator` | composes the two with process, informers, worker, sync and tasks |
| `Deployment` | one Deployment or DaemonSet, its controller, garbage collection and pods |
| `PrometheusResource` | one Prometheus, Alertmanager or ThanosRuler, the prometheus-operator and pods |
| `TaskPrograms` | the fifteen tasks as sequences of steps; what each workload's pods mount |
| `Tasks` | the interpreter of those steps, in parallel, on one API server, with certificates, bundles, routes and disabled components |
| `TaskOrder` | no code of its own: what the tasks rely on in one another's steps and in the order of their own |
| `Objects` | one object of any other kind, call by call, with other writers |
| `Promqlgen` | the query generator, with the meaning of selectors as reference |
| `Configuration` | how a sync makes its configuration, and what three tasks make of it |
| `MC…` | instances for TLC |
| `…Proofs` | theorems |

The levels share no variables. `Operator` has a task as reads, a start that leaves its
objects in between two states, and an end; `Tasks` has the calls inside; `Deployment` and
`PrometheusResource` have the inside of a call that applies a workload and waits for it, `Objects`
the inside of a call that applies anything else. `Configuration` has the inside of `Config`, which
`Operator` has as the reads that it makes.

### 2.1 Operator

A *source* is an API object the operator reads; its content is what the control flow tells apart
(absent, invalid, plain, with user workload monitoring, null) plus a revision that counts writes.
`cluster` is the API server, `store` the informers' caches, `notify` the events no handler has
seen. The constants say of each source how the code treats it: `Triggers` (an event enqueues
work), `UpdateOnly` (its informer has an update handler only, `New`), `Loads` (read by `Config`,
its absence tolerated), `Required` (its absence fails the task that reads it), `Reads` (which task).

| Action | Code |
|---|---|
| `Start`, `ListSync`, `RunWorker`, `Tick` | `Main`; `Run`: wait for caches, enqueue a first item if there is no ConfigMap, start the worker, the 5 minute ticker |
| `Stop`, `Exit`, `Crash`, `Panic` | a signal, the return of `Main`, the end anywhere, the end at a null document of the user's (`config.go:407`) |
| `Watch`, `Resync`, `handleEvent` | reflector, 15 minute resync, the handlers with their key comparisons |
| `TakeWorkItem`, `Finish` | `processNextWorkItem` |
| `loadConfig`, `loadUserWorkloadConfig`, `LoadRest`, `BeginRollout`, `Report` | `sync` and `Config` |
| `TaskReads`, `TaskStarts`, `TaskSucceeds`, `TaskFails` | a task under `RunAll` |

`deployed[t]` is the version and the source revisions that the objects of task `t` are made from;
a task that started and did not end leaves it `"mixed"`. Status calls may fail before or after
the write, and `newClusterOperator` leaves an object without conditions.

### 2.2 Deployment, PrometheusResource

A manifest is a number. In `Deployment` numbers increase from sync to sync, as the generation does, also
if an earlier content returns, and the selector moves on with the release; in `PrometheusResource`,
whose poll compares contents, manifests come in any order, since an administrator may change the retention or
the log level and change it back. In `Deployment`, `Get`, `Update`,
`Delete`, `Create` and the poll are one action each, so that the controller (`Observe`,
`ReplacePod`), the garbage collector (`CollectPod`, `CollectObject`), failing pods and other
writers come between them; `LostResponse` is a call that took effect and returned an error. Only a
Deployment is deleted in the foreground, so that only a Deployment is ever there and being deleted
(`TypeOK`). In
`PrometheusResource` the poll is two actions, as `PrometheusStatus` lists the pods and then reads
the StatefulSet, and compares the image and arguments (`Visible`) of the first container only; the
prometheus-operator (external) reconciles from `cached`. `since` is a history variable: what the
StatefulSet has been between the two reads.

### 2.3 TaskPrograms, Tasks

A step of a program is a call, or several calls in a row of the same kind on objects that no other
task uses. Object names are those of the Factory's methods. `Tasks` holds the objects as pairs of
name and content, where a content is a generation: of a bundle, of certificates, of a password, or
of what a copy or an htpasswd file was made from. A hashed copy is one name with several contents,
because the code puts a hash into the name. `TypeOK` also says that a running task has read what its
next step is made from (`MadeFrom`), which is what the waits and reads before it are for.

| Step | Code | Action |
|---|---|---|
| apply, ensure, remove | `CreateOrUpdate…`, `CreateIfNotExist…`, `Delete…` | `Writes` |
| await | `WaitForSecret`, `WaitForRouteReady`, the poll in `syncTrustedCABundle` | `Await`, `Timeout` |
| get | `GetSecret`, `GetConfigmap`, `GetRouteURL` | `Get` |
| deref | `queryURL.String()` on an unchecked result in the Thanos ruler task | `Deref` |
| copy, prune, unhash, uncopy | `HashSecret`, `HashTrustedCA`, `DeleteHashed…`, `destroy` | `Copy`, `Prune`, `Uncopy` |
| load, rotate | `ClusterMonitoringOperatorTask.Run`, `RotateGRPCSecret` | `Load`, `Rotate` |
| generate, derive | the Grafana password, the htpasswd secrets made from it | `Generate`, `Derive` |
| deploy, rollout | a workload and the wait for it | `Deploy`, `Rollout` |

The environment admits routes and fills in bundles (`Complete`), issues the adapter's serving
certificate, changes bundles and certificates, lets certificates age, annotates them
(`ForceRotate`) and deletes objects. The secret of the certificates is written with the resource
version that was read, so `Rotate` fails when it changed in between; other updates carry no
resource version.

`TaskOrder` states, as assumptions without constants, what holds of the fifteen programs: every step
has objects that fit its kind and nobody makes what another removes (`StepsAreProper`), a hashed copy
or a workload belongs to one task (`OneOwner`), a task reads before it copies and copies before it
deploys (`StepsAreInOrder`), a copy is followed by a prune and by every workload that mounts it, a
workload by the wait for its rollout (`StepsAreRounded`), what a task makes with one configuration it
makes or removes with every other (`StepsUndoOthers`), and what a task waits for another one makes
before it waits itself (`AllTasksAreClosed`). The programs are fixed and finite, so TLC decides these
sentences by evaluating them, for all tasks and all configurations; it does so in `tasks_leaves`.

### 2.4 Objects

One object, of a kind that the model chooses first. The kinds differ in the code in five ways, each
a set: updated or only created (`OnlyCreated`), with or without the version that was read
(`Locking`), compared before it is written (`Comparing`), its metadata merged or not (`Replacing`),
and given a CA bundle by the service-ca controller (`Injected`). Functions that differ in none of
them are one kind. `Get`, `Create`, `Update`, `Delete` (of a ClusterRoleBinding) and `Remove` are one
action each; `Fails` and `LostResponse` are calls that return an error before and after they took
effect. `Annotate`, `DeletedByOthers`, `RestoredByOthers` and `Inject` come between any two calls.
Metadata is a function from keys to whose value it is; `given` is the cluster IP or the CA bundle.

### 2.5 Configuration, Promqlgen

A sync starts from a document (`loadConfig`), reads the user's (`loadUserWorkloadConfig`) and then
the cluster (`LoadClusterID` to `LoadEtcd`), every read with any answer each time; `StartTasks`
stands for the setters. A section that is nil is one that is missing from `c.sections`, and `Goes`
ends the process when the next part uses a field of it. The steps of three tasks then apply the
manifests whose content depends on more than one setting: for etcd the alerts, the copied secret,
the two mounts, the dashboard and the ServiceMonitor; for telemetry the remote write with its
relabelling rule, the client and its recording rule. Processes come and go with another flag and
other selectors, so that each step meets what earlier ones left.

In `Promqlgen` a selector is a sequence of matchers. `LabelSelectorsToRelabelConfig` gives each label a
column, in the order in which labels are named first, writes one row per selector, and joins values by
`;` and rows by `|` without parentheses. The model keeps that: a value is what the `|`s outside of
parentheses separate in it (`Alternatives`), and each of these has a language (`Language`) of texts, a
text being the sequence of what is between its `;`s. `Branches` is what the `|`s of a row separate:
`a|b` and `y` in two columns are the branches `a` and `b;y`. `Matches` says when a branch matches
the joined labels of a series, also if an expression such as `.*` goes on beyond a `;`. The two
generators are compared with `Selects`, the meaning of a selector. `WellFormed` and `Grouped` are what
the deployed selectors (`manifests/0000_50_cluster-monitoring-operator_04-config.yaml`) have in common: `=` with a literal or `=~`, no
label twice, the metric's name, and no `|` in any value.

### 2.6 Rollout

The abstract rollout: one target at a time, parts that only move to what the target allows, success
only when every part is made from the target, a success undone only by removing parts. For
`Deployment` the parts are pods and the targets manifests; for `Operator` they are tasks and release
versions, and a part in between is made from nothing. The property `ImplementsRollout` of each is
the abstract specification under the mapping that stands before it. `PrometheusResource` does not
implement it: section 4.

## 3. Runs

| Run | Instance | Distinct states | What it shows |
|---|---|---|---|
| `operator` | 4 sources (one read by `Config` without a trigger), 2 tasks, 2 versions, 2 installations, 1 write, 1 fault, 1 restart | 610,000 | `TypeOK`, `OneSyncAtATime`, `NoLostUpdate`, `AvailableXorDegraded`, `RolloutBeforeReport`, `ImplementsRollout`, `Converges` |
| `deployment` | 2 pods, 3 manifests (2 selectors), 2 faults, 1 deletion | 20,000 | `TypeOK`, `RolledOutWhenOk`, `ImplementsRollout`, `EventuallyRolledOut` |
| `prometheus_resource` | 2 pods, 3 manifests (2 visible) in any order, 1 fault, 1 deletion | 808,000 | `TypeOK`, `NoOutdatedPodUnlessReverted`, `EventuallySettled` |
| `prometheus_resource_early` | 2 manifests, no fault | violation | `RolledOutBeforeDone` does not hold: section 4 |
| `tasks_first` | CMO, Grafana, Thanos querier, Prometheus on a cluster without their objects | 321,000 | `TypeOK`, `NoCircularWait`, `PasswordAccepted` |
| `tasks_rotation` | CMO, Thanos querier, user workload Prometheus; 2 changes, 1 fault | 324,000 | `CopiesAreCurrent`, `RotationHonoured` |
| `tasks_optional` | the three user workload tasks, on and off, 1 fault, 1 deletion | 343,000 | `Restartable`, `DisabledIsGone` |
| `tasks_copies` | Alertmanager, adapter, telemeter, on and off, 1 change | 295,000 | `Restartable`, `CopiesAreCurrent`, `DisabledIsGone` |
| `tasks_routes` | Thanos querier, Thanos ruler, config sharing | 13,000 | `EventuallyComplete` with a panic |
| `tasks_leaves` | prometheus-operator, node-exporter, the two state-metrics, 1 deletion | 9,000 | `EventuallyComplete`; the assumptions of `TaskOrder` |
| `objects` | 10 kinds, 4 manifests, 3 keys, 4 changes by others or of the manifest, 1 fault | 206,000 | `TypeOK`, `OthersMetadataKept`, `GivenKept`, `AppliedWhenOk`, `EventuallyApplied` |
| `configuration` | 20 documents, 5 processes, 36 series; no bound on syncs, faults or restarts | 1,668,000 | `TypeOK`, `AdministratorWins`, `RejectedForItsDocuments`, `TelemetryOnce`, `MountsAreDefined`, `EtcdAllOrNothing`, `KeepsWhatIsSelected`, `CountsWhatIsSent` |

Why the bounds suffice. A lost update needs one write during a sync, of which there is one for each
kind of source and each moment; what a second write adds is covered by `NoLostUpdates`, which is
proved for any number. The operator's ConfigMap is absent, invalid or enables user workload monitoring
(a plain one is treated as an absent one is), the user's is absent, invalid or null, and the process is
first installed without any or with a null document that is in use. One fault and one restart cover
each place where a call or the process may end; a second differs only by starting from the states
that the first already reaches, and the theorems of section 5 have no bound. Two pods tell "all"
from "some"; three manifests give a change in place and one that is not, in either order, and for a
Prometheus a change that the poll sees, one that it does not, and the way back from either. Two
changes of certificates let a second rotation overtake the copies of the first. The tasks of a run
are those that share objects; every task occurs in some run. In `objects` four changes let others
annotate, delete and restore one object and the manifest change once; the manifests differ in
metadata only, in the body, and in the role. The documents of `configuration` are all combinations
of what telemetry needs, and three other sections with and without content; the processes have both values of the
flag, selectors with labels that others lack, one that cannot be parsed, and one with a `|` of its own.

**Properties in words**

* `NoLostUpdate`: when queue, caches and worker are at rest, every task's objects are made from the
  present triggers at the running version.
* `OneSyncAtATime`: the queue keeps its rules and agrees with the worker on whether a sync is under
  way.
* `AvailableXorDegraded`, `RolloutBeforeReport`: the status never contradicts itself; Available, or
  a new version, appears only in a step after all tasks of that sync succeeded.
* `Converges`: after the last write, fault and restart everything the operator reads, also sources
  without a trigger, is rolled out and reported, and a configuration that cannot be rolled out is
  reported as Degraded. The one exception is stated with it (`Fatal`): a null user workload document
  that is in use ends every process in its first sync, so that nothing is rolled out and nothing is
  reported for as long as it is there; once it is gone the operator converges.
* `RolledOutWhenOk`: the poll that ends a wait for a Deployment or DaemonSet sees every pod made
  from this sync's manifest. `EventuallyRolledOut`: an immutable selector does not stop it.
* `NoOutdatedPodUnlessReverted`: if the StatefulSet is up to date at the last read, so are the
  pods, as far as the poll compares them, although they were listed before; with the one exception
  that the StatefulSet changed and changed back between the two reads and a pod was replaced in
  between. TLC shows that without the exception the property is violated. `EventuallySettled`: enabled operands follow their
  manifest, disabled ones vanish, although the prometheus-operator's cache may bring them back.
* `NoCircularWait`: in a sync without failures, and as long as others delete nothing, some task can
  always go on or the cluster has an object to complete.
* `PasswordAccepted`: the htpasswd files hold the password Grafana kept.
* `CopiesAreCurrent`: with no sync due, each user has exactly one hashed copy, of the present
  content, and mounts it. `RotationHonoured`: the annotation that requests a rotation goes only
  together with the certificates.
* `Restartable`: after a successful sync everything a pod mounts is there. `DisabledIsGone`: and
  nothing of a disabled part is, except `Leftovers`: objects that are never removed (`NeverRemoved`),
  and copies of certificates that were replaced since.
* `EventuallyComplete`: syncs succeed again and again, and every object is there.
* `ImplementsRollout`: every step of a sync, or of applying a Deployment, is one of `Rollout` or
  leaves it alone.
* `OthersMetadataKept`: what Get returned of others' annotations and labels survives the write, and
  all of it where the update carries the version. `GivenKept`: no update takes away a cluster IP or
  an APIService's CA bundle. `AppliedWhenOk`: a function that returns no error leaves the object as
  its manifest says, except a Route whose Get failed. `EventuallyApplied`: every kind ends as
  wanted, except a RoleBinding that has another role.
* `AdministratorWins`: no read of the cluster changes what the document says. `RejectedForItsDocuments`:
  a sync is rejected exactly for a document that it cannot use (the operator's without its key or
  malformed; with user workload monitoring the user's, malformed) or for a failed read of the user's
  ConfigMap, which alone of the reads of the cluster is not tolerated (`operator.go:402`); a null user
  document, and nothing else, ends the process; nothing of this passes for the defaults.
* `TelemetryOnce`: after a successful sync telemetry is sent by the client or by Prometheus, not by
  both, or by neither if it is disabled. `MountsAreDefined`: at any moment what is mounted for etcd
  is there. `EtcdAllOrNothing`: the manifests agree on whether etcd is monitored.
* `KeepsWhatIsSelected`: the relabelling rule of the remote write keeps only series that a selector
  selects, and all of them that lack the labels of the other selectors. It is claimed of selectors
  without a `|` of their own (`Grouped`): `{__name__=~"a|b",x="y"}` gives `(a|b;y)`, which drops `a;y`
  and keeps what is not selected, and TLC shows that the property is violated without that premise.
* `CountsWhatIsSent`: the recording rule that goes with the client, which is given the selectors and
  sends what they select, counts what is sent but for series that also have a label that only another
  selector names, and counts no series whose metric no selector names. More is not so: for
  `{__name__="up"}` and `{__name__="ALERTS",alertstate="firing"}` the rule is
  `{__name__=~"up|ALERTS",alertstate=~"firing|"}`, which counts an `ALERTS` series without
  `alertstate` and leaves out an `up` series with `alertstate="pending"`. Of the deployed selectors
  only one names a second label (`04-config.yaml:83`).

Each property has a mutant of the code model in `PROJECT.json` that breaks it; mutants stand before
the definition they change, marked *A mutant*.

**Fairness.** Weak fairness of the operator's goroutines, of timers (the delayed queue, the ticker,
the resync) and of the cluster's controllers: each runs as long as it has something to do. `Operator`
assumes less than that: one of the process's own steps is taken as long as there is one, some watch and
some handler make progress, some timer fires, and a process that ended is started again. Syncs
recur because every informer resyncs after 15 minutes. Writes, faults, crashes and changes by
others have no fairness and are bounded, so they end. `Objects` assumes the same: syncs recur, the
function's calls and the service-ca controller run. `Configuration` has safety properties only and
no fairness. A timeout of a wait that cannot end is fair.
`Tasks` also assumes strong fairness of a task's next `apply` and `ensure` call: a panic of the
Thanos ruler task ends the whole sync, and the querier task, which needs two calls to create the
route whose absence causes the panic, must win that race in one of infinitely many syncs (the ruler
makes more than a dozen calls before it gets there).

Deadlock is checked in every run; none has one, because syncs recur.

## 4. Finding

`prometheus_resource_early`: `SetDone` says "We require that all components be rolled out and
available at the new version before reporting this value." `WaitForPrometheus` compares pods with
the StatefulSet, without a check that the prometheus-operator has handled the resource just
updated. TLC shows the first poll, which `wait.Poll` makes one interval after the update, ending the
wait with every pod made from the old manifest, after which the new version is reported: nothing
bounds the time in which the prometheus-operator, itself just rolled out, handles the resource. The waits for Deployments and DaemonSets check the generation, and
`RolledOutWhenOk` is proved for them.

Behaviour seen while modelling and stated as part of the properties, or left out of them by name,
no finding claimed:

* the etcd CA's trigger key differs from the key that is read (`operator.go:47` and `:498`), so a
  change waits for a resync;
* a deleted Grafana datasource Secret gets a new password that the kept htpasswd secrets never
  accept (`PasswordAccepted` assumes no deletion);
* `destroy` leaves the objects in `Leftovers`, and the Prometheus task the copied client certificate of
  etcd, which it creates when etcd is monitored and nobody deletes (`prometheus.go:242`);
* a RoleBinding's role is never updated (`Stuck`), and the webhook's CA bundle is dropped and injected
  again in each sync;
* `Documentation/user-guides/configuring-cluster-monitoring.md:5` says that defaults are used if the
  config "is empty or malformed"; `loadConfig` rejects a malformed one and one without the key, and the
  sync reports Degraded. `RejectedForItsDocuments` states, against the guide, what the code does: such
  a document is never replaced by the defaults;
* a `telemeterClient` section without a URL leaves it empty (`config.go:274`), so that a remote write
  has none; the proxy is set on a copy of the remote write (`manifests.go:1323`) and has no effect;
* the manifest of the telemetry rule says that it "tracks the total number of series sent via telemetry
  from each cluster" (`04-config.yaml:248`); it differs from that in the two ways which
  `CountsWhatIsSent` leaves open;
* a pod of a reverted change of retention or log level may be left by a wait that ended without an
  error (`NoOutdatedPodUnlessReverted`);
* an empty list of selectors keeps every series (`promqlgen.go:57`), values are joined without
  parentheses (`Grouped` excludes those with a `|`), a matcher's type is ignored (`WellFormed` requires
  that it makes no difference), and a recording rule whose selectors cannot be parsed is empty without
  an error (`telemeter.go:256`).

## 5. Proofs

All theorems hold for every value of the constants that satisfies the named assumptions
(`KindsOfSources`, `ContentsOfSources`, `ReadsOfTasks`, `CausesOfFailure`, `NamesOfVersions`, `Bounds`;
`MessagesAreNoCauses`; `SomeSlots`, `SelectorsMoveOn`; `SomeReplicas`; `ManifestsOfObjects`,
`KnownKinds`; `EmptyExpression`, `WrittenByAdministrators`, `StartedWith`, `SeriesHaveLabels`; `KnownTasks`,
`KindsOfConfiguration`, `ChangedByOthers`, `PasswordsAtFirst`, `BoundsOfRuns` and the sentences of
`TaskOrder`), which TLC evaluates in the runs. Each inductive invariant was checked by TLC on the run's
instance first (that of `Tasks` but for what it says of tasks that have ended, which has an unbounded
quantifier).

* `WorkQueueProofs`: `Add`, `Get`, `Done` and `ShutDown` keep a queue well formed: waiting items are
  dirty, distinct and not in processing.
* `StatusReporterProofs`: the three calls keep the type of the ClusterOperator and leave Degraded
  and Available opposite.
* `OperatorProofs`
  * `TypeCorrect`, `OneSync`: proved together, since `Done` has its type only for an item that is in
    processing.
  * `NoLostUpdates`: `NoLostUpdate` is not inductive. `IInv` adds what a sync in flight carries:
    `StartMakesWork` (before the worker runs, the ConfigMap has made work or is about to),
    `CachesLag`, `ReadsAreCurrent` (what was read is current *or* an event or new work is on its
    way: the case of a change after the read), and `TasksDeploy` (a task that is ok has deployed what
    it read; a sync without error ends only when all are). One lemma per conjunct and per kind of
    step.
  * `StatusConsistent`: needs `Unwritten`, as a status call starts from whatever an earlier process
    left, an object without conditions included.
  * `RolloutReported`: an action property, from `IInv`.
  * `OperatorImplementsRollout`: the initial states and every step under the refinement mapping, one
    lemma per group of actions; a sync that succeeded needs `TasksDeploy`.
* `DeploymentProofs`: `TypeCorrect`, and `RolloutIsComplete` for `RolledOutWhenOk`. Its `IInv` says that the
  object is never ahead of the task (`SpecIsWanted`), that the task deletes only objects with an
  earlier selector (`DeletingIsOld`), and that a status about the present generation is true
  (`StatusIsTrue`), which the equality of two cardinalities in `RolledOut` has to yield for sets of pods.
  `DeploymentImplementsRollout` adds `PodsFollow`: the controller is never ahead of the task, there
  are no pods without their object, and a success leaves the controller nothing to do.
* `PrometheusResourceProofs`: `TypeCorrect`, and `NoPodIsOutdated` for `NoOutdatedPodUnlessReverted`, for
  manifests in any order. The invariant (`Replaced`) is that between the two reads of a poll a pod is
  the one that was listed, or is gone, or is made from a manifest that the StatefulSet has had since.
  That the wait ends then makes every listed pod ready and like the StatefulSet, for which the equality
  of two cardinalities has to yield that of sets of pods.
* `ObjectsProofs`: `TypeCorrect`, `OthersAreRespected`, `GivenIsKept`, `OkMeansApplied`. The invariant says
  what a call relies on of the earlier ones (`Sequence`), that an object nobody wrote to is as it was
  read (`Fresh`), and which kinds have a field that the cluster fills in (`Filled`).
* `ConfigurationProofs`: all eight invariants. First lemmas about the generators, for any number of
  well-formed selectors and any language of expressions: "named before" is an order of the labels, so
  that positions are a bijection and every label has one column (`LabelsAreOrdered`, `Columns`); the row
  of a selector without a `|` is one branch (`OneBranch`); `n` expressions match `n` labels only if
  each matches its own, since `n` parts of at least one piece leave no choice of where to cut
  (`MatchesColumns`). Then the invariant: what the document says
  is in the configuration from its first step on (`Asked`), what the next step of a task will mount is
  there (`Mounted`), and a sync without failure has left what each position of its tasks implies
  (`Left`, `Agreed`), from which the agreement of the tasks at the end follows.
* `TasksProofs`: all seven safety properties of `Tasks`, for any set of the fifteen tasks, any
  configurations, any objects at first, and any number of changes, deletions and faults, where a run has
  three or four tasks and one or two of each.
  * The inductive invariant `Inv` has three parts. `Control`: where the tasks are. `Server`: of what
    is not a hashed copy there is one content, only routes and bundles are incomplete, the password
    files are of the password that is there (`StoreOK`), and a workload that is gone has no pods.
    `TaskPart`, for each task: what it has read is still so where something depends on it (`Knows`: the
    password always, the certificates and bundles as long as no sync is due), and each step it has
    passed has brought about what it is for (`Did`: objects made are there, removed ones are not, the
    copy is there and alone, the workload mounts what was read).
  * A step of one task must leave alone what all the others know and did. `Undisturbed` says what that
    means, once: `StaysTrue` takes a task's part of the invariant over any such step. What remains for
    each action is to show that it is such a step for the others (from `Proper` and `OneOwner`, by way
    of `Spares`, which compares the objects before and after), and that the task itself may add the
    step to those it has passed (`GoingOn`), or has failed (`Stopping`). One lemma per action.
  * `PodsAreRestartable`, `DisabledPartsAreGone` and `CopiesStayCurrent` read off `Did` for all steps of
    the tasks that succeeded, with `StepsAreRounded` and `StepsUndoOthers`.
  * `WaitsAreServed`: `BlockedLacks` shows that a task that waits lacks an object that it does not make,
    and `ProviderDid` that the object's provider, if it has ended or waits itself, has made it. The
    hypothesis is that the tasks provide what they wait for (`Closed`); `AllTasksAreServed` is the
    case of all fifteen. Without the hypothesis it is false: some sets of tasks lack the one that
    creates what another waits for.

Only model-checked: `Converges`, `EventuallyRolledOut`, `EventuallySettled`, `EventuallyComplete`,
`EventuallyApplied`: liveness under fairness is out of the prover's reach. What the programs of the
tasks are, step by step, enters the proofs only through `TaskOrder`, which TLC evaluates.

## 6. Not modelled, and why

* Operator: relist after an expired watch, two overlapping processes (there is no leader election,
  but one replica), a list served from a stale watch cache, merging of notifications; `LoadRest`
  reads its sources in one step.
* `Deployment`: the branch of `CreateOrUpdateDeployment` for an unchanged object, whose comparison
  never succeeds against defaulted fields; edits by others (only deletions); scaling. A downgrade to an
  earlier selector is excluded by assumption (`SelectorsMoveOn`): selectors are part of the release and
  no setting of an administrator's.
* `PrometheusResource`: that an update with the same resource makes no event, and scaling.
* Conflicts of resource versions: explicit in `Objects` and for the certificates in `Tasks`, elsewhere
  part of failing calls.
* `Tasks`: service CA secrets other than `prometheus-adapter-tls` (present when pods need them);
  `extension-apiserver-authentication` does not change; CRDs are installed beforehand; deletion of
  a workload takes effect at once (`Deployment` and `PrometheusResource` have the details); a CA
  bundle mount is optional, as in the manifests; `Restartable` and `CopiesAreCurrent` assume that
  nobody deletes objects.
* `Objects`: the annotation and label values as such, owner references and finalizers.
* `Configuration`: settings that are passed on to one manifest as they are (node selectors,
  tolerations, retention, resources, images), and the platform, which filters three groups of alerts;
  the three proxy settings are one value. Of the factory's functions most read a YAML asset and set
  single fields: there is no control in them to check.
* `Promqlgen`: the syntax of PromQL and of regular expressions; the values of series have no `;`.
* String helpers, transition times and related objects of the ClusterOperator.

## 7. Plan

1. *(done)* `WorkQueue`, `StatusReporter`, `Operator`: the control loop, with proofs.
2. *(done)* `Deployment`, `PrometheusResource`: rollouts; proof for Deployments.
3. *(done)* `TaskPrograms`, `Tasks`: the tasks and what they share.
4. *(done)* `Configuration`, `Promqlgen`: from the document to the manifests that must agree, proved.
5. *(done)* `Rollout`, implemented by `Deployment` and `Operator`, proved.
6. *(done)* `Objects`: metadata, fields kept on update, and the kinds that are applied differently,
   proved.
7. *(done)* The proof of `NoOutdatedPodUnlessReverted`, for manifests in any order.
8. *(done)* Proofs of all safety properties of `Tasks`, for any set of tasks; `TaskOrder`.
9. Proofs for a reader: shorter leaves in the longer proofs, and the reasons for which a task can fail in a
   sync without faults (an object read without waiting, a missing prometheus-operator, a conflict on
   the certificates) as an action property of `Tasks`.
