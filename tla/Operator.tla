------------------------------ MODULE Operator ------------------------------
(***************************************************************************)
(* The control loop of the cluster monitoring operator: the informers that *)
(* watch its inputs, the work queue they feed, the worker that turns one   *)
(* work item into one sync, the parallel tasks of a sync, the status it    *)
(* reports, and the process around them, which may stop at any point       *)
(* (pkg/operator/operator.go, pkg/tasks/tasks.go, cmd/operator/main.go).   *)
(*                                                                         *)
(* A source is an API object that the operator reads.  Its content is      *)
(* abstracted to what the control flow tells apart, and its revision       *)
(* counts the writes to it, so that two states of a source never look the  *)
(* same.  What a task does to the cluster is abstracted to the version and *)
(* the input revisions its manifests were made from.                       *)
(***************************************************************************)
EXTENDS WorkQueue, StatusReporter, FiniteSets

CONSTANTS
    Key,           \* the work item: the key of the operator's ConfigMap
    Config,        \* the source cluster-monitoring-config
    UserWorkload,  \* the source user-workload-monitoring-config
    Sources,       \* every source, these two included
    Triggers,      \* the sources whose events handleEvent turns into work
    UpdateOnly,    \* the triggers whose informer has no add and delete handler
    Loads,         \* sources that Config() reads and can do without
    Required,      \* sources without which the task that reads them fails
    Tasks,         \* the tasks of a sync
    Reads,         \* the sources a task reads by itself
    Contents,      \* the contents that each source may have
    Installed,     \* the contents of all of them with which the operator may be installed
    MaxWrites,     \* bound on the writes to sources
    MaxFaults,     \* bound on failing calls of the operator
    MaxRestarts    \* bound on the ends of the operator's process

Invalid == "InvalidConfiguration"

ASSUME KindsOfSources ==
    /\ Config # UserWorkload
    /\ {Config, UserWorkload} \subseteq Triggers \ UpdateOnly
    /\ Triggers \subseteq Sources /\ UpdateOnly \subseteq Triggers
    /\ Loads \subseteq Sources \ {Config, UserWorkload}
    /\ Required \subseteq Sources

ASSUME ReadsOfTasks ==
    Reads \in [Tasks -> SUBSET (Sources \ ({Config, UserWorkload} \cup Loads))]

ASSUME CausesOfFailure == Causes = Tasks \cup {Invalid} /\ {Invalid, "none"} \cap Tasks = {}

ASSUME NamesOfVersions == "mixed" \notin Versions

ASSUME Bounds == MaxWrites \in Nat /\ MaxFaults \in Nat /\ MaxRestarts \in Nat

VARIABLES
    cluster,   \* the sources as the API server holds them
    writes,    \* number of writes so far
    store,     \* the sources as the informers' caches hold them
    synced,    \* the sources whose informer has done its initial list
    notify,    \* the triggers with an event that no handler has run for yet
    proc,      \* the process: down, starting, running, stopping
    version,   \* the release version the process was started with
    restarts,  \* number of ends of the process so far
    wq,        \* the work queue
    delayed,   \* the items that AddRateLimited holds back
    phase,     \* the worker's position in processNextWorkItem and sync
    loaded,    \* what Config() has read in this sync
    task,      \* the progress of each task of this sync
    seen,      \* the revisions each task has read in this sync, 0 for none
    failure,   \* the cause of the first error of this sync, or "none"
    deployed,  \* what each task's objects in the cluster were made from
    co,        \* the ClusterOperator object
    faults     \* number of failed calls so far

inputVars == <<cluster, writes>>
informerVars == <<store, synced, notify>>
procVars == <<proc, version, restarts>>
queueVars == <<wq, delayed>>
syncVars == <<phase, loaded, task, seen, failure>>
outputVars == <<deployed, co>>
vars == <<inputVars, informerVars, procVars, queueVars, syncVars, outputVars, faults>>

-----------------------------------------------------------------------------
(* Data.                                                                   *)

\* "invalid": the ConfigMap cannot be parsed, or it is the operator's and has no
\* config.yaml, which the user's may lack; "uwm": it enables user workload
\* monitoring; "null": its YAML document has no content.
Values == {"absent", "invalid", "plain", "uwm", "null"}

\* A null document of the operator's own is plain: it decodes to the defaults.
ASSUME ContentsOfSources ==
    /\ Contents \in [Sources -> SUBSET Values]
    /\ "null" \notin Contents[Config]
    /\ \A s \in Sources \ {Config} : "uwm" \notin Contents[s]
    /\ \A s \in Sources \ {Config, UserWorkload} : Contents[s] \subseteq {"absent", "plain"}
    /\ Installed \subseteq [Sources -> Values]
    /\ \A i \in Installed : \A s \in Sources : i[s] \in Contents[s]

Object == [rev : Nat, val : Values]
NotRead == [rev |-> 0, val |-> "absent"]

Tracked == Triggers \ UpdateOnly

\* What was made from several inputs at once, or from one not known any more.
Mixed == [version |-> "mixed", from |-> [s \in Sources |-> 0]]

\* What task t makes of the configuration and of the sources it has read.
Target(t) ==
    [version |-> version,
     from |-> [s \in Sources |-> IF s \in Reads[t] THEN seen[t][s] ELSE loaded[s].rev]]

NothingSeen == [t \in Tasks |-> [s \in Sources |-> 0]]

TypeOK ==
    /\ cluster \in [Sources -> Object] /\ writes \in Nat
    /\ store \in [Sources -> Object] /\ synced \subseteq Triggers /\ notify \subseteq Triggers
    /\ proc \in {"down", "starting", "running", "stopping"}
    /\ version \in Versions /\ restarts \in Nat
    /\ wq \in QueueOf({Key}) /\ delayed \subseteq {Key}
    /\ phase \in {"idle", "config", "userworkload", "loads", "progress", "tasks",
                  "report", "finish"}
    /\ loaded \in [Sources -> Object]
    /\ task \in [Tasks -> {"todo", "applying", "ok", "failed"}]
    /\ seen \in [Tasks -> [Sources -> Nat]]
    /\ failure \in Causes \cup {"none"}
    /\ deployed \in [Tasks -> [version : Versions \cup {"mixed"}, from : [Sources -> Nat]]]
    /\ co \in ClusterOperator /\ faults \in Nat

Init ==
    /\ \E i \in Installed : cluster = [s \in Sources |-> [rev |-> 1, val |-> i[s]]]
    /\ writes = 0
    /\ store = [s \in Sources |-> NotRead] /\ synced = {} /\ notify = {}
    /\ proc = "down" /\ version \in Versions /\ restarts = 0
    /\ wq = NewQueue /\ delayed = {}
    /\ phase = "idle" /\ loaded = [s \in Sources |-> NotRead]
    /\ task = [t \in Tasks |-> "todo"] /\ seen = NothingSeen /\ failure = "none"
    /\ deployed = [t \in Tasks |-> Mixed]
    /\ co = [exists |-> FALSE, conds |-> [c \in CondTypes |-> NoCondition], version |-> ""]
    /\ faults = 0

\* A call of the operator to the API server, or its wait for a rollout, may
\* fail while the bound allows it.
Fault == faults < MaxFaults /\ faults' = faults + 1
NoFault == UNCHANGED faults

-----------------------------------------------------------------------------
(* The cluster around the operator.                                        *)

\* An administrator or another controller creates, changes or deletes a source.
Write(s, v) ==
    /\ writes < MaxWrites
    /\ v \in Contents[s] /\ ~(v = "absent" /\ cluster[s].val = "absent")
    /\ cluster' = [cluster EXCEPT ![s] = [rev |-> @.rev + 1, val |-> v]]
    /\ writes' = writes + 1
    /\ UNCHANGED <<informerVars, procVars, queueVars, syncVars, outputVars, faults>>

-----------------------------------------------------------------------------
(* The process: New and Run in the operator, Main around them.             *)

\* The next process may have the same release version or another one.
Start(v) ==
    /\ proc = "down"
    /\ proc' = "starting" /\ version' = v
    /\ UNCHANGED <<inputVars, informerVars, restarts, queueVars, syncVars, outputVars, faults>>

\* The initial list of the informer that watches s fills its cache, and makes
\* an add event of what it found.
ListSync(s) ==
    /\ proc = "starting" /\ s \in Triggers \ synced
    /\ store' = [store EXCEPT ![s] = cluster[s]]
    /\ synced' = synced \cup {s}
    /\ notify' = IF s \in Tracked /\ cluster[s].val # "absent" THEN notify \cup {s} ELSE notify
    /\ UNCHANGED <<inputVars, procVars, queueVars, syncVars, outputVars, faults>>

\* A mutant: the worker starts without the work item for the default configuration.
RunWorkerWithoutDefault ==
    /\ proc = "starting" /\ synced = Triggers
    /\ proc' = "running"
    /\ UNCHANGED <<inputVars, informerVars, version, restarts, queueVars, syncVars, outputVars,
                   faults>>

\* All caches are filled: the worker starts, and without a ConfigMap, whose add
\* event would make work, Run makes the first work item itself.
RunWorker ==
    /\ proc = "starting" /\ synced = Triggers
    /\ proc' = "running"
    /\ wq' = IF store[Config].val = "absent" THEN Add(wq, Key) ELSE wq
    /\ UNCHANGED <<inputVars, informerVars, version, restarts, delayed, syncVars, outputVars,
                   faults>>

\* The five minute ticker.
Tick ==
    /\ proc = "running" /\ store[Config].val = "absent"
    /\ wq' = Add(wq, Key)
    /\ UNCHANGED <<inputVars, informerVars, procVars, delayed, syncVars, outputVars, faults>>

\* SIGTERM: Run returns and shuts the queue down, the worker is left running.
Stop ==
    /\ proc = "running" /\ restarts < MaxRestarts
    /\ proc' = "stopping" /\ wq' = ShutDown(wq)
    /\ UNCHANGED <<inputVars, informerVars, version, restarts, delayed, syncVars, outputVars,
                   faults>>

\* The process ends and nothing of its memory survives it.  Exit: Main returns
\* after a stop, whatever the worker is doing.  Crash: Run returned an error
\* before the caches were filled, or the process was killed.  Panic: applyDefaults
\* dereferences the pointer that a null document of the user's has set to nil, and
\* the handler of panics around the worker passes it on.
End ==
    /\ proc' = "down"
    /\ store' = [s \in Sources |-> NotRead] /\ synced' = {} /\ notify' = {}
    /\ wq' = NewQueue /\ delayed' = {}
    /\ phase' = "idle" /\ loaded' = [s \in Sources |-> NotRead]
    /\ task' = [t \in Tasks |-> "todo"] /\ seen' = NothingSeen /\ failure' = "none"
    /\ UNCHANGED <<inputVars, version, outputVars, faults>>

Exit == proc = "stopping" /\ End /\ restarts' = restarts + 1

Crash ==
    /\ proc \in {"starting", "running"} /\ restarts < MaxRestarts
    /\ End /\ restarts' = restarts + 1

Panic ==
    /\ phase = "userworkload" /\ cluster[UserWorkload].val = "null"
    /\ End /\ UNCHANGED restarts

-----------------------------------------------------------------------------
(* The informers and their handlers.                                       *)

\* The watch of s brings the cache up to date.  A handler for every kind of
\* event is notified in any case; one for updates only is not when the object
\* was created or deleted, and may or may not be when several writes were
\* delivered on the way.
Watch(s) ==
    /\ proc \in {"starting", "running"} /\ s \in synced /\ store[s] # cluster[s]
    /\ store' = [store EXCEPT ![s] = cluster[s]]
    /\ LET updated == store[s].val # "absent" /\ cluster[s].val # "absent"
           several == cluster[s].rev > store[s].rev + 1
       IN \/ /\ s \in Tracked \/ updated \/ several
             /\ notify' = notify \cup {s}
          \/ /\ s \in UpdateOnly /\ (~updated \/ several)
             /\ UNCHANGED notify
    /\ UNCHANGED <<inputVars, synced, procVars, queueVars, syncVars, outputVars, faults>>

\* The periodic resync replays an update event for an object in the cache.
Resync(s) ==
    /\ proc = "running" /\ s \in Triggers /\ store[s].val # "absent"
    /\ notify' = notify \cup {s}
    /\ UNCHANGED <<inputVars, store, synced, procVars, queueVars, syncVars, outputVars, faults>>

\* Events that wait for the same handler and the same source are one: each
\* run of the handler enqueues the same key.
handleEvent(s) ==
    /\ proc # "down" /\ s \in notify
    /\ notify' = notify \ {s}
    /\ wq' = Add(wq, Key)
    /\ UNCHANGED <<inputVars, store, synced, procVars, delayed, syncVars, outputVars, faults>>

\* The delay of a rate-limited item is over.
DelayExpires ==
    /\ proc = "running" /\ delayed # {}
    /\ delayed' = {} /\ wq' = Add(wq, Key)
    /\ UNCHANGED <<inputVars, informerVars, procVars, syncVars, outputVars, faults>>

-----------------------------------------------------------------------------
(* One sync.                                                               *)

unchangedOutside == UNCHANGED <<inputVars, informerVars, procVars>>

\* processNextWorkItem takes the work item.
TakeWorkItem ==
    /\ proc \in {"running", "stopping"} /\ phase = "idle" /\ wq.queue # <<>>
    /\ wq' = Get(wq) /\ phase' = "config"
    /\ UNCHANGED <<delayed, loaded, task, seen, failure, outputVars, faults>>
    /\ unchangedOutside

\* loadConfig: from the cache, not from the API server.
loadConfig ==
    /\ phase = "config"
    /\ loaded' = [loaded EXCEPT ![Config] = store[Config]]
    /\ LET bad == store[Config].val = "invalid"
       IN /\ failure' = IF bad THEN Invalid ELSE "none"
          /\ phase' = CASE bad -> "report"
                        [] ~bad /\ store[Config].val = "uwm" -> "userworkload"
                        [] OTHER -> "loads"
    /\ UNCHANGED <<queueVars, task, seen, outputVars, faults>> /\ unchangedOutside

\* loadUserWorkloadConfig: from the API server; without the object or its key
\* the defaults are used, any other error ends the sync, and a null document the
\* process (Panic).
loadUserWorkloadConfig ==
    /\ phase = "userworkload"
    /\ \/ /\ Fault
          /\ failure' = Invalid /\ phase' = "report" /\ UNCHANGED loaded
       \/ /\ NoFault /\ cluster[UserWorkload].val # "null"
          /\ loaded' = [loaded EXCEPT ![UserWorkload] = cluster[UserWorkload]]
          /\ LET bad == cluster[UserWorkload].val = "invalid"
             IN /\ failure' = IF bad THEN Invalid ELSE "none"
                /\ phase' = IF bad THEN "report" ELSE "loads"
    /\ UNCHANGED <<queueVars, task, seen, outputVars>> /\ unchangedOutside

\* The rest of Config(): what cannot be read is left out of the configuration.
LoadRest ==
    /\ phase = "loads"
    /\ \E lost \in SUBSET Loads :
          /\ IF lost = {} THEN NoFault ELSE Fault
          /\ loaded' = [s \in Sources |-> IF s \in Loads \ lost THEN cluster[s] ELSE loaded[s]]
    /\ phase' = "progress"
    /\ UNCHANGED <<queueVars, task, seen, failure, outputVars>> /\ unchangedOutside

\* A status call: its error is logged and nothing else.
StatusCall(updated) ==
    \/ co' = updated /\ NoFault
    \/ co' \in FaultyOutcomes(co, updated) /\ Fault

BeginRollout ==
    /\ phase = "progress"
    /\ StatusCall(SetInProgress(co, version))
    /\ phase' = "tasks"
    /\ UNCHANGED <<queueVars, loaded, task, seen, failure, deployed>> /\ unchangedOutside

-----------------------------------------------------------------------------
(* The tasks of a sync, all at once: RunAll.                               *)

\* A mutant: the error of a task is lost.
FailsSilently(t) ==
    /\ task' = [task EXCEPT ![t] = "failed"]
    /\ UNCHANGED failure

\* The first error, in time, is the one that RunAll returns.
Fails(t) ==
    /\ task' = [task EXCEPT ![t] = "failed"]
    /\ failure' = IF failure = "none" THEN t ELSE failure

unchangedByTasks == UNCHANGED <<queueVars, phase, loaded, co>> /\ unchangedOutside

\* Task t starts to apply its manifests.  Until it is done its objects are a mix
\* of old and new, unless what they are made from is what they were made from
\* before.
TaskStarts(t) ==
    /\ phase = "tasks" /\ task[t] = "todo"
    /\ task' = [task EXCEPT ![t] = "applying"]
    /\ deployed' = [deployed EXCEPT ![t] =
                      IF /\ @.version = version
                         /\ \A s \in Sources \ Reads[t] : @.from[s] = loaded[s].rev
                      THEN @ ELSE Mixed]
    /\ UNCHANGED <<seen, failure, faults>> /\ unchangedByTasks

\* On the way it reads a source by itself, from the API server.
TaskReads(t, s) ==
    /\ phase = "tasks" /\ task[t] = "applying" /\ s \in Reads[t] /\ seen[t][s] = 0
    /\ IF s \in Required /\ cluster[s].val = "absent"
       THEN Fails(t) /\ UNCHANGED <<seen, deployed>>
       ELSE /\ seen' = [seen EXCEPT ![t][s] = cluster[s].rev]
            /\ deployed' = [deployed EXCEPT ![t] = IF @.from[s] = cluster[s].rev THEN @ ELSE Mixed]
            /\ UNCHANGED <<task, failure>>
    /\ UNCHANGED faults /\ unchangedByTasks

TaskSucceeds(t) ==
    /\ phase = "tasks" /\ task[t] = "applying" /\ \A s \in Reads[t] : seen[t][s] # 0
    /\ task' = [task EXCEPT ![t] = "ok"]
    /\ deployed' = [deployed EXCEPT ![t] = Target(t)]
    /\ UNCHANGED <<seen, failure, faults>> /\ unchangedByTasks

TaskFails(t) ==
    /\ phase = "tasks" /\ task[t] \in {"todo", "applying"}
    /\ Fault /\ Fails(t)
    /\ UNCHANGED <<seen, deployed>> /\ unchangedByTasks

RunAllReturns == \A t \in Tasks : task[t] \in {"ok", "failed"}

-----------------------------------------------------------------------------
(* The end of a sync.                                                      *)

\* Mutants: a success is reported as a failure; a failed task as a success.
ReportAlwaysFailed ==
    /\ phase = "report" \/ (phase = "tasks" /\ RunAllReturns)
    /\ StatusCall(SetFailed(co, version, failure))
    /\ phase' = "finish"
    /\ UNCHANGED <<queueVars, loaded, task, seen, failure, deployed>> /\ unchangedOutside

ReportIgnoringTasks ==
    /\ phase = "report" \/ (phase = "tasks" /\ RunAllReturns)
    /\ StatusCall(IF failure = Invalid THEN SetFailed(co, version, failure)
                                       ELSE SetDone(co, version))
    /\ phase' = "finish"
    /\ UNCHANGED <<queueVars, loaded, task, seen, failure, deployed>> /\ unchangedOutside

Report ==
    /\ phase = "report" \/ (phase = "tasks" /\ RunAllReturns)
    /\ StatusCall(IF failure = "none" THEN SetDone(co, version)
                                      ELSE SetFailed(co, version, failure))
    /\ phase' = "finish"
    /\ UNCHANGED <<queueVars, loaded, task, seen, failure, deployed>> /\ unchangedOutside

\* A mutant: a failed sync is not tried again.
FinishWithoutRetry ==
    /\ phase = "finish"
    /\ wq' = Done(wq, Key)
    /\ phase' = "idle" /\ loaded' = [s \in Sources |-> NotRead]
    /\ task' = [t \in Tasks |-> "todo"] /\ seen' = NothingSeen /\ failure' = "none"
    /\ UNCHANGED <<delayed, outputVars, faults>> /\ unchangedOutside

\* The sync returns to processNextWorkItem: an error brings the item back after
\* a delay, and Done ends its processing.  AddRateLimited does nothing once the
\* queue shuts down.
Finish ==
    /\ phase = "finish"
    /\ delayed' = IF failure # "none" /\ ~wq.shuttingDown THEN {Key} ELSE delayed
    /\ wq' = Done(wq, Key)
    /\ phase' = "idle" /\ loaded' = [s \in Sources |-> NotRead]
    /\ task' = [t \in Tasks |-> "todo"] /\ seen' = NothingSeen /\ failure' = "none"
    /\ UNCHANGED <<outputVars, faults>> /\ unchangedOutside

-----------------------------------------------------------------------------
Environment == \E s \in Sources, v \in Values : Write(s, v)

Process ==
    \/ \E v \in Versions : Start(v)
    \/ \E s \in Sources : ListSync(s)
    \/ RunWorker \/ Tick \/ Stop \/ Exit \/ Crash \/ Panic

Informers == \E s \in Sources : Watch(s) \/ Resync(s) \/ handleEvent(s)

RunTask(t) ==
    \/ \E s \in Sources : TaskReads(t, s)
    \/ TaskStarts(t) \/ TaskSucceeds(t) \/ TaskFails(t)

Worker ==
    \/ TakeWorkItem \/ loadConfig \/ loadUserWorkloadConfig \/ LoadRest \/ BeginRollout
    \/ \E t \in Tasks : RunTask(t)
    \/ Report \/ Finish

Next == Environment \/ Process \/ Informers \/ DelayExpires \/ Worker

Spec == Init /\ [][Next]_vars

\* What is assumed of the scheduling, which is less than the code gives: the process is
\* started again, Run and the worker with its tasks go on, watches deliver, handlers run,
\* and some timer fires (the ticker, a resync or a delay).  Nothing is assumed of the
\* administrator's writes, of faults and of the end of a process that is not stopping.
Timer == Tick \/ DelayExpires \/ \E s \in Triggers : Resync(s)

Fairness ==
    /\ WF_vars((\E v \in Versions : Start(v)) \/ RunWorker \/ Exit \/ Worker \/ Panic)
    /\ WF_vars(\E s \in Triggers : ListSync(s) \/ Watch(s))
    /\ WF_vars(\E s \in Triggers : handleEvent(s))
    /\ WF_vars(Timer)

FairSpec == Spec /\ Fairness

-----------------------------------------------------------------------------
(* Properties.                                                             *)

\* The work queue keeps its own rules, and the worker and the queue agree on
\* whether a sync is under way (processNextWorkItem pairs Get with Done): an
\* unpaired or repeated hand-out would start a second sync of the same key.
OneSyncAtATime ==
    /\ WellFormed(wq)
    /\ phase # "idle" <=> Key \in wq.processing

\* No event of s is on its way to the operator.
Fresh(s) == store[s] = cluster[s] /\ s \notin notify

\* The sources that the objects of task t are made from and whose every event
\* makes work.
Inputs(t) ==
    {Config} \cup (Reads[t] \cap Tracked)
             \cup (IF cluster[Config].val = "uwm" THEN {UserWorkload} ELSE {})

UpToDate(t) ==
    /\ deployed[t].version = version
    /\ \A s \in Inputs(t) : deployed[t].from[s] = cluster[s].rev

\* The operator has nothing to do.
Quiescent ==
    /\ proc = "running" /\ phase = "idle" /\ wq.dirty = {} /\ delayed = {}
    /\ \A s \in Tracked : Fresh(s)

\* No trigger is lost: whenever the operator has nothing to do, every task's
\* objects are made from the present content of every source that triggers it,
\* at the running version, whatever arrived before, during or after a sync,
\* however syncs failed and wherever the process was restarted.
NoLostUpdate == Quiescent => \A t \in Tasks : UpToDate(t)

-----------------------------------------------------------------------------
(* Why no trigger is lost: the inductive strengthening of NoLostUpdate.    *)

\* Before the worker runs, the ConfigMap that the cache holds has made work or
\* is about to; only a process that is stopping refuses work.
StartMakesWork ==
    /\ proc \in {"down", "starting"} => phase = "idle"
    /\ proc = "down" => synced = {}
    /\ proc # "stopping" => ~wq.shuttingDown
    /\ proc = "starting" /\ Config \in synced
          => store[Config].val = "absent" \/ Config \in notify \/ Key \in wq.dirty

\* A cache never holds more than the API server.
CachesLag == \A s \in Sources : store[s].rev <= cluster[s].rev

\* The running operator has no event on its way, and no work but this sync.
Settled(s) == proc = "running" /\ wq.dirty = {} /\ Fresh(s)

\* Config() returned without an error in this sync.
Configured == phase \in {"loads", "progress", "tasks"} \/ (phase = "finish" /\ failure = "none")

\* What the sync has read of a source is its present content, or else there is
\* an event on its way or new work in the queue.
ReadsAreCurrent ==
    /\ phase \notin {"idle", "config"} /\ Settled(Config) => loaded[Config] = cluster[Config]
    /\ Configured /\ loaded[Config].val = "uwm" /\ Settled(UserWorkload)
          => loaded[UserWorkload] = cluster[UserWorkload]
    /\ \A t \in Tasks, s \in Tracked :
          s \in Reads[t] /\ seen[t][s] # 0 /\ Settled(s) => seen[t][s] = cluster[s].rev

\* A task that is ok has read all it reads and has deployed what it made of it,
\* and a sync without an error ends only when every task is ok.
TasksDeploy ==
    /\ phase \notin {"tasks", "finish"} => task = [t \in Tasks |-> "todo"] /\ seen = NothingSeen
    /\ \A t \in Tasks :
          /\ task[t] = "ok" => \A s \in Reads[t] : seen[t][s] # 0
          /\ task[t] = "ok" => deployed[t] = Target(t)
          /\ task[t] = "failed" => failure # "none"
    /\ phase = "report" => failure # "none"
    /\ phase = "finish" /\ failure = "none" => \A t \in Tasks : task[t] = "ok"

IInv ==
    /\ TypeOK /\ OneSyncAtATime /\ StartMakesWork /\ CachesLag
    /\ ReadsAreCurrent /\ TasksDeploy /\ NoLostUpdate

-----------------------------------------------------------------------------
(* What the status says.                                                   *)

\* Status is never contradictory: the operator is Degraded exactly when it is
\* not Available, across failed status calls and restarts.
AvailableXorDegraded ==
    co.conds["Degraded"].status = "True" <=> co.conds["Available"].status = "False"

\* An object that does not exist has no status.
Unwritten ==
    ~co.exists => co.version = "" /\ \A c \in CondTypes : co.conds[c].status = "absent"

ReportsRollout ==
    \/ co'.version # co.version
    \/ co'.conds["Available"].status = "True" /\ co.conds["Available"].status # "True"
    => /\ co'.version = version
       /\ \A t \in Tasks : task[t] = "ok" /\ deployed[t] = Target(t)

\* SetDone's comment: "We require that all components be rolled out [...] at the
\* new version before reporting this value."  A step that reports a version or
\* turns Available to True follows a sync in which no task is unfinished or
\* failed and whose every task's objects are the ones this sync made.
RolloutBeforeReport == [][ReportsRollout]_vars

\* The configuration can be rolled out.
Acceptable ==
    /\ cluster[Config].val \in {"absent", "plain", "uwm"}
    /\ cluster[Config].val = "uwm" => cluster[UserWorkload].val \notin {"invalid", "null"}
    /\ \A t \in Tasks, s \in Required : s \in Reads[t] => cluster[s].val # "absent"

RolledOut ==
    /\ co.conds["Available"].status = "True" /\ co.version = version
    /\ \A t \in Tasks :
          /\ UpToDate(t)
          /\ \A s \in Reads[t] \cup Loads : deployed[t].from[s] = cluster[s].rev

\* The document that no process survives.
Fatal == cluster[Config].val = "uwm" /\ cluster[UserWorkload].val = "null"

\* Once writes, faults and restarts end, the operator settles: with a
\* configuration that can be rolled out, every source it reads is rolled out,
\* the ones it is never told about included, and the status says so; with any
\* other but one it reports Degraded.  With a null document of the user's that is in
\* use it never settles: process after process ends in its first sync, before it
\* reports anything, for as long as the document is there.
Converges ==
    /\ <>[](~Fatal => IF Acceptable THEN RolledOut ELSE co.conds["Degraded"].status = "True")
    /\ []<>(Fatal => proc = "down")
-----------------------------------------------------------------------------
(* The abstract specification of a rollout: its parts are the tasks, its     *)
(* target is the release version.                                           *)

RolloutPhase ==
    IF phase = "idle" THEN "idle"
    ELSE IF phase # "finish" THEN "busy"
    ELSE IF failure = "none" THEN "ok" ELSE "failed"

VersionsMade == [t \in Tasks |-> deployed[t].version]
AllowedVersions == [v \in Versions |-> {v}]

Abstract ==
    INSTANCE Rollout WITH Parts <- Tasks, Targets <- Versions, Nothing <- "mixed",
        May <- AllowedVersions, phase <- RolloutPhase, target <- version, made <- VersionsMade

\* The worker, its tasks and the process that may end at any point together
\* roll out one version at a time: a sync ends without an error only when every
\* task's objects are of the version it was started for, no task ever deploys
\* another version than the running one, and only a process that is not syncing
\* takes up another version.
ImplementsRollout == Abstract!Spec
=============================================================================
