--------------------------- MODULE OperatorProofs ---------------------------
(***************************************************************************)
(* Theorems about Operator, for any sources, triggers, tasks and versions  *)
(* and without any bound on writes, faults and restarts but that they are  *)
(* numbers.                                                                *)
(***************************************************************************)
EXTENDS Operator, WorkQueueProofs, StatusReporterProofs

-----------------------------------------------------------------------------
(* Type correctness.                                                       *)

\* A status call leaves a ClusterOperator, whether it fails or not.
LEMMA StatusCallType ==
    ASSUME TypeOK, NEW updated \in ClusterOperator, StatusCall(updated)
    PROVE  co' \in ClusterOperator /\ faults' \in Nat
<1>1. newClusterOperator \in ClusterOperator /\ co \in ClusterOperator
  BY FetchedType DEF TypeOK
<1> QED
  BY <1>1 DEF StatusCall, FaultyOutcomes, Fault, NoFault, TypeOK

\* The objects that the code starts with have the type of an object.
LEMMA NotReadType == NotRead \in Object /\ [s \in Sources |-> NotRead] \in [Sources -> Object]
BY DEF NotRead, Object, Values

\* What a task makes has the type of what is deployed.
LEMMA DeployedType ==
    ASSUME TypeOK, NEW t \in Tasks
    PROVE  {Mixed, Target(t)} \subseteq [version : Versions \cup {"mixed"}, from : [Sources -> Nat]]
<1>1. Mixed \in [version : Versions \cup {"mixed"}, from : [Sources -> Nat]]
  BY DEF Mixed
<1>2. \A s \in Sources : (IF s \in Reads[t] THEN seen[t][s] ELSE loaded[s].rev) \in Nat
  BY DEF TypeOK, Object
<1>3. [s \in Sources |-> IF s \in Reads[t] THEN seen[t][s] ELSE loaded[s].rev] \in [Sources -> Nat]
  BY <1>2
<1>4. Target(t) \in [version : Versions \cup {"mixed"}, from : [Sources -> Nat]]
  BY <1>3 DEF Target, TypeOK
<1> QED BY <1>1, <1>4

\* The initial states are typed.
LEMMA InitType == Init => TypeOK
<1> SUFFICES ASSUME Init PROVE TypeOK
  OBVIOUS
<1>1. cluster \in [Sources -> Object]
  <2>1. PICK i \in Installed : cluster = [s \in Sources |-> [rev |-> 1, val |-> i[s]]]
    BY DEF Init
  <2>2. \A s \in Sources : i[s] \in Values
    BY ContentsOfSources
  <2> QED BY <2>1, <2>2 DEF Object
<1>2. wq \in QueueOf({Key})
  BY NewQueueIsQueue DEF Init
<1>3. co \in ClusterOperator
  BY DEF Init, ClusterOperator, NoCondition, Condition, CondStatus, Texts
<1>4. deployed \in [Tasks -> [version : Versions \cup {"mixed"}, from : [Sources -> Nat]]]
  BY DEF Init, Mixed
<1>5. seen \in [Tasks -> [Sources -> Nat]]
  BY DEF Init, NothingSeen
<1> QED
  BY <1>1, <1>2, <1>3, <1>4, <1>5, NotReadType DEF Init, TypeOK

\* Every step of the environment and of the process keeps the types.
LEMMA ProcessType ==
    ASSUME TypeOK, Environment \/ Process
    PROVE  TypeOK'
<1>1. ASSUME NEW s \in Sources, NEW v \in Values, Write(s, v) PROVE TypeOK'
  BY <1>1 DEF TypeOK, Write, Object, informerVars, procVars, queueVars, syncVars, outputVars
<1>2. ASSUME NEW v \in Versions, Start(v) PROVE TypeOK'
  BY <1>2 DEF TypeOK, Start, inputVars, informerVars, queueVars, syncVars, outputVars
<1>3. ASSUME NEW s \in Sources, ListSync(s) PROVE TypeOK'
  BY <1>3, KindsOfSources DEF TypeOK, ListSync, inputVars, procVars, queueVars, syncVars, outputVars
<1>4. ASSUME RunWorker PROVE TypeOK'
  <2>1. wq' \in QueueOf({Key})
    BY <1>4, AddKeepsQueue DEF TypeOK, RunWorker
  <2> QED
    BY <1>4, <2>1 DEF TypeOK, RunWorker, inputVars, informerVars, syncVars, outputVars
<1>5. ASSUME Tick PROVE TypeOK'
  <2>1. wq' \in QueueOf({Key})
    BY <1>5, AddKeepsQueue DEF TypeOK, Tick
  <2> QED
    BY <1>5, <2>1 DEF TypeOK, Tick, inputVars, informerVars, procVars, syncVars, outputVars
<1>6. ASSUME Stop PROVE TypeOK'
  <2>1. wq' \in QueueOf({Key})
    BY <1>6, ShutDownKeepsQueue DEF TypeOK, Stop
  <2> QED
    BY <1>6, <2>1 DEF TypeOK, Stop, inputVars, informerVars, syncVars, outputVars
<1>7. ASSUME End, restarts' \in Nat PROVE TypeOK'
  <2>1. wq' \in QueueOf({Key})
    BY <1>7, NewQueueIsQueue DEF End
  <2>2. seen' \in [Tasks -> [Sources -> Nat]]
    BY <1>7 DEF End, NothingSeen
  <2> QED
    BY <1>7, <2>1, <2>2, NotReadType DEF TypeOK, End, inputVars, outputVars
<1>8. Exit \/ Crash \/ Panic => End /\ restarts' \in Nat
  BY DEF Exit, Crash, Panic, TypeOK
<1> QED
  BY <1>1, <1>2, <1>3, <1>4, <1>5, <1>6, <1>7, <1>8 DEF Environment, Process

\* Every step of the informers and of the delayed queue keeps the types.
LEMMA InformersType ==
    ASSUME TypeOK, Informers \/ DelayExpires
    PROVE  TypeOK'
<1>1. ASSUME NEW s \in Sources, Watch(s) PROVE TypeOK'
  BY <1>1, KindsOfSources
     DEF TypeOK, Watch, Tracked, inputVars, procVars, queueVars, syncVars, outputVars
<1>2. ASSUME NEW s \in Sources, Resync(s) PROVE TypeOK'
  BY <1>2 DEF TypeOK, Resync, inputVars, procVars, queueVars, syncVars, outputVars
<1>3. ASSUME NEW s \in Sources, handleEvent(s) PROVE TypeOK'
  <2>1. wq' \in QueueOf({Key})
    BY <1>3, AddKeepsQueue DEF TypeOK, handleEvent
  <2> QED
    BY <1>3, <2>1 DEF TypeOK, handleEvent, inputVars, procVars, syncVars, outputVars
<1>4. ASSUME DelayExpires PROVE TypeOK'
  <2>1. wq' \in QueueOf({Key})
    BY <1>4, AddKeepsQueue DEF TypeOK, DelayExpires
  <2> QED
    BY <1>4, <2>1 DEF TypeOK, DelayExpires, inputVars, informerVars, procVars, syncVars, outputVars
<1> QED
  BY <1>1, <1>2, <1>3, <1>4 DEF Informers

\* Every step of a task keeps the types.
LEMMA TaskType ==
    ASSUME TypeOK, NEW t \in Tasks, RunTask(t)
    PROVE  TypeOK'
<1> USE DEF unchangedByTasks, unchangedOutside, inputVars, informerVars, procVars, queueVars
<1>0. t \in Causes
  BY CausesOfFailure
<1>1. ASSUME NEW s \in Sources, TaskReads(t, s) PROVE TypeOK'
  <2>1. cluster[s].rev \in Nat
    BY DEF TypeOK, Object
  <2>2. task' \in [Tasks -> {"todo", "applying", "ok", "failed"}] /\ failure' \in Causes \cup {"none"}
    BY <1>0, <1>1 DEF TypeOK, TaskReads, Fails
  <2>3. seen' \in [Tasks -> [Sources -> Nat]]
    <3>1. \/ seen' = seen
          \/ seen' = [seen EXCEPT ![t] = [seen[t] EXCEPT ![s] = cluster[s].rev]]
      BY <1>1 DEF TaskReads, TypeOK
    <3>2. [seen[t] EXCEPT ![s] = cluster[s].rev] \in [Sources -> Nat]
      BY <2>1 DEF TypeOK
    <3> QED BY <3>1, <3>2 DEF TypeOK
  <2>4. deployed' \in [Tasks -> [version : Versions \cup {"mixed"}, from : [Sources -> Nat]]]
    BY <1>1, DeployedType DEF TypeOK, TaskReads
  <2> QED BY <1>1, <2>2, <2>3, <2>4 DEF TypeOK, TaskReads
<1>2. ASSUME TaskStarts(t) PROVE TypeOK'
  BY <1>2, DeployedType DEF TypeOK, TaskStarts
<1>3. ASSUME TaskSucceeds(t) PROVE TypeOK'
  BY <1>3, DeployedType DEF TypeOK, TaskSucceeds
<1>4. ASSUME TaskFails(t) PROVE TypeOK'
  BY <1>0, <1>4 DEF TypeOK, TaskFails, Fails, Fault
<1> QED
  BY <1>1, <1>2, <1>3, <1>4 DEF RunTask

\* Every step of the worker keeps the types, provided that it ends only the
\* work item that it has taken.
LEMMA WorkerType ==
    ASSUME TypeOK, Worker, phase # "idle" => Key \in wq.processing
    PROVE  TypeOK'
<1> USE DEF unchangedOutside, inputVars, informerVars, procVars
<1>1. ASSUME TakeWorkItem PROVE TypeOK'
  <2>1. wq' \in QueueOf({Key})
    BY <1>1, GetKeepsQueue DEF TypeOK, TakeWorkItem
  <2> QED BY <1>1, <2>1 DEF TypeOK, TakeWorkItem, outputVars
<1>2. ASSUME loadConfig PROVE TypeOK'
  <2>1. failure' \in Causes \cup {"none"}
    BY <1>2, CausesOfFailure DEF loadConfig
  <2>2. phase' \in {"report", "userworkload", "loads"}
    BY <1>2 DEF loadConfig
  <2>3. loaded' \in [Sources -> Object]
    BY <1>2, KindsOfSources DEF loadConfig, TypeOK
  <2> QED BY <1>2, <2>1, <2>2, <2>3 DEF TypeOK, loadConfig, outputVars, queueVars
<1>3. ASSUME loadUserWorkloadConfig PROVE TypeOK'
  <2>1. failure' \in Causes \cup {"none"} /\ phase' \in {"report", "loads"} /\ faults' \in Nat
    BY <1>3, CausesOfFailure DEF loadUserWorkloadConfig, TypeOK, Fault, NoFault
  <2>2. loaded' \in [Sources -> Object]
    BY <1>3, KindsOfSources DEF loadUserWorkloadConfig, TypeOK
  <2> QED BY <1>3, <2>1, <2>2 DEF TypeOK, loadUserWorkloadConfig, outputVars, queueVars
<1>4. ASSUME LoadRest PROVE TypeOK'
  <2>1. PICK lost \in SUBSET Loads :
           /\ IF lost = {} THEN NoFault ELSE Fault
           /\ loaded' = [s \in Sources |-> IF s \in Loads \ lost THEN cluster[s] ELSE loaded[s]]
    BY <1>4 DEF LoadRest
  <2>2. faults' \in Nat
    BY <2>1 DEF TypeOK, Fault, NoFault
  <2>3. loaded' \in [Sources -> Object]
    BY <2>1 DEF TypeOK
  <2> QED BY <1>4, <2>2, <2>3 DEF TypeOK, LoadRest, outputVars, queueVars
<1>5. ASSUME BeginRollout PROVE TypeOK'
  <2>1. co' \in ClusterOperator /\ faults' \in Nat
    BY <1>5, StatusCallType, SetInProgressEffect DEF BeginRollout, TypeOK
  <2> QED BY <1>5, <2>1 DEF TypeOK, BeginRollout, queueVars
<1>6. ASSUME NEW t \in Tasks, RunTask(t) PROVE TypeOK'
  BY <1>6, TaskType
<1>7. ASSUME Report PROVE TypeOK'
  <2>1. (IF failure = "none" THEN SetDone(co, version) ELSE SetFailed(co, version, failure))
           \in ClusterOperator
    BY SetDoneEffect, SetFailedEffect DEF TypeOK
  <2>2. co' \in ClusterOperator /\ faults' \in Nat
    BY <1>7, <2>1, StatusCallType DEF Report
  <2> QED BY <1>7, <2>2 DEF TypeOK, Report, queueVars
<1>8. ASSUME Finish PROVE TypeOK'
  <2>1. wq' \in QueueOf({Key})
    BY <1>8, DoneKeepsQueue DEF TypeOK, Finish
  <2>2. seen' \in [Tasks -> [Sources -> Nat]]
    BY <1>8 DEF Finish, NothingSeen
  <2>3. loaded' \in [Sources -> Object]
    BY <1>8, NotReadType DEF Finish
  <2> QED BY <1>8, <2>1, <2>2, <2>3 DEF TypeOK, Finish, outputVars
<1> QED
  BY <1>1, <1>2, <1>3, <1>4, <1>5, <1>6, <1>7, <1>8 DEF Worker

-----------------------------------------------------------------------------
(* One sync at a time.                                                     *)

\* What Add does to the fields of a queue that is not shutting down: the item
\* is dirty afterwards, whatever its state was (queue.go, Add).
LEMMA AddFields ==
    ASSUME NEW q \in QueueOf({Key})
    PROVE  /\ Add(q, Key).processing = q.processing
           /\ Add(q, Key).shuttingDown = q.shuttingDown
           /\ q.dirty \subseteq Add(q, Key).dirty
           /\ ~q.shuttingDown => Key \in Add(q, Key).dirty
<1>1. CASE q.shuttingDown \/ Key \in q.dirty
  BY <1>1 DEF Add
<1>2. CASE ~(q.shuttingDown \/ Key \in q.dirty)
  BY <1>2 DEF Add, QueueOf
<1> QED BY <1>1, <1>2

\* What Get does to the fields of the queue (queue.go, Get).
LEMMA GetFields ==
    ASSUME NEW q \in QueueOf({Key}), q.queue # <<>>
    PROVE  /\ Head(q.queue) = Key
           /\ Get(q).processing = q.processing \cup {Key}
           /\ Get(q).shuttingDown = q.shuttingDown
<1>1. Head(q.queue) \in {Key}
  BY DEF QueueOf
<1> QED BY <1>1 DEF Get, QueueOf

\* What Done does to the fields of the queue (queue.go, Done).
LEMMA DoneFields ==
    ASSUME NEW q \in QueueOf({Key})
    PROVE  /\ Done(q, Key).processing = q.processing \ {Key}
           /\ Done(q, Key).dirty = q.dirty
           /\ Done(q, Key).shuttingDown = q.shuttingDown
BY DEF Done, QueueOf

\* Every step keeps the types and the agreement of worker and queue.
LEMMA OneSyncStep ==
    ASSUME TypeOK, OneSyncAtATime, [Next]_vars
    PROVE  TypeOK' /\ OneSyncAtATime'
<1> USE DEF OneSyncAtATime
<1>0. wq \in QueueOf({Key})
  BY DEF TypeOK
<1>1. CASE UNCHANGED vars
  BY <1>1 DEF TypeOK, vars, inputVars, informerVars, procVars, queueVars, syncVars, outputVars
<1>2. ASSUME wq' = Add(wq, Key), UNCHANGED phase PROVE OneSyncAtATime'
  BY <1>0, <1>2, AddKeepsQueue, AddFields
<1>3. ASSUME UNCHANGED wq, phase' = "idle" <=> phase = "idle" PROVE OneSyncAtATime'
  BY <1>3
<1>4. CASE Environment \/ Process
  <2>1. TypeOK'
    BY <1>4, ProcessType
  <2>2. ASSUME NEW s \in Sources, NEW v \in Values, Write(s, v) PROVE OneSyncAtATime'
    BY <1>3, <2>2 DEF Write, queueVars, syncVars
  <2>3. ASSUME NEW v \in Versions, Start(v) PROVE OneSyncAtATime'
    BY <1>3, <2>3 DEF Start, queueVars, syncVars
  <2>4. ASSUME NEW s \in Sources, ListSync(s) PROVE OneSyncAtATime'
    BY <1>3, <2>4 DEF ListSync, queueVars, syncVars
  <2>5. ASSUME RunWorker PROVE OneSyncAtATime'
    BY <1>2, <1>3, <2>5 DEF RunWorker, syncVars
  <2>6. ASSUME Tick PROVE OneSyncAtATime'
    BY <1>2, <2>6 DEF Tick, syncVars
  <2>7. ASSUME Stop PROVE OneSyncAtATime'
    <3>1. ShutDown(wq).processing = wq.processing
      BY <1>0 DEF ShutDown, QueueOf
    <3> QED BY <1>0, <2>7, <3>1, ShutDownKeepsQueue DEF Stop, syncVars
  <2>8. ASSUME End PROVE OneSyncAtATime'
    <3>1. NewQueue.processing = {}
      BY DEF NewQueue
    <3> QED BY <2>8, <3>1, NewQueueIsQueue DEF End
  <2> QED
    BY <1>4, <2>1, <2>2, <2>3, <2>4, <2>5, <2>6, <2>7, <2>8
       DEF Environment, Process, Exit, Crash, Panic
<1>5. CASE Informers \/ DelayExpires
  <2>1. TypeOK'
    BY <1>5, InformersType
  <2>2. ASSUME NEW s \in Sources, Watch(s) \/ Resync(s) PROVE OneSyncAtATime'
    BY <1>3, <2>2 DEF Watch, Resync, queueVars, syncVars
  <2>3. ASSUME NEW s \in Sources, handleEvent(s) PROVE OneSyncAtATime'
    BY <1>2, <2>3 DEF handleEvent, syncVars
  <2>4. ASSUME DelayExpires PROVE OneSyncAtATime'
    BY <1>2, <2>4 DEF DelayExpires, syncVars
  <2> QED BY <1>5, <2>1, <2>2, <2>3, <2>4 DEF Informers
<1>6. CASE Worker
  <2>1. TypeOK'
    BY <1>6, WorkerType
  <2>2. ASSUME TakeWorkItem PROVE OneSyncAtATime'
    BY <1>0, <2>2, GetKeepsQueue, GetFields DEF TakeWorkItem
  <2>3. ASSUME loadConfig PROVE OneSyncAtATime'
    BY <1>3, <2>3 DEF loadConfig, queueVars
  <2>4. ASSUME loadUserWorkloadConfig PROVE OneSyncAtATime'
    BY <1>3, <2>4 DEF loadUserWorkloadConfig, queueVars
  <2>5. ASSUME LoadRest \/ BeginRollout \/ Report PROVE OneSyncAtATime'
    BY <1>3, <2>5 DEF LoadRest, BeginRollout, Report, queueVars
  <2>6. ASSUME NEW t \in Tasks, RunTask(t) PROVE OneSyncAtATime'
    BY <1>3, <2>6
       DEF RunTask, TaskReads, TaskStarts, TaskSucceeds, TaskFails, unchangedByTasks, queueVars
  <2>7. ASSUME Finish PROVE OneSyncAtATime'
    BY <1>0, <2>7, DoneKeepsQueue, DoneFields DEF Finish
  <2> QED BY <1>6, <2>1, <2>2, <2>3, <2>4, <2>5, <2>6, <2>7 DEF Worker
<1> QED BY <1>1, <1>4, <1>5, <1>6 DEF Next

\* The operator starts without a sync.
LEMMA OneSyncInit == Init => OneSyncAtATime
<1> SUFFICES ASSUME Init PROVE OneSyncAtATime
  OBVIOUS
<1>1. NewQueue.processing = {}
  BY DEF NewQueue
<1> QED BY <1>1, NewQueueIsQueue DEF Init, OneSyncAtATime

\* The state has its types in every reachable state.
THEOREM TypeCorrect == Spec => []TypeOK
<1>1. Init => TypeOK /\ OneSyncAtATime
  BY InitType, OneSyncInit
<1>2. TypeOK /\ OneSyncAtATime /\ [Next]_vars => TypeOK' /\ OneSyncAtATime'
  BY OneSyncStep
<1> QED BY <1>1, <1>2, PTL DEF Spec

\* The queue never hands out the work item while a sync is under way, and the
\* worker never ends one that it has not taken (processNextWorkItem).
THEOREM OneSync == Spec => []OneSyncAtATime
<1>1. Init => TypeOK /\ OneSyncAtATime
  BY InitType, OneSyncInit
<1>2. TypeOK /\ OneSyncAtATime /\ [Next]_vars => TypeOK' /\ OneSyncAtATime'
  BY OneSyncStep
<1> QED BY <1>1, <1>2, PTL DEF Spec

-----------------------------------------------------------------------------
(* No trigger is lost.                                                     *)

\* The steps that leave the sync alone.
Outside ==
    \/ Environment
    \/ \E v \in Versions : Start(v)
    \/ \E s \in Sources : ListSync(s)
    \/ RunWorker \/ Tick \/ Stop \/ Informers \/ DelayExpires

\* These steps change nothing of a sync nor of what it deploys.
LEMMA OutsideFrame ==
    ASSUME Outside
    PROVE  UNCHANGED <<phase, loaded, task, seen, failure, deployed, co>>
BY DEF Outside, Environment, Write, Start, ListSync, RunWorker, Tick, Stop, Informers, Watch, Resync,
       handleEvent, DelayExpires, syncVars, outputVars

\* A next step is a step outside the sync, the end of the process or a step of
\* the worker.
LEMMA NextCases ==
    ASSUME Next
    PROVE  Outside \/ End \/ Worker
BY DEF Next, Process, Outside, Exit, Crash, Panic

\* An outside step in which a running operator keeps running either leaves a
\* source and its events alone or makes the source unsettled: this is what
\* Add's dirty mark and the handlers are for.
LEMMA SettledBefore ==
    ASSUME IInv, Outside, proc = "running", NEW s \in Tracked, Settled(s)'
    PROVE  Settled(s) /\ cluster'[s] = cluster[s] /\ version' = version /\ delayed' = delayed
<1> USE DEF Settled, Fresh
<1>0. /\ wq \in QueueOf({Key}) /\ ~wq.shuttingDown /\ s \in Sources
      /\ cluster \in [Sources -> Object] /\ store \in [Sources -> Object]
  BY KindsOfSources DEF IInv, TypeOK, StartMakesWork, Tracked
<1>1. wq' # Add(wq, Key)
  BY <1>0, AddFields
<1>2. ASSUME NEW r \in Sources, NEW v \in Values, Write(r, v)
      PROVE  Settled(s) /\ cluster'[s] = cluster[s] /\ version' = version /\ delayed' = delayed
  <2>1. r # s
    <3> SUFFICES ASSUME r = s PROVE FALSE
      OBVIOUS
    <3>1. cluster'[s] = [rev |-> cluster[s].rev + 1, val |-> v] /\ store'[s] = store[s]
      BY <1>0, <1>2 DEF Write, informerVars
    <3>2. store[s].rev <= cluster[s].rev /\ cluster[s].rev \in Nat /\ store[s].rev \in Nat
      BY <1>0 DEF IInv, CachesLag, Object
    <3> QED BY <3>1, <3>2
  <2> QED BY <1>0, <1>2, <2>1 DEF Write, informerVars, procVars, queueVars
<1>3. ASSUME NEW r \in Sources, Watch(r)
      PROVE  Settled(s) /\ cluster'[s] = cluster[s] /\ version' = version /\ delayed' = delayed
  <2>1. r # s
    BY <1>3 DEF Watch, Tracked
  <2> QED BY <1>0, <1>3, <2>1 DEF Watch, inputVars, procVars, queueVars
<1>4. ASSUME NEW r \in Sources, Resync(r)
      PROVE  Settled(s) /\ cluster'[s] = cluster[s] /\ version' = version /\ delayed' = delayed
  BY <1>4 DEF Resync, inputVars, procVars, queueVars
<1> QED
  BY <1>1, <1>2, <1>3, <1>4 DEF Outside, Environment, Start, ListSync, RunWorker, Tick, Stop,
     Informers, handleEvent, DelayExpires

\* Caches never get ahead of the API server.
LEMMA CachesLagStep ==
    ASSUME IInv, [Next]_vars
    PROVE  CachesLag'
<1> USE DEF IInv, CachesLag
<1>0. cluster \in [Sources -> Object] /\ store \in [Sources -> Object]
  BY DEF TypeOK
<1>1. ASSUME UNCHANGED <<cluster, store>> PROVE CachesLag'
  BY <1>1
<1>2. ASSUME NEW s \in Sources, NEW v \in Values, Write(s, v) PROVE CachesLag'
  BY <1>0, <1>2 DEF Write, informerVars, Object
<1>3. ASSUME NEW s \in Sources, ListSync(s) \/ Watch(s) PROVE CachesLag'
  <2>1. store' = [store EXCEPT ![s] = cluster[s]] /\ cluster' = cluster
    BY <1>3 DEF ListSync, Watch, inputVars
  <2>2. \A r \in Sources : cluster[r].rev \in Nat
    BY <1>0 DEF Object
  <2> QED BY <1>0, <2>1, <2>2
<1>4. ASSUME End PROVE CachesLag'
  BY <1>0, <1>4 DEF End, inputVars, NotRead, Object
<1>5. ASSUME Worker PROVE CachesLag'
  BY <1>1, <1>5 DEF Worker, TakeWorkItem, loadConfig, loadUserWorkloadConfig, LoadRest, BeginRollout,
     RunTask, TaskReads, TaskStarts, TaskSucceeds, TaskFails, Report, Finish, unchangedByTasks,
     unchangedOutside, inputVars, informerVars
<1>6. ASSUME Outside PROVE CachesLag'
  BY <1>1, <1>2, <1>3, <1>6 DEF Outside, Environment, Start, RunWorker, Tick, Stop, Informers, Resync,
     handleEvent, DelayExpires, inputVars, informerVars
<1> QED
  BY <1>1, <1>4, <1>5, <1>6, NextCases DEF vars, inputVars, informerVars

\* A process that starts has work, and only a stopping one refuses it.
LEMMA StartStep ==
    ASSUME IInv, [Next]_vars
    PROVE  StartMakesWork'
<1> USE DEF IInv, StartMakesWork
<1>0. wq \in QueueOf({Key})
  BY DEF TypeOK
<1>1. CASE UNCHANGED vars
  BY <1>1 DEF vars, informerVars, procVars, queueVars, syncVars
<1>2. CASE Outside
  <2>1. UNCHANGED phase
    BY <1>2, OutsideFrame
  <2>2. ASSUME NEW s \in Sources, NEW v \in Values, Write(s, v) PROVE StartMakesWork'
    BY <2>1, <2>2 DEF Write, informerVars, procVars, queueVars
  <2>3. ASSUME NEW v \in Versions, Start(v) PROVE StartMakesWork'
    BY <2>1, <2>3 DEF Start, informerVars, queueVars
  <2>4. ASSUME NEW s \in Sources, ListSync(s) PROVE StartMakesWork'
    <3>1. Config \in Sources /\ Config \in Tracked /\ store \in [Sources -> Object]
      BY KindsOfSources DEF Tracked, TypeOK
    <3>2. proc' = "starting" /\ phase = "idle" /\ UNCHANGED wq /\ ~wq.shuttingDown
      BY <2>4 DEF ListSync, procVars, queueVars
    <3>3. CASE s = Config
      BY <2>1, <2>4, <3>1, <3>2, <3>3 DEF ListSync
    <3>4. CASE s # Config
      BY <2>1, <2>4, <3>1, <3>2, <3>4 DEF ListSync
    <3> QED BY <3>3, <3>4
  <2>5. ASSUME RunWorker \/ Tick \/ DelayExpires PROVE StartMakesWork'
    <3>1. wq' = wq \/ wq' = Add(wq, Key)
      BY <2>5 DEF RunWorker, Tick, DelayExpires
    <3>2. wq'.shuttingDown = wq.shuttingDown
      BY <1>0, <3>1, AddFields
    <3>3. proc' = "running" /\ proc \in {"starting", "running"}
      BY <2>5 DEF RunWorker, Tick, DelayExpires, procVars
    <3> QED BY <3>2, <3>3
  <2>6. ASSUME Stop PROVE StartMakesWork'
    BY <2>1, <2>6 DEF Stop
  <2>7. ASSUME NEW s \in Sources, Watch(s) PROVE StartMakesWork'
    <3>1. Config \in Tracked /\ store \in [Sources -> Object]
      BY KindsOfSources DEF Tracked, TypeOK
    <3>2. proc' = proc /\ wq' = wq /\ synced' = synced
      BY <2>7 DEF Watch, procVars, queueVars
    <3>3. CASE s = Config
      <4>1. Config \in notify'
        BY <2>7, <3>1, <3>3 DEF Watch, Tracked
      <4> QED BY <2>1, <3>2, <4>1
    <3>4. CASE s # Config
      <4>1. store'[Config] = store[Config] /\ notify \subseteq notify'
        BY <2>7, <3>1, <3>4 DEF Watch
      <4> QED BY <2>1, <3>2, <4>1
    <3> QED BY <3>3, <3>4
  <2>8. ASSUME NEW s \in Sources, Resync(s) PROVE StartMakesWork'
    BY <2>1, <2>8 DEF Resync, procVars, queueVars
  <2>9. ASSUME NEW s \in Sources, handleEvent(s) PROVE StartMakesWork'
    <3>1. /\ wq'.shuttingDown = wq.shuttingDown
          /\ ~wq.shuttingDown => Key \in wq'.dirty
      BY <1>0, <2>9, AddFields DEF handleEvent
    <3> QED BY <2>1, <2>9, <3>1 DEF handleEvent, procVars
  <2> QED
    BY <1>2, <2>2, <2>3, <2>4, <2>5, <2>6, <2>7, <2>8, <2>9 DEF Outside, Environment, Informers
<1>3. CASE End
  <2>1. ~NewQueue.shuttingDown
    BY DEF NewQueue
  <2> QED BY <1>3, <2>1 DEF End
<1>4. CASE Worker
  <2>1. UNCHANGED <<store, synced, notify, proc>>
    BY <1>4 DEF Worker, TakeWorkItem, loadConfig, loadUserWorkloadConfig, LoadRest, BeginRollout,
       RunTask, TaskReads, TaskStarts, TaskSucceeds, TaskFails, Report, Finish, unchangedByTasks,
       unchangedOutside, informerVars, procVars
  <2>2. proc \in {"running", "stopping"}
    BY <1>4 DEF TypeOK, Worker, TakeWorkItem, loadConfig, loadUserWorkloadConfig, LoadRest, BeginRollout,
       RunTask, TaskReads, TaskStarts, TaskSucceeds, TaskFails, Report, Finish
  <2>3. wq'.shuttingDown = wq.shuttingDown
    BY <1>0, <1>4, GetFields, DoneFields
       DEF Worker, TakeWorkItem, loadConfig, loadUserWorkloadConfig, LoadRest, BeginRollout,
       RunTask, TaskReads, TaskStarts, TaskSucceeds, TaskFails, Report, Finish, unchangedByTasks,
       queueVars
  <2> QED BY <2>1, <2>2, <2>3
<1> QED BY <1>1, <1>2, <1>3, <1>4, NextCases

\* The steps of the worker change neither the sources nor the events on their
\* way, and but for its first and its last step they leave the queue alone.
LEMMA WorkerFrame ==
    ASSUME Worker
    PROVE  /\ UNCHANGED <<cluster, store, notify, proc, version>>
           /\ TakeWorkItem \/ Finish \/ UNCHANGED <<wq, delayed>>
BY DEF Worker, TakeWorkItem, loadConfig, loadUserWorkloadConfig, LoadRest, BeginRollout,
       RunTask, TaskReads, TaskStarts, TaskSucceeds, TaskFails, Report, Finish, unchangedByTasks,
       unchangedOutside, inputVars, informerVars, procVars, queueVars

\* A step of the worker that leaves the queue alone settles no source.
LEMMA WorkerSettles ==
    ASSUME Worker, UNCHANGED wq, NEW s, Settled(s)'
    PROVE  Settled(s) /\ cluster'[s] = cluster[s]
BY WorkerFrame DEF Settled, Fresh

\* What a sync has read stays current or has an event on its way.
LEMMA ReadsStep ==
    ASSUME IInv, [Next]_vars
    PROVE  ReadsAreCurrent'
<1> USE DEF IInv
<1>0. /\ Config \in Tracked /\ UserWorkload \in Tracked /\ Config # UserWorkload
      /\ {Config, UserWorkload} \cap Loads = {}
      /\ Tracked \subseteq Sources
      /\ loaded \in [Sources -> Object] /\ seen \in [Tasks -> [Sources -> Nat]]
  BY KindsOfSources DEF Tracked, TypeOK
<1>1. CASE UNCHANGED vars
  BY <1>1 DEF ReadsAreCurrent, Settled, Fresh, Configured, vars, inputVars, informerVars, procVars,
     queueVars, syncVars
<1>2. CASE Outside
  <2>1. UNCHANGED <<phase, loaded, seen, failure>>
    BY <1>2, OutsideFrame
  <2>2. CASE phase = "idle"
    <3>1. \A t \in Tasks, s \in Sources : seen[t][s] = 0
      BY <2>2 DEF TasksDeploy, NothingSeen
    <3> QED BY <1>0, <2>1, <2>2, <3>1 DEF ReadsAreCurrent, Configured
  <2>3. CASE phase # "idle"
    <3>1. ASSUME NEW s \in Tracked, Settled(s)' PROVE Settled(s) /\ cluster'[s] = cluster[s]
      <4>1. proc' = "running" /\ proc \notin {"down", "starting"}
        BY <2>3, <3>1 DEF Settled, StartMakesWork
      <4>2. proc = "running"
        BY <1>2, <4>1 DEF Outside, Environment, Write, Start, ListSync, RunWorker, Tick, Stop, Informers,
           Watch, Resync, handleEvent, DelayExpires, procVars
      <4> QED BY <1>2, <3>1, <4>2, SettledBefore
    <3> QED BY <1>0, <2>1, <3>1 DEF ReadsAreCurrent, Configured
  <2> QED BY <2>2, <2>3
<1>3. CASE End
  BY <1>0, <1>3 DEF End, ReadsAreCurrent, Configured, NothingSeen
<1>4. CASE TakeWorkItem
  <2>1. \A t \in Tasks, s \in Sources : seen'[t][s] = 0
    BY <1>4 DEF TakeWorkItem, TasksDeploy, NothingSeen
  <2> QED BY <1>0, <1>4, <2>1 DEF TakeWorkItem, ReadsAreCurrent, Configured
<1>5. CASE Finish
  BY <1>0, <1>5 DEF Finish, ReadsAreCurrent, Configured, NothingSeen
<1>6. CASE loadConfig
  <2>1. \A t \in Tasks, s \in Sources : seen'[t][s] = 0
    BY <1>6 DEF loadConfig, TasksDeploy, NothingSeen
  <2>2. loaded'[Config] = store[Config] /\ UNCHANGED <<cluster, store>>
    BY <1>0, <1>6 DEF loadConfig, unchangedOutside, inputVars, informerVars
  <2>3. Settled(Config)' => loaded'[Config] = cluster'[Config]
    BY <2>2 DEF Settled, Fresh
  <2>4. Configured' => loaded'[Config].val # "uwm"
    BY <1>6, <2>2 DEF loadConfig, Configured
  <2> QED BY <1>0, <2>1, <2>3, <2>4 DEF ReadsAreCurrent
<1>7. CASE loadUserWorkloadConfig
  <2>0. UNCHANGED <<wq, seen>> /\ Worker
    BY <1>7 DEF loadUserWorkloadConfig, queueVars, Worker
  <2>1. \A t \in Tasks, s \in Sources : seen'[t][s] = 0
    BY <1>7 DEF loadUserWorkloadConfig, TasksDeploy, NothingSeen
  <2>2. loaded'[Config] = loaded[Config]
    BY <1>0, <1>7 DEF loadUserWorkloadConfig
  <2>3. Settled(Config)' => loaded'[Config] = cluster'[Config]
    BY <1>7, <2>0, <2>2, WorkerSettles DEF ReadsAreCurrent, loadUserWorkloadConfig
  <2>4. Configured' => loaded'[UserWorkload] = cluster[UserWorkload]
    BY <1>0, <1>7 DEF loadUserWorkloadConfig, Configured
  <2>5. UNCHANGED cluster
    BY <2>0, WorkerFrame
  <2> QED BY <1>0, <2>1, <2>3, <2>4, <2>5 DEF ReadsAreCurrent
<1>8. CASE LoadRest
  <2>0. UNCHANGED <<wq, seen, failure>> /\ Worker /\ phase = "loads"
    BY <1>8 DEF LoadRest, queueVars, Worker
  <2>1. loaded'[Config] = loaded[Config] /\ loaded'[UserWorkload] = loaded[UserWorkload]
    BY <1>0, <1>8 DEF LoadRest
  <2>2. \A s \in Tracked : Settled(s)' => Settled(s) /\ cluster'[s] = cluster[s]
    BY <2>0, WorkerSettles
  <2> QED BY <1>0, <2>0, <2>1, <2>2 DEF ReadsAreCurrent, Configured
<1>9. CASE BeginRollout
  <2>0. UNCHANGED <<wq, seen, failure, loaded>> /\ Worker /\ phase = "progress"
    BY <1>9 DEF BeginRollout, queueVars, Worker
  <2>1. \A s \in Tracked : Settled(s)' => Settled(s) /\ cluster'[s] = cluster[s]
    BY <2>0, WorkerSettles
  <2> QED BY <1>0, <2>0, <2>1 DEF ReadsAreCurrent, Configured
<1>10. CASE \E t \in Tasks : RunTask(t)
  <2>0. UNCHANGED <<wq, loaded, phase>> /\ Worker /\ phase = "tasks"
    BY <1>10 DEF Worker, RunTask, TaskReads, TaskStarts, TaskSucceeds, TaskFails, unchangedByTasks,
       queueVars
  <2>1. \A s \in Tracked : Settled(s)' => Settled(s) /\ cluster'[s] = cluster[s]
    BY <2>0, WorkerSettles
  <2>2. ASSUME NEW t \in Tasks, NEW s \in Tracked, s \in Reads[t], seen'[t][s] # 0, Settled(s)'
        PROVE  seen'[t][s] = cluster'[s].rev
    <3>1. seen'[t][s] = seen[t][s] \/ seen'[t][s] = cluster[s].rev
      <4>1. PICK u \in Tasks : RunTask(u)
        BY <1>10
      <4>2. CASE UNCHANGED seen
        BY <4>2
      <4>3. CASE \E r \in Sources : seen' = [seen EXCEPT ![u][r] = cluster[r].rev]
        BY <1>0, <4>3
      <4> QED BY <4>1, <4>2, <4>3 DEF RunTask, TaskReads, TaskStarts, TaskSucceeds, TaskFails
    <3> QED BY <2>1, <2>2, <3>1 DEF ReadsAreCurrent
  <2> QED BY <1>0, <2>0, <2>1, <2>2 DEF ReadsAreCurrent, Configured
<1>11. CASE Report
  <2>0. UNCHANGED <<wq, seen, failure, loaded>> /\ Worker /\ phase \in {"report", "tasks"}
    BY <1>11 DEF Report, queueVars, Worker
  <2>1. \A s \in Tracked : Settled(s)' => Settled(s) /\ cluster'[s] = cluster[s]
    BY <2>0, WorkerSettles
  <2>2. Configured' => Configured
    BY <1>11, <2>0 DEF Report, Configured, TasksDeploy
  <2> QED BY <1>0, <2>0, <2>1, <2>2 DEF ReadsAreCurrent
<1> QED
  BY <1>1, <1>2, <1>3, <1>4, <1>5, <1>6, <1>7, <1>8, <1>9, <1>10, <1>11, NextCases DEF Worker

\* A sync without an error deploys all that it made (RunAll waits for every
\* task, and keeps the first error).
LEMMA TasksStep ==
    ASSUME IInv, [Next]_vars
    PROVE  TasksDeploy'
<1> USE DEF IInv
<1>0. /\ task \in [Tasks -> {"todo", "applying", "ok", "failed"}]
      /\ seen \in [Tasks -> [Sources -> Nat]]
      /\ deployed \in [Tasks -> [version : Versions \cup {"mixed"}, from : [Sources -> Nat]]]
  BY DEF TypeOK
<1>a. ASSUME task' = [t \in Tasks |-> "todo"], seen' = NothingSeen,
             phase' \notin {"report", "finish"} \/ (phase' = "report" /\ failure' # "none")
      PROVE  TasksDeploy'
  BY <1>a DEF TasksDeploy
<1>1. CASE UNCHANGED vars
  BY <1>1 DEF TasksDeploy, Target, vars, procVars, syncVars, outputVars
<1>2. CASE Outside
  <2>1. UNCHANGED <<phase, loaded, task, seen, failure, deployed>>
    BY <1>2, OutsideFrame
  <2>2. CASE UNCHANGED version
    BY <2>1, <2>2 DEF TasksDeploy, Target
  <2>3. CASE \E v \in Versions : Start(v)
    <3>1. phase = "idle"
      BY <2>3 DEF Start, StartMakesWork
    <3> QED BY <1>a, <2>1, <3>1 DEF TasksDeploy
  <2> QED
    BY <1>2, <2>2, <2>3 DEF Outside, Environment, Write, ListSync, RunWorker, Tick, Stop, Informers,
       Watch, Resync, handleEvent, DelayExpires, procVars
<1>3. CASE End \/ Finish
  BY <1>3, <1>a DEF End, Finish
<1>4. CASE TakeWorkItem
  BY <1>4, <1>a DEF TakeWorkItem, TasksDeploy
<1>5. CASE loadConfig
  BY <1>5, <1>a DEF loadConfig, TasksDeploy, Invalid
<1>6. CASE loadUserWorkloadConfig
  BY <1>6, <1>a DEF loadUserWorkloadConfig, TasksDeploy, Invalid
<1>7. CASE LoadRest \/ BeginRollout
  BY <1>7, <1>a DEF LoadRest, BeginRollout, TasksDeploy
<1>8. ASSUME NEW u \in Tasks, RunTask(u) PROVE TasksDeploy'
  <2>0. phase = "tasks" /\ phase' = "tasks" /\ UNCHANGED <<loaded, version>>
    BY <1>8 DEF RunTask, TaskReads, TaskStarts, TaskSucceeds, TaskFails, unchangedByTasks,
       unchangedOutside, procVars
  <2>1. u # "none"
    BY CausesOfFailure
  <2>3. failure' = failure \/ (failure' = u /\ failure = "none")
    BY <1>8 DEF RunTask, TaskReads, TaskStarts, TaskSucceeds, TaskFails, Fails
  <2>4. \A t \in Tasks \ {u} :
           task'[t] = task[t] /\ seen'[t] = seen[t] /\ deployed'[t] = deployed[t]
    BY <1>0, <1>8
       DEF RunTask, TaskReads, TaskStarts, TaskSucceeds, TaskFails, Fails
  <2>5. \A t \in Tasks \ {u} : Target(t)' = Target(t)
    BY <2>0, <2>4 DEF Target
  <2>6. task'[u] = "ok" => \A s \in Reads[u] : seen'[u][s] # 0
    BY <1>0, <1>8
       DEF RunTask, TaskReads, TaskStarts, TaskSucceeds, TaskFails, Fails, TasksDeploy
  <2>7. task'[u] = "ok" => deployed'[u] = Target(u)'
    <3>1. CASE TaskSucceeds(u)
      <4>1. UNCHANGED <<seen, loaded, version>> /\ deployed'[u] = Target(u)
        BY <1>0, <2>0, <3>1 DEF TaskSucceeds
      <4> QED BY <4>1 DEF Target
    <3>2. CASE ~TaskSucceeds(u)
      <4>1. task'[u] # "ok"
        BY <1>0, <1>8, <3>2 DEF RunTask, TaskReads, TaskStarts, TaskFails, Fails
      <4> QED BY <4>1
    <3> QED BY <3>1, <3>2
  <2>8. task'[u] = "failed" => failure' # "none"
    BY <1>0, <1>8, <2>1
       DEF RunTask, TaskReads, TaskStarts, TaskSucceeds, TaskFails, Fails
  <2>9. ASSUME NEW t \in Tasks
        PROVE  /\ task'[t] = "ok" => \A s \in Reads[t] : seen'[t][s] # 0
               /\ task'[t] = "ok" => deployed'[t] = Target(t)'
               /\ task'[t] = "failed" => failure' # "none"
    <3>1. CASE t = u
      BY <2>6, <2>7, <2>8, <3>1
    <3>2. CASE t # u
      <4>1. task'[t] = "failed" => failure' # "none"
        BY <2>1, <2>3, <2>4, <3>2 DEF TasksDeploy
      <4>2. task'[t] = "ok" => \A s \in Reads[t] : seen'[t][s] # 0
        BY <2>4, <3>2 DEF TasksDeploy
      <4>3. task'[t] = "ok" => deployed'[t] = Target(t)'
        BY <2>4, <2>5, <3>2 DEF TasksDeploy
      <4> QED BY <4>1, <4>2, <4>3
    <3> QED BY <3>1, <3>2
  <2> QED BY <2>0, <2>9 DEF TasksDeploy
<1>9. CASE Report
  <2>1. UNCHANGED <<loaded, task, seen, failure, deployed, version>> /\ phase' = "finish"
    BY <1>9 DEF Report, unchangedOutside, procVars
  <2>2. failure = "none" => \A t \in Tasks : task[t] = "ok"
    BY <1>0, <1>9 DEF Report, RunAllReturns, TasksDeploy
  <2> QED BY <2>1, <2>2 DEF TasksDeploy, Target
<1> QED
  BY <1>1, <1>2, <1>3, <1>4, <1>5, <1>6, <1>7, <1>8, <1>9, NextCases DEF Worker

\* The operator comes to rest only with everything up to date.
LEMMA NoLostStep ==
    ASSUME IInv, [Next]_vars
    PROVE  NoLostUpdate'
<1> USE DEF IInv
<1>0. /\ Config \in Tracked /\ UserWorkload \in Tracked
      /\ Tracked \subseteq Sources /\ Reads \in [Tasks -> SUBSET Sources]
      /\ \A t \in Tasks : Config \notin Reads[t] /\ UserWorkload \notin Reads[t]
  BY KindsOfSources, ReadsOfTasks DEF Tracked
<1>1. CASE UNCHANGED vars
  BY <1>1 DEF NoLostUpdate, Quiescent, Fresh, UpToDate, Inputs, vars, inputVars, informerVars, procVars,
     queueVars, syncVars, outputVars
<1>2. CASE Outside
  <2> SUFFICES ASSUME Quiescent' PROVE \A t \in Tasks : UpToDate(t)'
    BY DEF NoLostUpdate
  <2>1. UNCHANGED <<phase, deployed>> /\ phase = "idle" /\ proc' = "running"
    BY <1>2, OutsideFrame DEF Quiescent
  <2>2. \A s \in Tracked : Settled(s)'
    BY DEF Quiescent, Settled
  <2>3. ~RunWorker
    <3> SUFFICES ASSUME RunWorker PROVE FALSE
      OBVIOUS
    <3>1. wq \in QueueOf({Key}) /\ ~wq.shuttingDown /\ Config \in synced
      BY KindsOfSources DEF RunWorker, StartMakesWork, TypeOK
    <3>2. CASE store[Config].val = "absent"
      <4>1. Key \in wq'.dirty
        BY <3>1, <3>2, AddFields DEF RunWorker
      <4> QED BY <4>1 DEF Quiescent
    <3>3. CASE store[Config].val # "absent"
      <4>1. Config \in notify' \/ Key \in wq'.dirty
        BY <3>1, <3>3 DEF RunWorker, StartMakesWork, informerVars
      <4> QED BY <1>0, <4>1 DEF Quiescent, Fresh
    <3> QED BY <3>2, <3>3
  <2>4. proc = "running"
    BY <1>2, <2>1, <2>3 DEF Outside, Environment, Write, Start, ListSync, RunWorker, Tick, Stop,
       Informers, Watch, Resync, handleEvent, DelayExpires, procVars
  <2>5. \A s \in Tracked :
           Settled(s) /\ cluster'[s] = cluster[s] /\ version' = version /\ delayed' = delayed
    BY <1>2, <2>2, <2>4, SettledBefore
  <2>6. Quiescent
    BY <1>0, <2>1, <2>4, <2>5 DEF Quiescent, Settled
  <2>7. ASSUME NEW t \in Tasks PROVE UpToDate(t)'
    <3>1. Inputs(t) \subseteq Tracked /\ Inputs(t)' = Inputs(t)
      BY <1>0, <2>5 DEF Inputs
    <3> QED BY <1>0, <2>1, <2>5, <2>6, <3>1 DEF NoLostUpdate, UpToDate
  <2> QED BY <2>7
<1>3. CASE End
  BY <1>3 DEF End, NoLostUpdate, Quiescent
<1>4. CASE Finish
  <2> SUFFICES ASSUME Quiescent', NEW t \in Tasks PROVE UpToDate(t)'
    BY DEF NoLostUpdate
  <2>0. Worker
    BY <1>4 DEF Worker
  <2>1. UNCHANGED <<cluster, store, notify, proc, version, deployed>>
    BY <1>4, <2>0, WorkerFrame DEF Finish, outputVars
  <2>2. wq \in QueueOf({Key}) /\ wq'.dirty = wq.dirty /\ ~wq.shuttingDown
    BY <1>4, <2>1, DoneFields DEF Finish, TypeOK, Quiescent, StartMakesWork
  <2>3. \A s \in Tracked : Settled(s)
    BY <2>1, <2>2 DEF Quiescent, Settled, Fresh
  <2>4. failure = "none"
    BY <1>4, <2>2 DEF Finish, Quiescent
  <2>5. deployed[t] = Target(t) /\ task[t] = "ok"
    BY <1>4, <2>4 DEF Finish, TasksDeploy
  <2>6. loaded[Config] = cluster[Config]
    BY <1>0, <1>4, <2>3 DEF Finish, ReadsAreCurrent
  <2>7. cluster[Config].val = "uwm" => loaded[UserWorkload] = cluster[UserWorkload]
    BY <1>0, <1>4, <2>3, <2>4, <2>6 DEF Finish, ReadsAreCurrent, Configured
  <2>8. \A s \in Reads[t] \cap Tracked : seen[t][s] = cluster[s].rev
    BY <1>0, <2>3, <2>5 DEF ReadsAreCurrent, TasksDeploy
  <2>9. deployed[t].version = version
    BY <2>5 DEF Target
  <2>10. \A s \in Sources :
            deployed[t].from[s] = IF s \in Reads[t] THEN seen[t][s] ELSE loaded[s].rev
    BY <2>5 DEF Target
  <2>11. \A s \in Inputs(t) : deployed[t].from[s] = cluster[s].rev
    BY <1>0, <2>6, <2>7, <2>8, <2>10 DEF Inputs
  <2>12. Inputs(t)' = Inputs(t)
    BY <2>1 DEF Inputs
  <2> QED BY <2>1, <2>9, <2>11, <2>12 DEF UpToDate
<1>5. CASE Worker /\ ~Finish
  <2>1. phase' # "idle"
    BY <1>5 DEF Worker, TakeWorkItem, loadConfig, loadUserWorkloadConfig, LoadRest, BeginRollout,
       RunTask, TaskReads, TaskStarts, TaskSucceeds, TaskFails, Report, unchangedByTasks
  <2> QED BY <2>1 DEF NoLostUpdate, Quiescent
<1> QED BY <1>1, <1>2, <1>3, <1>4, <1>5, NextCases

\* The strengthening holds initially.
LEMMA IInvInit == Init => IInv
<1> SUFFICES ASSUME Init PROVE IInv
  OBVIOUS
<1>1. TypeOK /\ OneSyncAtATime
  BY InitType, OneSyncInit
<1>2. StartMakesWork /\ NoLostUpdate
  BY DEF Init, StartMakesWork, NoLostUpdate, Quiescent, NewQueue
<1>3. CachesLag
  <2>1. \A s \in Sources : cluster[s].rev = 1
    <3>1. PICK i \in Installed : cluster = [s \in Sources |-> [rev |-> 1, val |-> i[s]]]
      BY DEF Init
    <3> QED BY <3>1
  <2>2. \A s \in Sources : store[s].rev = 0
    BY DEF Init, NotRead
  <2> QED BY <2>1, <2>2 DEF CachesLag
<1>4. ReadsAreCurrent
  BY KindsOfSources DEF Init, ReadsAreCurrent, Configured, NothingSeen, Tracked
<1>5. TasksDeploy
  BY DEF Init, TasksDeploy
<1> QED BY <1>1, <1>2, <1>3, <1>4, <1>5 DEF IInv

\* The strengthening is inductive.
LEMMA IInvStep == IInv /\ [Next]_vars => IInv'
<1> SUFFICES ASSUME IInv, [Next]_vars PROVE IInv'
  OBVIOUS
<1>1. TypeOK' /\ OneSyncAtATime'
  BY OneSyncStep DEF IInv
<1> QED
  BY <1>1, StartStep, CachesLagStep, ReadsStep, TasksStep, NoLostStep DEF IInv

\* No trigger is lost: whenever the operator is at rest, what is deployed was
\* made from the present content of every source whose events trigger it
\* (handleEvent, processNextWorkItem, sync, Run).
THEOREM NoLostUpdates == Spec => []NoLostUpdate
<1>1. IInv => NoLostUpdate
  BY DEF IInv
<1> QED BY <1>1, IInvInit, IInvStep, PTL DEF Spec

-----------------------------------------------------------------------------
(* The status tells the truth.                                             *)

\* Only status calls write the ClusterOperator.
LEMMA StatusFrame ==
    ASSUME [Next]_vars
    PROVE  BeginRollout \/ Report \/ co' = co
<1>1. CASE UNCHANGED vars
  BY <1>1 DEF vars, outputVars
<1>2. CASE Outside
  BY <1>2, OutsideFrame
<1>3. CASE End
  BY <1>3 DEF End, outputVars
<1>4. CASE Worker
  BY <1>4 DEF Worker, TakeWorkItem, loadConfig, loadUserWorkloadConfig, LoadRest, RunTask, TaskReads,
     TaskStarts, TaskSucceeds, TaskFails, Finish, unchangedByTasks, outputVars
<1> QED BY <1>1, <1>2, <1>3, <1>4, NextCases

\* The status and the version that a call finds are those of the object, or
\* there are none.
LEMMA FetchedStatus ==
    ASSUME NEW o \in ClusterOperator, o.exists \/ o.version = "",
           ~o.exists => \A c \in CondTypes : o.conds[c].status = "absent"
    PROVE  /\ Fetched(o).version = o.version
           /\ \A c \in CondTypes :
                 \/ newConditions(Fetched(o))[c].status = o.conds[c].status
                 \/ /\ newConditions(Fetched(o))[c].status = "Unknown"
                    /\ o.conds[c].status = "absent"
<1>1. CASE o.exists
  BY <1>1 DEF Fetched, newConditions, Unknown, ClusterOperator
<1>2. CASE ~o.exists
  BY <1>2 DEF Fetched, newClusterOperator, newConditions, Unknown, NoCondition, ClusterOperator
<1> QED BY <1>1, <1>2

\* What a status call may leave: its update, the object as it was, or a new
\* object without a status.
LEMMA StatusOutcomes ==
    ASSUME NEW updated, StatusCall(updated)
    PROVE  co' = updated \/ co' = co \/ (~co.exists /\ co' = newClusterOperator)
BY DEF StatusCall, FaultyOutcomes

\* SetInProgress and SetFailed report no version and no availability that was
\* not reported before.
LEMMA StatusStep ==
    ASSUME IInv, AvailableXorDegraded, Unwritten, [Next]_vars
    PROVE  AvailableXorDegraded' /\ Unwritten' /\ ReportsRollout
<1> USE DEF IInv
<1>0. /\ co \in ClusterOperator /\ version \in Versions /\ co.exists \in BOOLEAN
      /\ {"Available", "Degraded"} \subseteq CondTypes
  BY DEF TypeOK, ClusterOperator, CondTypes
<1>1. CASE co' = co
  BY <1>1 DEF AvailableXorDegraded, Unwritten, ReportsRollout
<1>2. CASE ~co.exists /\ co' = newClusterOperator
  <2>1. /\ co'.exists /\ co'.version = "" /\ \A c \in CondTypes : co'.conds[c].status = "absent"
    BY <1>2 DEF newClusterOperator, NoCondition
  <2>2. co.version = ""
    BY <1>2 DEF Unwritten
  <2> QED BY <1>0, <2>1, <2>2 DEF AvailableXorDegraded, Unwritten, ReportsRollout
<1>3. /\ Fetched(co).version = co.version
      /\ \A c \in CondTypes :
            \/ newConditions(Fetched(co))[c].status = co.conds[c].status
            \/ /\ newConditions(Fetched(co))[c].status = "Unknown"
               /\ co.conds[c].status = "absent"
  <2>1. co.exists \/ co.version = ""
    BY <1>0 DEF Unwritten
  <2>2. ~co.exists => \A c \in CondTypes : co.conds[c].status = "absent"
    BY DEF Unwritten
  <2> QED BY <1>0, <2>1, <2>2, FetchedStatus
<1>4. CASE co' = SetInProgress(co, version)
  <2>1. /\ co'.exists /\ co'.version = co.version
        /\ \A c \in {"Available", "Degraded"} :
              \/ co'.conds[c].status = co.conds[c].status
              \/ co'.conds[c].status = "Unknown" /\ co.conds[c].status = "absent"
    BY <1>0, <1>3, <1>4, SetInProgressEffect
  <2> QED BY <2>1 DEF AvailableXorDegraded, Unwritten, ReportsRollout
<1>5. CASE failure # "none" /\ co' = SetFailed(co, version, failure)
  <2>1. failure \in Causes
    BY <1>5 DEF TypeOK
  <2>2. /\ co'.exists /\ co'.version = co.version
        /\ co'.conds["Available"].status = "False" /\ co'.conds["Degraded"].status = "True"
    BY <1>0, <1>3, <1>5, <2>1, SetFailedEffect
  <2> QED BY <2>2 DEF AvailableXorDegraded, Unwritten, ReportsRollout
<1>6. CASE Report /\ failure = "none" /\ co' = SetDone(co, version)
  <2>1. /\ co'.exists /\ co'.version = version
        /\ co'.conds["Available"].status = "True" /\ co'.conds["Degraded"].status = "False"
    BY <1>0, <1>6, SetDoneEffect
  <2>2. \A t \in Tasks : task[t] = "ok" /\ deployed[t] = Target(t)
    BY <1>6 DEF Report, RunAllReturns, TasksDeploy
  <2> QED BY <2>1, <2>2 DEF AvailableXorDegraded, Unwritten, ReportsRollout
<1>7. CASE BeginRollout
  BY <1>1, <1>2, <1>4, <1>7, StatusOutcomes DEF BeginRollout
<1>8. CASE Report
  <2>1. CASE failure = "none"
    <3>1. StatusCall(SetDone(co, version))
      BY <1>8, <2>1 DEF Report
    <3> QED BY <1>1, <1>2, <1>6, <1>8, <2>1, <3>1, StatusOutcomes
  <2>2. CASE failure # "none"
    <3>1. StatusCall(SetFailed(co, version, failure))
      BY <1>8, <2>2 DEF Report
    <3> QED BY <1>1, <1>2, <1>5, <2>2, <3>1, StatusOutcomes
  <2> QED BY <2>1, <2>2
<1> QED BY <1>1, <1>7, <1>8, StatusFrame

\* There is no status initially.
LEMMA StatusInit == Init => AvailableXorDegraded /\ Unwritten
<1> SUFFICES ASSUME Init PROVE AvailableXorDegraded /\ Unwritten
  OBVIOUS
<1>1. co.version = "" /\ \A c \in CondTypes : co.conds[c] = NoCondition
  BY DEF Init
<1>2. {"Available", "Degraded"} \subseteq CondTypes /\ NoCondition.status = "absent"
  BY DEF CondTypes, NoCondition
<1>3. \A c \in CondTypes : co.conds[c].status = "absent"
  BY <1>1, <1>2
<1>4. co.conds["Available"].status = "absent" /\ co.conds["Degraded"].status = "absent"
  BY <1>2, <1>3
<1> QED BY <1>1, <1>3, <1>4 DEF AvailableXorDegraded, Unwritten

\* The operator is Degraded exactly when it is not Available (SetDone,
\* SetInProgress, SetFailed and the order in which sync calls them).
THEOREM StatusConsistent == Spec => []AvailableXorDegraded
<1>1. IInv /\ AvailableXorDegraded /\ Unwritten /\ [Next]_vars
         => AvailableXorDegraded' /\ Unwritten'
  BY StatusStep
<1> QED BY <1>1, StatusInit, IInvInit, IInvStep, PTL DEF Spec

\* A version or Available is reported only by a sync whose every task is ok and
\* has deployed what it made (RunAll, sync, SetDone).
THEOREM RolloutReported == Spec => RolloutBeforeReport
<1>1. IInv /\ AvailableXorDegraded /\ Unwritten /\ [Next]_vars
         => AvailableXorDegraded' /\ Unwritten' /\ [ReportsRollout]_vars
  BY StatusStep
<1> QED BY <1>1, StatusInit, IInvInit, IInvStep, PTL DEF Spec, RolloutBeforeReport
-----------------------------------------------------------------------------
(* The refinement.                                                         *)

\* The versions that tasks deploy are the running one or a mix.
LEMMA VersionsType ==
    ASSUME TypeOK
    PROVE  /\ VersionsMade \in [Tasks -> Versions \cup {"mixed"}]
           /\ version \in Versions
           /\ AllowedVersions[version] = {version}
BY DEF TypeOK, VersionsMade, AllowedVersions

LEMMA AbstractOutside ==
    ASSUME IInv, Outside
    PROVE  Abstract!Next \/ UNCHANGED Abstract!rolloutVars
<1>1. RolloutPhase' = RolloutPhase /\ VersionsMade' = VersionsMade
  BY OutsideFrame DEF RolloutPhase, VersionsMade
<1>2. ASSUME NEW v \in Versions, Start(v) PROVE Abstract!Rest(v)
  BY <1>1, <1>2 DEF Start, IInv, StartMakesWork, RolloutPhase, Abstract!Rest
<1>3. (\E v \in Versions : Start(v)) \/ UNCHANGED version
  BY DEF Outside, Environment, Write, ListSync, RunWorker, Tick, Stop, Informers, Watch, Resync,
     handleEvent, DelayExpires, procVars
<1> QED BY <1>1, <1>2, <1>3 DEF Abstract!Next, Abstract!rolloutVars

LEMMA AbstractTasks ==
    ASSUME IInv, NEW t \in Tasks, RunTask(t)
    PROVE  Abstract!Change \/ UNCHANGED Abstract!rolloutVars
<1>0. /\ phase = "tasks" /\ phase' = "tasks" /\ version' = version
      /\ deployed \in [Tasks -> [version : Versions \cup {"mixed"}, from : [Sources -> Nat]]]
      /\ TypeOK
  BY DEF RunTask, TaskReads, TaskStarts, TaskSucceeds, TaskFails, unchangedByTasks, unchangedOutside,
     procVars, IInv, TypeOK
<1>1. RolloutPhase = "busy" /\ RolloutPhase' = "busy"
  BY <1>0 DEF RolloutPhase
<1>2. ASSUME NEW d, deployed' = [deployed EXCEPT ![t] = d],
             d = deployed[t] \/ d.version \in {version, "mixed"}
      PROVE  Abstract!Change
  <2>1. VersionsMade' = [VersionsMade EXCEPT ![t] = d.version]
    BY <1>0, <1>2 DEF VersionsMade
  <2>2. VersionsMade[t] = deployed[t].version
    BY DEF VersionsMade
  <2>3. \A u \in Tasks : VersionsMade'[u] \in {VersionsMade[u], "mixed", version}
    BY <1>0, <1>2, <2>1, <2>2, VersionsType
  <2>4. VersionsMade' \in [Tasks -> Versions \cup {"mixed"}]
    BY <1>0, <1>2, <2>1, <2>2, VersionsType
  <2> QED BY <1>0, <1>1, <2>3, <2>4, VersionsType DEF Abstract!Change
<1>3. Mixed.version = "mixed" /\ Target(t).version = version
  BY DEF Mixed, Target
<1>4. ASSUME TaskStarts(t) PROVE Abstract!Change
  <2>1. \/ deployed' = [deployed EXCEPT ![t] = deployed[t]]
        \/ deployed' = [deployed EXCEPT ![t] = Mixed]
    BY <1>4 DEF TaskStarts
  <2> QED BY <1>2, <1>3, <2>1
<1>5. ASSUME NEW s \in Sources, TaskReads(t, s) PROVE Abstract!Change \/ UNCHANGED deployed
  <2>1. \/ deployed' = [deployed EXCEPT ![t] = deployed[t]]
        \/ deployed' = [deployed EXCEPT ![t] = Mixed]
        \/ UNCHANGED deployed
    BY <1>5 DEF TaskReads
  <2> QED BY <1>2, <1>3, <2>1
<1>6. ASSUME TaskSucceeds(t) PROVE Abstract!Change
  BY <1>2, <1>3, <1>6 DEF TaskSucceeds
<1>7. TaskFails(t) => UNCHANGED deployed
  BY DEF TaskFails
<1>8. UNCHANGED deployed => UNCHANGED Abstract!rolloutVars
  BY <1>0, <1>1 DEF Abstract!rolloutVars, VersionsMade
<1> QED BY <1>4, <1>5, <1>6, <1>7, <1>8 DEF RunTask

LEMMA AbstractWorker ==
    ASSUME IInv, Worker
    PROVE  Abstract!Next \/ UNCHANGED Abstract!rolloutVars
<1>0. TypeOK /\ version \in Versions /\ version' = version
  BY DEF IInv, TypeOK, Worker, TakeWorkItem, loadConfig, loadUserWorkloadConfig, LoadRest,
     BeginRollout, RunTask, TaskReads, TaskStarts, TaskSucceeds, TaskFails, Report, Finish,
     unchangedByTasks, unchangedOutside, procVars
<1>1. ASSUME TakeWorkItem PROVE Abstract!Begin(version)
  BY <1>0, <1>1 DEF TakeWorkItem, outputVars, RolloutPhase, VersionsMade, Abstract!Begin
<1>2. ASSUME loadConfig \/ loadUserWorkloadConfig \/ LoadRest \/ BeginRollout
      PROVE  UNCHANGED Abstract!rolloutVars
  <2>1. UNCHANGED deployed /\ phase \notin {"idle", "finish"} /\ phase' \notin {"idle", "finish"}
    <3>1. CASE loadConfig
      BY <3>1 DEF loadConfig, outputVars
    <3>2. CASE loadUserWorkloadConfig
      BY <3>2 DEF loadUserWorkloadConfig, outputVars
    <3>3. CASE LoadRest \/ BeginRollout
      BY <3>3 DEF LoadRest, BeginRollout, outputVars
    <3> QED BY <1>2, <3>1, <3>2, <3>3
  <2> QED BY <1>0, <2>1 DEF Abstract!rolloutVars, RolloutPhase, VersionsMade
<1>3. ASSUME Report PROVE Abstract!Succeed \/ Abstract!Fail
  <2>1. /\ phase \in {"report", "tasks"} /\ phase' = "finish"
        /\ failure' = failure /\ deployed' = deployed /\ VersionsMade' = VersionsMade
    BY <1>3 DEF Report, VersionsMade
  <2>2. RolloutPhase = "busy"
    BY <2>1 DEF RolloutPhase
  <2>3. CASE failure = "none"
    <3>1. RunAllReturns
      BY <1>3, <2>3 DEF Report, IInv, TasksDeploy
    <3>2. \A t \in Tasks : deployed[t].version = version
      <4>1. \A t \in Tasks : deployed[t] = Target(t)
        BY <2>3, <3>1 DEF RunAllReturns, IInv, TasksDeploy
      <4>2. \A t \in Tasks : Target(t).version = version
        BY DEF Target
      <4> QED BY <4>1, <4>2
    <3>3. RolloutPhase' = "ok"
      BY <2>1, <2>3 DEF RolloutPhase
    <3> QED BY <1>0, <2>1, <2>2, <3>2, <3>3 DEF Abstract!Succeed, VersionsMade
  <2>4. CASE failure # "none"
    <3>1. RolloutPhase' = "failed"
      BY <2>1, <2>4 DEF RolloutPhase
    <3> QED BY <1>0, <2>1, <2>2, <3>1, VersionsType DEF Abstract!Fail
  <2> QED BY <2>3, <2>4
<1>4. ASSUME Finish PROVE Abstract!Rest(version)
  BY <1>0, <1>4 DEF Finish, outputVars, RolloutPhase, VersionsMade, Abstract!Rest
<1> QED BY <1>0, <1>1, <1>2, <1>3, <1>4, AbstractTasks DEF Worker, Abstract!Next

\* The control loop implements the abstract rollout: whatever the informers,
\* the queue and the administrator do, and wherever the process ends, a sync
\* succeeds only with every task at the version it was started for, and no task
\* deploys any other.
THEOREM OperatorImplementsRollout == Spec => ImplementsRollout
<1>1. ASSUME Init PROVE Abstract!Init
  BY <1>1 DEF Init, Abstract!Init, RolloutPhase, VersionsMade, Mixed
<1>2. ASSUME IInv, [Next]_vars PROVE Abstract!Next \/ UNCHANGED Abstract!rolloutVars
  <2>1. CASE UNCHANGED vars
    BY <2>1 DEF vars, syncVars, procVars, outputVars, Abstract!rolloutVars, RolloutPhase, VersionsMade
  <2>2. CASE End
    <3>1. Abstract!Rest(version)
      BY <2>2 DEF End, outputVars, RolloutPhase, VersionsMade, Abstract!Rest
    <3>2. version \in Versions
      BY <1>2 DEF IInv, TypeOK
    <3> QED BY <3>1, <3>2 DEF Abstract!Next
  <2> QED BY <1>2, <2>1, <2>2, NextCases, AbstractOutside, AbstractWorker
<1> QED BY IInvInit, IInvStep, <1>1, <1>2, PTL DEF Spec, ImplementsRollout, Abstract!Spec
=============================================================================
