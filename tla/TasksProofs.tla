---------------------------- MODULE TasksProofs -----------------------------
(***************************************************************************)
(* Proofs about Tasks, for any tasks, configurations, objects at first and  *)
(* bounds: what a sync that succeeded guarantees, whatever tasks did at the *)
(* same time, failed before or found changed, and that no task waits in     *)
(* vain.                                                                   *)
(*                                                                         *)
(* The inductive invariant says of each task of the sync, running or done,  *)
(* what is true of the cluster because of the steps it has passed.  It      *)
(* holds as long as the others leave these things alone: a step of another  *)
(* task, or of the cluster, disturbs only what the order of the steps       *)
(* (TaskOrder) allows it to.                                               *)
(***************************************************************************)
EXTENDS TaskOrder, TLAPS

-----------------------------------------------------------------------------
(* What is known of a task t that has read v and passed the steps P.       *)

Of(v, o) == (CHOOSE p \in v : p[1] = o)[2]
CopyIn(v, h) == <<h, Of(v, SourceOf(h))>>
Mount(v, w) ==
    [objects |-> PodsOf(w, config.etcd).objects,
     copies |-> {CopyIn(v, h) : h \in PodsOf(w, config.etcd).copies}]

\* What t has read: each object once; the password and, when no sync is due, what
\* triggers a sync are as it has read them.
Knows(t, v, P) ==
    /\ v \subseteq (Objects \cup {grpc}) \X Nat
    /\ \A p, q \in v : p[1] = q[1] => p = q
    /\ Names(v) = ReadBy(P)
    /\ t # Replacing /\ changes = 0 => \A p \in v : p[1] = grpc => p[2] = 1
    /\ deletions = 0 => \A p \in v : p[1] = datasources => p \in api
    /\ t # Replacing /\ deletions = 0 /\ ~pending => \A p \in v : p[1] \in Triggers => p \in api

\* What step s has brought about.
Did(v, s) ==
    /\ s.op \in {"remove", "unhash"} => Objs(s) \cap Names(api) = {}
    /\ s.op = "uncopy" /\ changes = 0 => s.objs[1] \notin Names(api)
    /\ s.op = "prune" => \A p \in api : p[1] = s.objs[1] => p = CopyIn(v, s.objs[1])
    /\ deletions = 0 =>
          /\ Makes(s) \subseteq Names(api)
          /\ s.op = "copy" => CopyIn(v, s.objs[1]) \in api
          /\ s.op = "deploy" => mounted[s.objs[1]] = Mount(v, s.objs[1])
          /\ s.op = "rollout" => PodsOf(s.objs[1], config.etcd).objects \subseteq Names(api)

TaskInv(t, v, P) == Knows(t, v, P) /\ \A s \in P : Did(v, s)

TaskPart(t) ==
    /\ outcome[t] = "running" => TaskInv(t, view[t], Before(t, config, pc[t]))
    /\ outcome[t] = "ok" => \E v : TaskInv(t, v, Steps(t, config))

-----------------------------------------------------------------------------
(* The inductive invariant.                                                *)

\* The tasks of a sync.
Control ==
    /\ config \in Configs /\ outcome \in [Tasks -> {"running", "ok", "failed"}]
    /\ pc \in [Tasks -> Nat] /\ DOMAIN view = Tasks
    /\ \A t \in Tasks :
          IF outcome[t] = "running" THEN pc[t] \in DOMAIN Program(t, config)
                                    ELSE pc[t] = 0 /\ view[t] = {}
    /\ pending \in BOOLEAN
    /\ changes \in Nat /\ deletions \in Nat /\ faults \in Nat

\* The objects a of an API server: only hashed copies have several contents, only
\* routes and bundles are yet to be completed, without a change by others there is
\* one generation of certificates, and without a deletion by others the files of
\* passwords are of the password that is there.
StoreOK(a) ==
    /\ a \subseteq Objects \X Nat
    /\ \A p, q \in a : p[1] = q[1] /\ p[1] \notin Copies => p = q
    /\ \A p \in a : p[2] = 0 => p[1] \in Incomplete \cup Copies \cup Htpasswd
    /\ changes = 0 => \A p \in a : p[1] \in GrpcCopies \cup {grpc} => p[2] = 1
    /\ deletions = 0 => \A p \in a : p[1] \in Htpasswd => <<datasources, p[2]>> \in a

Server ==
    /\ StoreOK(api)
    /\ DOMAIN mounted = Workloads
    /\ \A w \in Workloads : w \notin Names(api) => mounted[w] = NoMount
    /\ due \in {"no", "age", "forced"} /\ dueSeen \in {"no", "age", "forced"}
    /\ changes = 0 => due = "no" /\ dueSeen = "no"

Inv == Control /\ Server /\ \A t \in Tasks : TaskPart(t)

-----------------------------------------------------------------------------
(* Programs.                                                               *)

LEMMA ProgramsAre ==
    ASSUME NEW t \in Tasks, NEW c \in Configs
    PROVE  /\ t \in AllTasks /\ c \in Configurations
           /\ Programs[t][c] = Program(t, c)
           /\ Program(t, c) \in Seq(Steps(t, c)) /\ Program(t, c) # <<>>
           /\ DOMAIN Program(t, c) = 1..Len(Program(t, c)) /\ Len(Program(t, c)) \in Nat \ {0}
           /\ \A i \in DOMAIN Program(t, c) : Program(t, c)[i] \in Steps(t, c)
<1>1. t \in AllTasks /\ c \in Configurations
  BY KnownTasks, KindsOfConfiguration DEF Configurations
<1>2. Programs[t][c] = Program(t, c)
  BY DEF Programs
<1>3. Program(t, c) \in Seq(Steps(t, c)) /\ Program(t, c) # <<>>
  BY <1>1, StepsAreProper
<1> QED  BY <1>1, <1>2, <1>3

LEMMA PassedNext ==
    ASSUME NEW t \in Tasks, NEW c \in Configs, NEW i \in DOMAIN Program(t, c)
    PROVE  /\ Before(t, c, 1) = {}
           /\ Before(t, c, i) \subseteq Steps(t, c)
           /\ Before(t, c, i + 1) = Before(t, c, i) \cup {Program(t, c)[i]}
           /\ i = Len(Program(t, c)) => Steps(t, c) = Before(t, c, i) \cup {Program(t, c)[i]}
           /\ i # Len(Program(t, c)) => i + 1 \in DOMAIN Program(t, c)
<1> DEFINE p == Program(t, c)
<1>1. DOMAIN p = 1..Len(p) /\ Len(p) \in Nat
  BY ProgramsAre
<1>2. Steps(t, c) = {p[j] : j \in 1..Len(p)}
  BY <1>1 DEF Steps, Elements
<1>3. \A j : Before(t, c, j) = {p[k] : k \in 1..(j - 1)}
  BY DEF Before
<1> HIDE DEF p
<1>4. 1..(1 - 1) = {} /\ 1..(i - 1) \subseteq 1..Len(p)
      /\ 1..(i + 1 - 1) = 1..(i - 1) \cup {i}
  BY <1>1 DEF p
<1>5. Before(t, c, 1) = {} /\ Before(t, c, i) \subseteq Steps(t, c)
  BY <1>2, <1>3, <1>4
<1>6. Before(t, c, i + 1) = Before(t, c, i) \cup {p[i]}
  BY <1>3, <1>4
<1>7. ASSUME i = Len(p) PROVE Steps(t, c) = Before(t, c, i) \cup {p[i]}
  <2>1. 1..Len(p) = 1..(i - 1) \cup {i}  BY <1>7, <1>1, <1>4
  <2> QED  BY <2>1, <1>2, <1>3
<1>8. i # Len(p) => i + 1 \in DOMAIN p
  BY <1>1 DEF p
<1> QED  BY <1>5, <1>6, <1>7, <1>8 DEF p

\* What a step of a task of the sync is about.
LEMMA StepIs ==
    ASSUME NEW t \in Tasks, NEW c \in Configs, NEW s \in Steps(t, c)
    PROVE  /\ WellFormed(s) /\ Proper(t, c, s)
           /\ s \in StepsOf(c)
           /\ Makes(s) \subseteq Objects
           /\ Removes(s) \subseteq Removable(c)
           /\ s.op = "deploy" => s.objs[1] \in Workloads
           /\ s.op \in {"copy", "prune", "uncopy", "unhash", "deploy"} => s.objs[1] \in Owned(t)
           /\ s.objs[1] \in Objs(s)
<1>1. t \in AllTasks /\ c \in Configurations /\ Programs[t][c] = Program(t, c)
  BY ProgramsAre
<1>2. WellFormed(s) /\ Proper(t, c, s)
  BY <1>1, StepsAreProper
<1>3. s \in StepsOf(c)
  BY <1>1 DEF StepsOf, Steps, Elements
<1>4. s.objs[1] \in Objs(s) /\ 1 \in DOMAIN s.objs
  <2>1. 1 \in DOMAIN s.objs  BY <1>2 DEF WellFormed
  <2> QED  BY <2>1 DEF Objs, Elements
<1>5. ASSUME s.op \in AllWrites PROVE Objs(s) \subseteq ObjectsOf(AllWrites, c)
  BY <1>3, <1>5 DEF ObjectsOf, Objs, Elements
<1>6. Makes(s) \subseteq Objects
  BY <1>5 DEF Makes, Objects
<1>7. Removes(s) \subseteq Removable(c)
  <2>1. Removes(s) \subseteq RemovedBy(Steps(t, c))  BY DEF RemovedBy
  <2> QED  BY <2>1, <1>1 DEF Removable
<1>8. s.op = "deploy" => s.objs[1] \in Workloads
  <2> SUFFICES ASSUME s.op = "deploy" PROVE s.objs[1] \in Workloads
    OBVIOUS
  <2>1. s.objs[1] \in ObjectsOf({"deploy"}, c)
    BY <1>3, <1>4 DEF ObjectsOf
  <2> QED  BY <2>1 DEF Workloads
<1>9. s.op \in {"copy", "prune", "uncopy", "unhash", "deploy"} => s.objs[1] \in Owned(t)
  <2> SUFFICES ASSUME s.op \in {"copy", "prune", "uncopy", "unhash", "deploy"}
               PROVE  s.objs[1] \in Owned(t)
    OBVIOUS
  <2>1. s.objs[1] \in OwnedBy(Steps(t, c))
    BY <1>4 DEF OwnedBy
  <2> QED  BY <2>1, <1>1 DEF Owned
<1> QED  BY <1>2, <1>3, <1>4, <1>6, <1>7, <1>8, <1>9

\* Only copies are named like copies.
LEMMA CopiesApart ==
    ASSUME NEW t \in Tasks, NEW c \in Configs, NEW s \in Steps(t, c), s.op # "copy"
    PROVE  Makes(s) \cap Copies = {}
<1>1. WellFormed(s) /\ Proper(t, c, s)
  BY StepIs
<1>2. grpc \in Triggers  BY DEF Triggers
<1>3. s.op \notin {"apply", "ensure"} => Makes(s) \subseteq {s.objs[1]}
  BY <1>1 DEF WellFormed, Makes, AllWrites
<1>4. CASE s.op \in {"apply", "ensure"}
  BY <1>4, <1>1 DEF Proper, Makes
<1>5. CASE s.op = "deploy"
  BY <1>5, <1>1, <1>3 DEF Proper
<1>6. CASE s.op \in {"generate", "derive", "rotate"}
  BY <1>6, <1>1, <1>2, <1>3, OthersAreApart DEF Proper
<1>7. CASE s.op \notin AllWrites
  BY <1>7 DEF Makes
<1> QED  BY <1>4, <1>5, <1>6, <1>7 DEF AllWrites

\* What a step that was passed is made from has been read.
LEMMA ReadEarlier ==
    ASSUME NEW t \in Tasks, NEW c \in Configs, NEW i \in DOMAIN Program(t, c),
           NEW s \in Before(t, c, i)
    PROVE  /\ s.op \in {"copy", "prune"} => SourceOf(s.objs[1]) \in ReadBy(Before(t, c, i))
           /\ s.op = "deploy" =>
                 \A h \in PodsOf(s.objs[1], c.etcd).copies : SourceOf(h) \in ReadBy(Before(t, c, i))
<1>1. PICK j \in 1..(i - 1) : s = Program(t, c)[j]
  BY DEF Before
<1>2. j \in DOMAIN Program(t, c) /\ 1..(j - 1) \subseteq 1..(i - 1)
  BY ProgramsAre
<1>3. Before(t, c, j) \subseteq Before(t, c, i)
  BY <1>2 DEF Before
<1>4. Prepared(c, s, Before(t, c, j))
  BY <1>1, <1>2, ProgramsAre, StepsAreInOrder
<1>5. ReadBy(Before(t, c, j)) \subseteq ReadBy(Before(t, c, i))
  BY <1>3 DEF ReadBy
<1> QED  BY <1>4, <1>5 DEF Prepared

\* What the pods that are rolled out mount is neither removed nor a copy.
LEMMA PodsStay ==
    ASSUME NEW t \in Tasks, NEW c \in Configs, NEW s \in Steps(t, c), s.op = "rollout"
    PROVE  PodsOf(s.objs[1], c.etcd).objects \cap (Removable(c) \cup Copies) = {}
<1>1. PICK i \in DOMAIN Program(t, c) : s = Program(t, c)[i]
  BY DEF Steps, Elements
<1>2. Prepared(c, s, Before(t, c, i))
  BY <1>1, ProgramsAre, StepsAreInOrder
<1>3. PICK r \in Before(t, c, i) : r.op = "deploy" /\ r.objs[1] = s.objs[1]
  BY <1>2 DEF Prepared, Has
<1>4. r \in Steps(t, c)
  BY PassedNext
<1>5. Rounded(c, Steps(t, c))
  BY ProgramsAre, StepsAreRounded
<1> QED  BY <1>3, <1>4, <1>5 DEF Rounded

-----------------------------------------------------------------------------
(* Steps of others.                                                        *)

\* A step that leaves alone what task t, which has read v, has brought about.
Undisturbed(t, v) ==
    /\ config' = config
    /\ (changes' = 0 => changes = 0) /\ (deletions' = 0 => deletions = 0)
    /\ \A o \in Names(api') : o \in Names(api) \/ o \notin Removable(config)
    /\ \A p \in api' : p[1] \in Copies \cap Owned(t) => p \in api \/ p = CopyIn(v, p[1])
    /\ deletions' = 0 =>
          /\ Names(api) \subseteq Names(api') \cup Removable(config) \cup Copies
          /\ \A p \in api : p[1] = datasources => p \in api'
          /\ \A p \in api :
                p[1] \in (Copies \cap Owned(t)) \ Removable(config) /\ p = CopyIn(v, p[1]) => p \in api'
          /\ ~pending' => ~pending /\ \A p \in api : p[1] \in Triggers => p \in api'
          /\ \A w \in Workloads \cap Owned(t) :
                w \in Names(api') => mounted'[w] = mounted[w] \/ mounted'[w] = Mount(v, w)

LEMMA NamesHave ==
    ASSUME NEW a, NEW p, p \in a
    PROVE  p[1] \in Names(a)
BY DEF Names

LEMMA StaysKnown ==
    ASSUME NEW t \in Tasks, NEW v, NEW P, Knows(t, v, P), Undisturbed(t, v)
    PROVE  Knows(t, v, P)'
<1>1. deletions' = 0 => \A p \in v : p[1] = datasources => p \in api'
  BY DEF Knows, Undisturbed
<1>2. t # Replacing /\ deletions' = 0 /\ ~pending' => \A p \in v : p[1] \in Triggers => p \in api'
  BY DEF Knows, Undisturbed
<1>3. t # Replacing /\ changes' = 0 => \A p \in v : p[1] = grpc => p[2] = 1
  BY DEF Knows, Undisturbed
<1> QED  BY <1>1, <1>2, <1>3 DEF Knows

LEMMA StaysDone ==
    ASSUME NEW t \in Tasks, config \in Configs, NEW v, NEW s \in Steps(t, config),
           Did(v, s), Undisturbed(t, v)
    PROVE  Did(v, s)'
<1>1. /\ WellFormed(s) /\ Proper(t, config, s) /\ Removes(s) \subseteq Removable(config)
      /\ s.op = "deploy" => s.objs[1] \in Workloads
      /\ s.op \in {"copy", "prune", "uncopy", "unhash", "deploy"} => s.objs[1] \in Owned(t)
      /\ s.objs[1] \in Objs(s)
  BY StepIs
<1>2. config' = config
  BY DEF Undisturbed
<1>3. s.op \in {"remove", "unhash"} => Objs(s) \cap Names(api') = {}
  BY <1>1 DEF Did, Undisturbed, Removes
<1>4. s.op = "uncopy" /\ changes' = 0 => s.objs[1] \notin Names(api')
  BY <1>1 DEF Did, Undisturbed, Removes
<1>5. s.op = "prune" => \A p \in api' : p[1] = s.objs[1] => p = CopyIn(v, s.objs[1])
  BY <1>1 DEF Did, Undisturbed, Proper
<1>6. s.op = "copy" => Makes(s) = {s.objs[1]}
  BY <1>1 DEF WellFormed, Makes, AllWrites
<1>7. ASSUME deletions' = 0, s.op = "copy" PROVE CopyIn(v, s.objs[1]) \in api'
  <2>1. CopyIn(v, s.objs[1]) \in api
    BY <1>7 DEF Did, Undisturbed
  <2>2. s.objs[1] \in (Copies \cap Owned(t)) \ Removable(config)
    BY <1>1, <1>6, <1>7 DEF Proper
  <2>3. CopyIn(v, s.objs[1])[1] = s.objs[1]
    BY DEF CopyIn
  <2> QED  BY <1>7, <2>1, <2>2, <2>3 DEF Undisturbed
<1>8. ASSUME deletions' = 0 PROVE Makes(s) \subseteq Names(api')
  <2>1. CASE s.op = "copy"
    <3>1. CopyIn(v, s.objs[1])[1] = s.objs[1]
      BY DEF CopyIn
    <3> QED  BY <1>6, <1>7, <1>8, <2>1, <3>1, NamesHave
  <2>2. CASE s.op # "copy"
    <3>1. Makes(s) \cap Copies = {}
      BY <2>2, CopiesApart
    <3> QED  BY <3>1, <1>1, <1>8 DEF Undisturbed, Proper, Did
  <2> QED  BY <2>1, <2>2
<1>9. ASSUME deletions' = 0, s.op = "deploy" PROVE mounted'[s.objs[1]] = Mount(v, s.objs[1])
  <2>1. s.objs[1] \in Names(api')
    BY <1>1, <1>8, <1>9 DEF Makes, AllWrites
  <2> QED  BY <1>1, <1>9, <2>1 DEF Did, Undisturbed
<1>10. ASSUME deletions' = 0, s.op = "rollout"
       PROVE  PodsOf(s.objs[1], config.etcd).objects \subseteq Names(api')
  <2>1. PodsOf(s.objs[1], config.etcd).objects \cap (Removable(config) \cup Copies) = {}
    BY <1>10, PodsStay
  <2> QED  BY <1>10, <2>1 DEF Did, Undisturbed
<1>11. Mount(v, s.objs[1])' = Mount(v, s.objs[1])
  BY <1>2 DEF Mount
<1> QED  BY <1>2, <1>3, <1>4, <1>5, <1>7, <1>8, <1>9, <1>10, <1>11 DEF Did

LEMMA StaysTrue ==
    ASSUME NEW t \in Tasks, config \in Configs, NEW v, NEW P, P \subseteq Steps(t, config),
           TaskInv(t, v, P), Undisturbed(t, v)
    PROVE  TaskInv(t, v, P)'
BY StaysKnown, StaysDone DEF TaskInv

-----------------------------------------------------------------------------
(* The steps of a task itself.                                             *)

LEMMA OfIs ==
    ASSUME NEW v, \A p, q \in v : p[1] = q[1] => p = q, NEW o \in Names(v)
    PROVE  \E p \in v : p[1] = o /\ Of(v, o) = p[2]
<1>1. PICK p \in v : p[1] = o
  BY DEF Names
<1>2. (CHOOSE q \in v : q[1] = o) = p
  BY <1>1
<1> QED  BY <1>1, <1>2 DEF Of

\* What was read before is not forgotten.
LEMMA OfStays ==
    ASSUME NEW v, NEW w, v \subseteq w, \A p, q \in w : p[1] = q[1] => p = q, NEW o \in Names(v)
    PROVE  Of(w, o) = Of(v, o)
<1>1. \A p, q \in v : p[1] = q[1] => p = q
  OBVIOUS
<1>2. PICK p \in v : p[1] = o /\ Of(v, o) = p[2]
  BY <1>1, OfIs
<1>3. o \in Names(w)
  BY DEF Names
<1>4. PICK q \in w : q[1] = o /\ Of(w, o) = q[2]
  BY <1>3, OfIs
<1> QED  BY <1>2, <1>4

LEMMA DidStays ==
    ASSUME NEW v, NEW w, NEW s, Did(v, s),
           s.op \in {"copy", "prune"} => CopyIn(w, s.objs[1]) = CopyIn(v, s.objs[1]),
           s.op = "deploy" => Mount(w, s.objs[1]) = Mount(v, s.objs[1])
    PROVE  Did(w, s)
BY DEF Did

\* A step that reads.
LEMMA ReadsMore ==
    ASSUME NEW t \in Tasks, config \in Configs, NEW i \in DOMAIN Program(t, config),
           NEW v, NEW s, s = Program(t, config)[i],
           TaskInv(t, v, Before(t, config, i)),
           s.op \in {"await", "get", "load"},
           NEW x \in Nat, s.objs[1] \in Objects \cup {grpc},
           t # Replacing => <<s.objs[1], x>> \in api,
           t # Replacing /\ changes = 0 /\ s.objs[1] = grpc => x = 1,
           s.objs[1] = datasources => t # Replacing
    PROVE  TaskInv(t, v \cup {<<s.objs[1], x>>}, Before(t, config, i) \cup {s})
<1> DEFINE o == s.objs[1]
           w == v \cup {<<o, x>>}
           P == Before(t, config, i)
<1>1. s \in Steps(t, config) /\ P \subseteq Steps(t, config)
  BY ProgramsAre, PassedNext
<1>2. WellFormed(s) /\ Reads(s) = {o} /\ Makes(s) = {}
  <2>1. WellFormed(s)  BY <1>1, StepIs
  <2> QED  BY <2>1 DEF WellFormed, Reads, Makes, AllWrites
<1>3. Prepared(config, s, P)
  BY ProgramsAre, StepsAreInOrder
<1>4. o \notin Names(v)
  BY <1>2, <1>3 DEF Prepared, TaskInv, Knows
<1>5. <<o, x>>[1] = o /\ <<o, x>>[2] = x
  OBVIOUS
<1>6. \A p \in v : p[1] # o
  BY <1>4, NamesHave
<1>7. \A p, q \in w : p[1] = q[1] => p = q
  BY <1>5, <1>6 DEF TaskInv, Knows
<1>8. Names(w) = ReadBy(P \cup {s})
  <2>1. Names(w) = Names(v) \cup {o}
    BY <1>5 DEF Names
  <2>2. ReadBy(P \cup {s}) = ReadBy(P) \cup {o}
    BY <1>2 DEF ReadBy
  <2> QED  BY <2>1, <2>2 DEF TaskInv, Knows
<1>9. Knows(t, w, P \cup {s})
  <2>1. w \subseteq (Objects \cup {grpc}) \X Nat
    BY DEF TaskInv, Knows
  <2>2. t # Replacing /\ changes = 0 => \A p \in w : p[1] = grpc => p[2] = 1
    BY <1>5 DEF TaskInv, Knows
  <2>3. deletions = 0 => \A p \in w : p[1] = datasources => p \in api
    BY <1>5 DEF TaskInv, Knows
  <2>4. t # Replacing /\ deletions = 0 /\ ~pending => \A p \in w : p[1] \in Triggers => p \in api
    BY <1>5 DEF TaskInv, Knows
  <2> QED  BY <1>7, <1>8, <2>1, <2>2, <2>3, <2>4 DEF Knows
<1>10. \A y \in Names(v) : Of(w, y) = Of(v, y)
  BY <1>7, OfStays
<1>11. ASSUME NEW r \in P PROVE Did(w, r)
  <2>1. Names(v) = ReadBy(P) /\ Did(v, r)
    BY DEF TaskInv, Knows
  <2>2. r.op \in {"copy", "prune"} => CopyIn(w, r.objs[1]) = CopyIn(v, r.objs[1])
    BY <1>10, <2>1, ReadEarlier DEF CopyIn
  <2>3. ASSUME r.op = "deploy" PROVE Mount(w, r.objs[1]) = Mount(v, r.objs[1])
    <3>1. \A h \in PodsOf(r.objs[1], config.etcd).copies : CopyIn(w, h) = CopyIn(v, h)
      BY <1>10, <2>1, <2>3, ReadEarlier DEF CopyIn
    <3> QED  BY <3>1 DEF Mount
  <2> QED  BY <2>1, <2>2, <2>3, DidStays
<1>12. Did(w, s)
  BY <1>2 DEF Did
<1> QED  BY <1>9, <1>11, <1>12 DEF TaskInv

\* A step that does not read.
LEMMA PassesMore ==
    ASSUME NEW t, NEW v, NEW P, NEW s, TaskInv(t, v, P), Did(v, s), Reads(s) = {}
    PROVE  TaskInv(t, v, P \cup {s})
<1>1. ReadBy(P \cup {s}) = ReadBy(P)
  BY DEF ReadBy
<1> QED  BY <1>1 DEF TaskInv, Knows

LEMMA PassesMoreNext ==
    ASSUME NEW t, NEW v, NEW P, NEW s, TaskInv(t, v, P)', Did(v, s)', Reads(s) = {}
    PROVE  TaskInv(t, v, P \cup {s})'
<1>1. ReadBy(P \cup {s}) = ReadBy(P)
  BY DEF ReadBy
<1> QED  BY <1>1 DEF TaskInv, Knows

\* The step at which a task is.
LEMMA StepAt ==
    ASSUME Control, NEW t \in Tasks, outcome[t] = "running"
    PROVE  /\ config \in Configs
           /\ pc[t] \in DOMAIN Program(t, config) /\ step(t) = Program(t, config)[pc[t]]
           /\ step(t) \in Steps(t, config)
           /\ Programs[t][config] = Program(t, config)
BY ProgramsAre DEF Control, step

\* A task that goes on, and its part of the invariant.
LEMMA GoesOn ==
    ASSUME Control, NEW t \in Tasks, outcome[t] = "running", NEW seen, Goes(t, seen),
           NEW v, v = view[t], NEW P, P = Before(t, config, pc[t]), NEW s, s = step(t),
           TaskInv(t, v \cup seen, P \cup {s})'
    PROVE  TaskPart(t)'
<1>1. /\ config \in Configs /\ pc[t] \in DOMAIN Program(t, config) /\ s = Program(t, config)[pc[t]]
      /\ Programs[t][config] = Program(t, config)
  BY StepAt
<1>2. config' = config
  BY DEF Goes
<1>3. outcome \in [Tasks -> {"running", "ok", "failed"}] /\ pc \in [Tasks -> Nat] /\ DOMAIN view = Tasks
  BY DEF Control
<1>4. CASE pc[t] = Len(Program(t, config))
  <2>1. outcome'[t] = "ok"
    BY <1>1, <1>3, <1>4 DEF Goes, Ends
  <2>2. Steps(t, config) = P \cup {s}
    BY <1>1, <1>4, PassedNext
  <2>3. TaskInv(t, v \cup seen, Steps(t, config))'
    BY <1>2, <2>2
  <2> QED  BY <2>1, <2>3 DEF TaskPart
<1>5. CASE pc[t] # Len(Program(t, config))
  <2>1. outcome'[t] = "running" /\ pc'[t] = pc[t] + 1 /\ view'[t] = v \cup seen
    BY <1>1, <1>3, <1>5 DEF Goes
  <2>2. Before(t, config, pc[t] + 1) = P \cup {s}
    BY <1>1, PassedNext
  <2>3. Before(t, config, pc[t])' = P \cup {s}
    BY <1>2, <2>1, <2>2 DEF Before
  <2>4. TaskInv(t, view[t], Before(t, config, pc[t]))'
    BY <2>1, <2>3
  <2> QED  BY <2>1, <2>4 DEF TaskPart
<1> QED  BY <1>4, <1>5

-----------------------------------------------------------------------------
(* What steps do to the objects.                                           *)

\* From objects a to objects b at most those of X among the copies change.
Spares(a, b, X) ==
    /\ \A o \in Names(b) : o \in Names(a) \/ o \notin Removable(config)
    /\ Names(a) \subseteq Names(b) \cup Removable(config) \cup Copies
    /\ \A p \in b : p[1] \in Copies \ X => p \in a
    /\ \A p \in a : p[1] \in (Copies \ X) \cup {datasources} \cup Triggers => p \in b

LEMMA ApplySpares ==
    ASSUME Control, StoreOK(api), NEW t \in Tasks, NEW s \in Steps(t, config), s.op = "apply",
           NEW D, D \subseteq Objs(s)
    PROVE  StoreOK(Applied(api, D)) /\ Spares(api, Applied(api, D), {})
<1> DEFINE b == Applied(api, D)
<1>1. Proper(t, config, s) /\ Makes(s) \subseteq Objects /\ Makes(s) = Objs(s)
  BY StepIs DEF Control, Makes, AllWrites
<1>2. D \cap (Copies \cup Triggers \cup Htpasswd \cup {datasources}) = {} /\ D \cap Removable(config) = {}
  BY <1>1 DEF Proper
<1>3. \A p \in b : (p \in api /\ p[1] \notin D) \/ (p[1] \in D /\ p = <<p[1], 1>>)
  <2> DEFINE new == {<<o, 1>> : o \in D}
  <2>1. ASSUME NEW p \in new PROVE p[1] \in D /\ p = <<p[1], 1>>
    <3>1. PICK o \in D : p = <<o, 1>>  OBVIOUS
    <3> QED  BY <3>1
  <2>2. b = Without(api, D) \cup new
    BY DEF Applied
  <2>3. \A p \in Without(api, D) : p \in api /\ p[1] \notin D
    BY DEF Without
  <2> HIDE DEF new, b
  <2> SUFFICES ASSUME NEW p \in b
               PROVE  (p \in api /\ p[1] \notin D) \/ (p[1] \in D /\ p = <<p[1], 1>>)
    OBVIOUS
  <2>4. CASE p \in new  BY <2>4, <2>1
  <2>5. CASE p \in Without(api, D)  BY <2>5, <2>3
  <2> QED  BY <2>2, <2>4, <2>5
<1>4. \A p \in api : p[1] \notin D => p \in b
  BY DEF Applied, Without
<1>5. \A o \in D : <<o, 1>> \in b
  BY DEF Applied
<1> HIDE DEF b
<1>6. Names(b) = Names(api) \cup D
  <2>1. \A o \in D : o \in Names(b)
    <3>1. \A o : <<o, 1>>[1] = o  OBVIOUS
    <3> QED  BY <1>5, <3>1, NamesHave
  <2> QED  BY <1>3, <1>4, <2>1 DEF Names
<1>7. b \subseteq Objects \X Nat
  <2>1. \A p \in api : p \in Objects \X Nat  BY DEF StoreOK
  <2> QED  BY <1>1, <1>3, <2>1
<1>8. \A p, q \in b : p[1] = q[1] /\ p[1] \notin Copies => p = q
  BY <1>3 DEF StoreOK
<1>9. \A p \in b : p[2] = 0 => p[1] \in Incomplete \cup Copies \cup Htpasswd
  <2>1. \A o : <<o, 1>>[2] # 0  OBVIOUS
  <2> QED  BY <1>3, <2>1 DEF StoreOK
<1>10. changes = 0 => \A p \in b : p[1] \in GrpcCopies \cup {grpc} => p[2] = 1
  <2>1. \A o : <<o, 1>>[2] = 1  OBVIOUS
  <2> QED  BY <1>3, <2>1 DEF StoreOK
<1>11. deletions = 0 => \A p \in b : p[1] \in Htpasswd => <<datasources, p[2]>> \in b
  <2>1. \A x : <<datasources, x>>[1] = datasources  OBVIOUS
  <2> QED  BY <1>2, <1>3, <1>4, <2>1 DEF StoreOK
<1>12. StoreOK(b)
  BY <1>7, <1>8, <1>9, <1>10, <1>11 DEF StoreOK
<1>13. Spares(api, b, {})
  BY <1>2, <1>3, <1>4, <1>6 DEF Spares
<1> QED  BY <1>12, <1>13 DEF b

LEMMA EnsureSpares ==
    ASSUME Control, StoreOK(api), NEW t \in Tasks, NEW s \in Steps(t, config), s.op = "ensure",
           NEW D, D \subseteq Objs(s)
    PROVE  StoreOK(Ensured(api, D)) /\ Spares(api, Ensured(api, D), {})
<1> DEFINE b == Ensured(api, D)
           x(o) == IF o \in Incomplete THEN 0 ELSE 1
<1>1. Proper(t, config, s) /\ Makes(s) \subseteq Objects /\ Makes(s) = Objs(s)
  BY StepIs DEF Control, Makes, AllWrites
<1>2. D \cap (Copies \cup Htpasswd \cup {grpc}) = {} /\ D \cap Removable(config) = {}
  BY <1>1 DEF Proper
<1>3. \A p \in b : p \in api \/ (p[1] \in D /\ p[1] \notin Names(api) /\ p = <<p[1], x(p[1])>>)
  <2> DEFINE new == {<<o, x(o)>> : o \in D \ Names(api)}
  <2>1. b = api \cup new
    BY DEF Ensured
  <2>2. ASSUME NEW p \in new
        PROVE  p[1] \in D /\ p[1] \notin Names(api) /\ p = <<p[1], x(p[1])>>
    <3> HIDE DEF x
    <3>1. PICK o \in D \ Names(api) : p = <<o, x(o)>>  OBVIOUS
    <3> QED  BY <3>1
  <2> HIDE DEF new, b, x
  <2> SUFFICES ASSUME NEW p \in b
               PROVE  p \in api \/ (p[1] \in D /\ p[1] \notin Names(api) /\ p = <<p[1], x(p[1])>>)
    OBVIOUS
  <2>3. CASE p \in new  BY <2>3, <2>2
  <2> QED  BY <2>1, <2>3
<1>4. api \subseteq b
  BY DEF Ensured
<1>5. \A o : x(o) \in Nat /\ <<o, x(o)>>[2] = x(o) /\ (x(o) = 0 => o \in Incomplete)
  OBVIOUS
<1> HIDE DEF b, x
<1>6. Names(b) \subseteq Names(api) \cup D /\ Names(api) \subseteq Names(b)
  BY <1>3, <1>4 DEF Names
<1>7. b \subseteq Objects \X Nat
  <2>1. \A p \in api : p \in Objects \X Nat  BY DEF StoreOK
  <2> QED  BY <1>1, <1>3, <1>5, <2>1
<1>8. \A p, q \in b : p[1] = q[1] /\ p[1] \notin Copies => p = q
  BY <1>3, NamesHave DEF StoreOK
<1>9. \A p \in b : p[2] = 0 => p[1] \in Incomplete \cup Copies \cup Htpasswd
  BY <1>3, <1>5 DEF StoreOK
<1>10. changes = 0 => \A p \in b : p[1] \in GrpcCopies \cup {grpc} => p[2] = 1
  BY <1>2, <1>3 DEF StoreOK, Copies
<1>11. deletions = 0 => \A p \in b : p[1] \in Htpasswd => <<datasources, p[2]>> \in b
  BY <1>2, <1>3, <1>4 DEF StoreOK
<1>12. StoreOK(b)
  BY <1>7, <1>8, <1>9, <1>10, <1>11 DEF StoreOK
<1>13. Spares(api, b, {})
  BY <1>2, <1>3, <1>4, <1>6 DEF Spares
<1> QED  BY <1>12, <1>13 DEF b

\* Fewer objects, as long as the passwords are among them.
LEMMA FewerOK ==
    ASSUME NEW a, StoreOK(a), NEW b, b \subseteq a,
           deletions = 0 => \A p \in a : p[1] = datasources => p \in b
    PROVE  StoreOK(b)
<1>1. \A x : <<datasources, x>>[1] = datasources
  OBVIOUS
<1> QED  BY <1>1 DEF StoreOK

LEMMA RemoveSpares ==
    ASSUME Control, StoreOK(api), NEW t \in Tasks, NEW s \in Steps(t, config), s.op = "remove",
           NEW D, D \subseteq Objs(s)
    PROVE  StoreOK(Without(api, D)) /\ Spares(api, Without(api, D), {})
<1> DEFINE b == Without(api, D)
<1>1. Proper(t, config, s) /\ Removes(s) \subseteq Removable(config) /\ Removes(s) = Objs(s)
  BY StepIs DEF Control, Removes
<1>2. D \cap (Copies \cup Triggers \cup {datasources}) = {} /\ D \subseteq Removable(config)
  BY <1>1 DEF Proper
<1>3. b \subseteq api /\ \A p \in api : p[1] \notin D => p \in b
  BY DEF Without
<1> HIDE DEF b
<1>4. StoreOK(b)
  BY <1>2, <1>3, FewerOK
<1>5. Names(b) \subseteq Names(api) /\ Names(api) \subseteq Names(b) \cup D
  BY <1>3 DEF Names
<1>6. Spares(api, b, {})
  BY <1>2, <1>3, <1>5 DEF Spares
<1> QED  BY <1>4, <1>6 DEF b

\* Copies that go.
LEMMA PruneSpares ==
    ASSUME Control, StoreOK(api), NEW t \in Tasks, NEW h \in Copies \cap Owned(t),
           NEW S, \A p \in S : p[1] = h
    PROVE  StoreOK(api \ S) /\ Spares(api, api \ S, Owned(t))
<1> DEFINE b == api \ S
<1>1. b \subseteq api /\ \A p \in api : p[1] # h => p \in b
  OBVIOUS
<1>2. h # datasources /\ h \notin Triggers
  BY OthersAreApart
<1> HIDE DEF b
<1>3. StoreOK(b)
  BY <1>1, <1>2, FewerOK
<1>4. Names(b) \subseteq Names(api) /\ Names(api) \subseteq Names(b) \cup {h}
  BY <1>1 DEF Names
<1>5. Spares(api, b, Owned(t))
  BY <1>1, <1>2, <1>4 DEF Spares
<1> QED  BY <1>3, <1>5 DEF b

\* An object more.
LEMMA AddSpares ==
    ASSUME Control, StoreOK(api), NEW t \in Tasks, NEW s \in Steps(t, config),
           NEW o \in Makes(s), NEW x \in Nat,
           x # 0 \/ o \in Copies \cup Htpasswd,
           o \in Copies => o \in Owned(t), o \notin Copies => o \notin Names(api),
           changes = 0 /\ o \in GrpcCopies \cup {grpc} => x = 1,
           deletions = 0 /\ o \in Htpasswd => <<datasources, x>> \in api
    PROVE  /\ StoreOK(api \cup {<<o, x>>})
           /\ Spares(api, api \cup {<<o, x>>}, Owned(t))
           /\ o \notin Copies => Spares(api, api \cup {<<o, x>>}, {})
<1> DEFINE b == api \cup {<<o, x>>}
<1>1. Proper(t, config, s) /\ Makes(s) \subseteq Objects
  BY StepIs DEF Control
<1>2. o \in Objects /\ o \notin Removable(config)
  BY <1>1 DEF Proper
<1>3. <<o, x>>[1] = o /\ <<o, x>>[2] = x
  OBVIOUS
<1>4. api \subseteq b /\ \A p \in b : p \in api \/ p = <<o, x>>
  OBVIOUS
<1> HIDE DEF b
<1>5. b \subseteq Objects \X Nat
  BY <1>2, <1>4 DEF StoreOK
<1>6. \A p, q \in b : p[1] = q[1] /\ p[1] \notin Copies => p = q
  BY <1>3, <1>4, NamesHave DEF StoreOK
<1>7. \A p \in b : p[2] = 0 => p[1] \in Incomplete \cup Copies \cup Htpasswd
  BY <1>3, <1>4 DEF StoreOK
<1>8. changes = 0 => \A p \in b : p[1] \in GrpcCopies \cup {grpc} => p[2] = 1
  BY <1>3, <1>4 DEF StoreOK
<1>9. deletions = 0 => \A p \in b : p[1] \in Htpasswd => <<datasources, p[2]>> \in b
  BY <1>3, <1>4 DEF StoreOK
<1>10. StoreOK(b)
  BY <1>5, <1>6, <1>7, <1>8, <1>9 DEF StoreOK
<1>11. Names(b) = Names(api) \cup {o}
  <2>1. <<o, x>> \in b  BY DEF b
  <2> QED  BY <1>3, <1>4, <2>1 DEF Names
<1>12. Spares(api, b, Owned(t)) /\ (o \notin Copies => Spares(api, b, {}))
  BY <1>2, <1>3, <1>4, <1>11 DEF Spares
<1> QED  BY <1>10, <1>12 DEF b

-----------------------------------------------------------------------------
(* From the objects to the invariant.                                      *)

LEMMA ServerStores ==
    ASSUME Server, NEW b, Stored(b), StoreOK(b), UNCHANGED <<dueSeen, changes, deletions>>
    PROVE  Server'
<1>1. StoreOK(api)'
  BY DEF Stored, StoreOK
<1>2. DOMAIN mounted' = Workloads /\ \A w \in Workloads : w \notin Names(api') => mounted'[w] = NoMount
  BY DEF Stored
<1> QED  BY <1>1, <1>2 DEF Server, Stored

LEMMA ServerStays ==
    ASSUME Server, UNCHANGED <<clusterVars, changes, deletions>>,
           dueSeen' \in {dueSeen, due, "no"}
    PROVE  Server'
<1>1. api' = api /\ mounted' = mounted /\ due' = due /\ changes' = changes /\ deletions' = deletions
  BY DEF clusterVars
<1>2. StoreOK(api)'
  BY <1>1 DEF Server, StoreOK
<1>3. Names(api)' = Names(api)
  BY <1>1
<1> QED  BY <1>1, <1>2, <1>3 DEF Server

LEMMA SparedUndisturbed ==
    ASSUME NEW t \in Tasks, NEW v, NEW b, NEW X, Stored(b), Spares(api, b, X), X \cap Owned(t) = {},
           config' = config, UNCHANGED <<changes, deletions>>, ~pending' => ~pending
    PROVE  Undisturbed(t, v)
<1>1. api' = b /\ \A w \in Workloads : w \in Names(b) => mounted'[w] = mounted[w]
  BY DEF Stored
<1>2. \A x \in Owned(t) : x \notin X
  OBVIOUS
<1> QED  BY <1>1, <1>2 DEF Undisturbed, Spares

\* Nothing happens to the cluster.
LEMMA QuietUndisturbed ==
    ASSUME NEW t, NEW v, UNCHANGED <<clusterVars, config, changes, deletions>>, ~pending' => ~pending
    PROVE  Undisturbed(t, v)
<1>1. api' = api /\ mounted' = mounted
  BY DEF clusterVars
<1>2. Names(api)' = Names(api)
  BY <1>1
<1> QED  BY <1>1, <1>2 DEF Undisturbed

\* The other tasks.
LEMMA PartStays ==
    ASSUME Control, NEW t \in Tasks, TaskPart(t), \A v : Undisturbed(t, v),
           outcome'[t] = outcome[t], pc'[t] = pc[t], view'[t] = view[t]
    PROVE  TaskPart(t)'
<1>1. config \in Configs
  BY DEF Control
<1>2. config' = config
  BY DEF Undisturbed
<1>3. ASSUME outcome[t] = "running"
      PROVE  TaskInv(t, view[t], Before(t, config, pc[t]))'
  <2>1. PICK v : v = view[t]  OBVIOUS
  <2>2. PICK P : P = Before(t, config, pc[t])  OBVIOUS
  <2>3. P \subseteq Steps(t, config)
    BY <1>1, <1>3, <2>2, PassedNext DEF Control
  <2>4. TaskInv(t, v, P)
    BY <1>3, <2>1, <2>2 DEF TaskPart
  <2>5. TaskInv(t, v, P)'
    BY <1>1, <2>3, <2>4, StaysTrue
  <2>6. Before(t, config, pc[t])' = P
    BY <1>2, <2>2 DEF Before
  <2> QED  BY <2>1, <2>5, <2>6
<1>4. ASSUME outcome[t] = "ok"
      PROVE  (\E v : TaskInv(t, v, Steps(t, config)))'
  <2>1. PICK v : TaskInv(t, v, Steps(t, config))
    BY <1>4 DEF TaskPart
  <2>2. PICK P : P = Steps(t, config)  OBVIOUS
  <2>3. TaskInv(t, v, P)
    BY <2>1, <2>2
  <2>4. TaskInv(t, v, P)'
    BY <1>1, <2>2, <2>3, StaysTrue
  <2>5. Steps(t, config)' = P
    BY <1>2, <2>2
  <2> QED  BY <2>4, <2>5
<1> QED  BY <1>3, <1>4 DEF TaskPart

LEMMA GoesControl ==
    ASSUME Control, NEW t \in Tasks, outcome[t] = "running", NEW seen, Goes(t, seen),
           pending' \in BOOLEAN, changes' \in Nat, deletions' \in Nat, faults' \in Nat
    PROVE  /\ Control'
           /\ \A u \in Tasks \ {t} : outcome'[u] = outcome[u] /\ pc'[u] = pc[u] /\ view'[u] = view[u]
<1>1. /\ config \in Configs /\ pc[t] \in DOMAIN Program(t, config)
      /\ Programs[t][config] = Program(t, config)
  BY StepAt
<1>2. config' = config
  BY DEF Goes
<1>3. outcome \in [Tasks -> {"running", "ok", "failed"}] /\ pc \in [Tasks -> Nat] /\ DOMAIN view = Tasks
  BY DEF Control
<1>4. CASE pc[t] = Len(Program(t, config))
  <2>1. /\ outcome' = [outcome EXCEPT ![t] = "ok"]
        /\ pc' = [pc EXCEPT ![t] = 0] /\ view' = [view EXCEPT ![t] = {}]
    BY <1>1, <1>4 DEF Goes, Ends
  <2> QED  BY <1>2, <1>3, <2>1 DEF Control
<1>5. CASE pc[t] # Len(Program(t, config))
  <2>1. /\ outcome' = outcome
        /\ pc' = [pc EXCEPT ![t] = pc[t] + 1] /\ view' = [view EXCEPT ![t] = view[t] \cup seen]
    BY <1>1, <1>5 DEF Goes
  <2>2. pc[t] + 1 \in DOMAIN Program(t, config)
    BY <1>1, <1>5, PassedNext
  <2> QED  BY <1>2, <1>3, <2>1, <2>2 DEF Control
<1> QED  BY <1>4, <1>5

LEMMA StopsControl ==
    ASSUME Control, NEW t \in Tasks, Stops(t), changes' \in Nat, deletions' \in Nat, faults' \in Nat
    PROVE  /\ Control' /\ config' = config /\ pending' = TRUE /\ TaskPart(t)'
           /\ \A u \in Tasks \ {t} : outcome'[u] = outcome[u] /\ pc'[u] = pc[u] /\ view'[u] = view[u]
<1>1. /\ outcome' = [outcome EXCEPT ![t] = "failed"]
      /\ pc' = [pc EXCEPT ![t] = 0] /\ view' = [view EXCEPT ![t] = {}]
      /\ config' = config /\ pending' = TRUE
  BY DEF Stops, Ends
<1>2. outcome \in [Tasks -> {"running", "ok", "failed"}] /\ pc \in [Tasks -> Nat] /\ DOMAIN view = Tasks
  BY DEF Control
<1>3. outcome'[t] = "failed"
  BY <1>1, <1>2
<1>4. TaskPart(t)'
  BY <1>3 DEF TaskPart
<1>5. Control'
  BY <1>1, <1>2 DEF Control
<1> QED  BY <1>1, <1>2, <1>4, <1>5

\* A step of task t with which it goes on.
LEMMA GoingOn ==
    ASSUME Inv, NEW t \in Tasks, outcome[t] = "running", NEW seen, Goes(t, seen), UNCHANGED bounds,
           pending' \in BOOLEAN, Server', \A u \in Tasks \ {t} : \A v : Undisturbed(u, v),
           NEW v, v = view[t], NEW P, P = Before(t, config, pc[t]), NEW s, s = step(t),
           TaskInv(t, v \cup seen, P \cup {s})'
    PROVE  Inv'
<1>1. Control /\ changes' \in Nat /\ deletions' \in Nat /\ faults' \in Nat
  BY DEF Inv, Control, bounds
<1>2. /\ Control'
      /\ \A u \in Tasks \ {t} : outcome'[u] = outcome[u] /\ pc'[u] = pc[u] /\ view'[u] = view[u]
  BY <1>1, GoesControl
<1>3. TaskPart(t)'
  BY <1>1, GoesOn
<1>4. ASSUME NEW u \in Tasks \ {t} PROVE TaskPart(u)'
  BY <1>1, <1>2, PartStays DEF Inv
<1> QED  BY <1>2, <1>3, <1>4 DEF Inv

\* A step of task t with which it fails.
LEMMA Stopping ==
    ASSUME Inv, NEW t \in Tasks, Stops(t), UNCHANGED <<changes, deletions>>, faults' \in Nat,
           Server', \A u \in Tasks \ {t} : \A v : Undisturbed(u, v)
    PROVE  Inv'
<1>1. Control /\ changes' \in Nat /\ deletions' \in Nat
  BY DEF Inv, Control
<1>2. /\ Control' /\ TaskPart(t)'
      /\ \A u \in Tasks \ {t} : outcome'[u] = outcome[u] /\ pc'[u] = pc[u] /\ view'[u] = view[u]
  BY <1>1, StopsControl
<1>3. ASSUME NEW u \in Tasks \ {t} PROVE TaskPart(u)'
  BY <1>1, <1>2, PartStays DEF Inv
<1> QED  BY <1>2, <1>3 DEF Inv

-----------------------------------------------------------------------------
(* The invariant is preserved, step by step.                               *)

\* Where a task that runs is.
LEMMA Where ==
    ASSUME Inv, NEW t \in Tasks, NEW ops, At(t, ops),
           NEW v, v = view[t], NEW P, P = Before(t, config, pc[t]), NEW s, s = step(t)
    PROVE  /\ Control /\ Server /\ config \in Configs /\ outcome[t] = "running" /\ s.op \in ops
           /\ pc[t] \in DOMAIN Program(t, config) /\ s = Program(t, config)[pc[t]]
           /\ s \in Steps(t, config) /\ P \subseteq Steps(t, config)
           /\ WellFormed(s) /\ Proper(t, config, s) /\ Prepared(config, s, P)
           /\ s.objs[1] \in Objs(s) /\ object(t) = s.objs[1]
           /\ s.op \in {"copy", "prune", "uncopy", "unhash", "deploy"} => s.objs[1] \in Owned(t)
           /\ TaskInv(t, v, P)
           /\ s.op \notin {"await", "get", "load"} => Reads(s) = {}
<1>1. Control /\ Server /\ outcome[t] = "running" /\ s.op \in ops /\ object(t) = s.objs[1]
  BY DEF Inv, At, object
<1>2. /\ config \in Configs /\ pc[t] \in DOMAIN Program(t, config) /\ s = Program(t, config)[pc[t]]
      /\ s \in Steps(t, config)
  BY <1>1, StepAt
<1>3. P \subseteq Steps(t, config)
  BY <1>2, PassedNext
<1>4. /\ WellFormed(s) /\ Proper(t, config, s) /\ s.objs[1] \in Objs(s)
      /\ s.op \in {"copy", "prune", "uncopy", "unhash", "deploy"} => s.objs[1] \in Owned(t)
  BY <1>2, StepIs
<1>5. Prepared(config, s, P)
  BY <1>2, ProgramsAre, StepsAreInOrder
<1>6. TaskInv(t, v, P)
  BY <1>1 DEF Inv, TaskPart
<1>7. s.op \notin {"await", "get", "load"} => Reads(s) = {}
  BY DEF Reads
<1> QED  BY <1>1, <1>2, <1>3, <1>4, <1>5, <1>6, <1>7

LEMMA ContentsAre ==
    ASSUME StoreOK(api), NEW o
    PROVE  /\ \A x \in Contents(o) : <<o, x>> \in api /\ o \in Objects /\ x \in Nat
           /\ \A x : <<o, x>> \in api => x \in Contents(o)
           /\ o \in Names(api) <=> Contents(o) # {}
           /\ o \notin Copies => \A x, y \in Contents(o) : x = y
<1>1. \A p \in api : p = <<p[1], p[2]>> /\ p[1] \in Objects /\ p[2] \in Nat
  <2>1. \A p \in api : p \in Objects \X Nat  BY DEF StoreOK
  <2> QED  BY <2>1
<1>2. ASSUME NEW x \in Contents(o) PROVE <<o, x>> \in api /\ o \in Objects /\ x \in Nat
  <2>1. PICK p \in api : p[1] = o /\ x = p[2]  BY DEF Contents
  <2> QED  BY <1>1, <2>1
<1>3. ASSUME NEW x, <<o, x>> \in api PROVE x \in Contents(o)
  <2>1. <<o, x>>[1] = o /\ <<o, x>>[2] = x  OBVIOUS
  <2> QED  BY <1>3, <2>1 DEF Contents
<1>4. o \in Names(api) <=> Contents(o) # {}
  BY DEF Names, Contents
<1>5. ASSUME o \notin Copies, NEW x \in Contents(o), NEW y \in Contents(o) PROVE x = y
  <2>1. <<o, x>>[1] = o /\ <<o, y>>[1] = o /\ <<o, x>>[2] = x /\ <<o, y>>[2] = y  OBVIOUS
  <2>2. <<o, x>> = <<o, y>>
    BY <1>2, <1>5, <2>1 DEF StoreOK
  <2> QED  BY <2>2
<1> QED  BY <1>2, <1>3, <1>4, <1>5

\* A step that reads x.
LEMMA ReadStep ==
    ASSUME Inv, NEW t \in Tasks, At(t, {"await", "get", "load"}),
           UNCHANGED <<clusterVars, pending, bounds>>, dueSeen' \in {dueSeen, due},
           NEW o, o = object(t), NEW x \in Nat, Goes(t, {<<o, x>>}),
           o \in Objects \cup {grpc},
           t # Replacing => x \in Contents(o),
           o = datasources => t # Replacing
    PROVE  Inv'
<1>1. PICK v : v = view[t]  OBVIOUS
<1>2. PICK P : P = Before(t, config, pc[t])  OBVIOUS
<1>3. PICK s : s = step(t)  OBVIOUS
<1>4. /\ Control /\ Server /\ config \in Configs /\ outcome[t] = "running"
      /\ pc[t] \in DOMAIN Program(t, config) /\ s = Program(t, config)[pc[t]]
      /\ s \in Steps(t, config) /\ P \subseteq Steps(t, config)
      /\ s.op \in {"await", "get", "load"} /\ object(t) = s.objs[1] /\ TaskInv(t, v, P)
  BY <1>1, <1>2, <1>3, Where
<1>5. StoreOK(api)
  BY <1>4 DEF Server
<1>6. t # Replacing => <<s.objs[1], x>> \in api
  BY <1>4, <1>5, ContentsAre
<1>7. t # Replacing /\ changes = 0 /\ s.objs[1] = grpc => x = 1
  <2>1. <<s.objs[1], x>>[1] = s.objs[1] /\ <<s.objs[1], x>>[2] = x  OBVIOUS
  <2> QED  BY <1>5, <1>6, <2>1 DEF StoreOK
<1>8. PICK w : w = v \cup {<<s.objs[1], x>>}  OBVIOUS
<1>9. TaskInv(t, w, P \cup {s})
  BY <1>2, <1>4, <1>6, <1>7, <1>8, ReadsMore
<1>10. config' = config /\ UNCHANGED <<changes, deletions>>
  BY DEF Goes, bounds
<1>11. \A u, y : Undisturbed(u, y)
  BY <1>10, QuietUndisturbed
<1>12. TaskInv(t, w, P \cup {s})'
  <2>1. P \cup {s} \subseteq Steps(t, config)
    BY <1>4
  <2>2. PICK Q : Q = P \cup {s}  OBVIOUS
  <2>3. TaskInv(t, w, Q)'
    BY <1>4, <1>9, <1>11, <2>1, <2>2, StaysTrue
  <2> QED  BY <2>2, <2>3
<1>13. Server'
  BY <1>4, <1>10, ServerStays
<1>14. pending' \in BOOLEAN
  BY <1>4 DEF Control
<1>15. TaskInv(t, v \cup {<<o, x>>}, P \cup {s})'
  BY <1>4, <1>8, <1>12
<1> QED  BY <1>1, <1>2, <1>3, <1>4, <1>11, <1>13, <1>14, <1>15, GoingOn

LEMMA AwaitKeeps ==
    ASSUME Inv, NEW t \in Tasks, Await(t)
    PROVE  Inv'
<1>1. At(t, {"await"}) /\ UNCHANGED <<clusterVars, pending, dueSeen, bounds>>
  BY DEF Await, unchangedByStep
<1>2. At(t, {"await", "get", "load"})
  BY <1>1 DEF At
<1>3. PICK x \in Contents(object(t)) \ {0} : Goes(t, {<<object(t), x>>})
  BY DEF Await
<1>4. StoreOK(api)
  BY DEF Inv, Server
<1>5. PICK o : o = object(t)  OBVIOUS
<1>6. x \in Nat /\ o \in Objects
  BY <1>3, <1>4, <1>5, ContentsAre
<1>7. t # Replacing
  <2>1. Proper(t, config, step(t)) /\ step(t).op = "await"
    BY <1>1, Where
  <2> QED  BY <2>1 DEF Proper
<1> QED  BY <1>1, <1>2, <1>3, <1>5, <1>6, <1>7, ReadStep

LEMMA GetKeeps ==
    ASSUME Inv, NEW t \in Tasks, Get(t)
    PROVE  Inv'
<1>1. At(t, {"get"}) /\ UNCHANGED <<clusterVars, dueSeen, bounds>>
  BY DEF Get, unchangedByStep
<1>2. CASE object(t) \in Names(api)
  <2>1. At(t, {"await", "get", "load"})
    BY <1>1 DEF At
  <2>2. PICK x \in Contents(object(t)) : Goes(t, {<<object(t), x>>})
    BY <1>2 DEF Get
  <2>3. StoreOK(api)
    BY DEF Inv, Server
  <2>4. PICK o : o = object(t)  OBVIOUS
  <2>5. x \in Nat /\ o \in Objects
    BY <2>2, <2>3, <2>4, ContentsAre
  <2>6. t # Replacing
    <3>1. Proper(t, config, step(t)) /\ step(t).op = "get"
      BY <1>1, Where
    <3> QED  BY <3>1 DEF Proper
  <2>7. UNCHANGED pending
    BY <1>2 DEF Get
  <2> QED  BY <1>1, <2>1, <2>2, <2>4, <2>5, <2>6, <2>7, ReadStep
<1>3. CASE object(t) \notin Names(api)
  <2>1. Stops(t) /\ config' = config /\ pending' = TRUE
    BY <1>3 DEF Get, Stops
  <2>2. UNCHANGED <<changes, deletions>> /\ faults' \in Nat
    BY <1>1 DEF bounds, Inv, Control
  <2>3. \A u, v : Undisturbed(u, v)
    BY <1>1, <2>1, <2>2, QuietUndisturbed
  <2>4. Server'
    BY <1>1, <2>2, ServerStays DEF Inv
  <2> QED  BY <2>1, <2>2, <2>3, <2>4, Stopping
<1> QED  BY <1>2, <1>3

LEMMA LoadKeeps ==
    ASSUME Inv, NEW t \in Tasks, Load(t)
    PROVE  Inv'
<1>1. At(t, {"load"}) /\ UNCHANGED <<clusterVars, pending, bounds>> /\ dueSeen' = due
  BY DEF Load
<1>2. At(t, {"await", "get", "load"})
  BY <1>1 DEF At
<1>3. Proper(t, config, step(t)) /\ step(t).op = "load" /\ object(t) = step(t).objs[1]
  BY <1>1, Where
<1>4. object(t) = grpc /\ t = Replacing
  BY <1>3 DEF Proper
<1>5. StoreOK(api) /\ grpc \notin Copies /\ grpc # datasources
  <2>1. grpc \in Triggers  BY DEF Triggers
  <2> QED  BY <2>1, OthersAreApart DEF Inv, Server
<1>6. PICK C : C = IF Contents(grpc) = {} THEN {0} ELSE Contents(grpc)  OBVIOUS
<1>7. PICK x : x \in C
  BY <1>6
<1>8. x \in Nat /\ \A y \in C : y = x
  <2>1. CASE Contents(grpc) = {}
    BY <2>1, <1>6, <1>7
  <2>2. CASE Contents(grpc) # {}
    <3>1. C = Contents(grpc)  BY <2>2, <1>6
    <3>2. \A y \in Contents(grpc) : y \in Nat /\ \A z \in Contents(grpc) : y = z
      BY <1>5, ContentsAre
    <3> QED  BY <1>7, <3>1, <3>2
  <2> QED  BY <2>1, <2>2
<1>9. {<<grpc, y>> : y \in C} = {<<grpc, x>>}
  BY <1>7, <1>8
<1>10. Goes(t, {<<grpc, x>>})
  BY <1>6, <1>9 DEF Load
<1> QED  BY <1>1, <1>2, <1>4, <1>5, <1>8, <1>10, ReadStep

\* A step that does not read and leaves the cluster as it is.
LEMMA QuietStep ==
    ASSUME Inv, NEW t \in Tasks, At(t, {"deref", "rollout"}),
           UNCHANGED <<clusterVars, pending, dueSeen, bounds>>, Goes(t, {}),
           Did(view[t], step(t))
    PROVE  Inv'
<1>1. PICK v : v = view[t]  OBVIOUS
<1>2. PICK P : P = Before(t, config, pc[t])  OBVIOUS
<1>3. PICK s : s = step(t)  OBVIOUS
<1>4. /\ Control /\ Server /\ config \in Configs /\ outcome[t] = "running"
      /\ s \in Steps(t, config) /\ P \subseteq Steps(t, config)
      /\ TaskInv(t, v, P) /\ Reads(s) = {}
  BY <1>1, <1>2, <1>3, Where
<1>5. TaskInv(t, v, P \cup {s})
  BY <1>1, <1>3, <1>4, PassesMore
<1>6. config' = config /\ UNCHANGED <<changes, deletions>> /\ pending' \in BOOLEAN
  BY <1>4 DEF Goes, bounds, Control
<1>7. \A u, y : Undisturbed(u, y)
  BY <1>6, QuietUndisturbed
<1>8. TaskInv(t, v \cup {}, P \cup {s})'
  <2>1. P \cup {s} \subseteq Steps(t, config)
    BY <1>4
  <2>2. PICK Q : Q = P \cup {s}  OBVIOUS
  <2>3. TaskInv(t, v, Q)'
    BY <1>4, <1>5, <1>7, <2>1, <2>2, StaysTrue
  <2>4. v \cup {} = v  OBVIOUS
  <2> QED  BY <2>2, <2>3, <2>4
<1>9. Server'
  BY <1>4, <1>6, ServerStays
<1> QED  BY <1>1, <1>2, <1>3, <1>4, <1>6, <1>7, <1>8, <1>9, GoingOn

LEMMA DerefKeeps ==
    ASSUME Inv, NEW t \in Tasks, Deref(t)
    PROVE  Inv'
<1>1. At(t, {"deref"}) /\ UNCHANGED <<clusterVars, dueSeen, bounds>>
  BY DEF Deref, unchangedByStep
<1>2. CASE object(t) \in Names(api)
  <2>1. At(t, {"deref", "rollout"}) /\ step(t).op = "deref"
    BY <1>1 DEF At
  <2>2. Goes(t, {}) /\ UNCHANGED pending
    BY <1>2 DEF Deref
  <2>3. Did(view[t], step(t))
    BY <2>1 DEF Did, Makes, AllWrites
  <2> QED  BY <1>1, <2>1, <2>2, <2>3, QuietStep
<1>3. CASE object(t) \notin Names(api)
  <2>1. /\ outcome' = [u \in Tasks |-> IF outcome[u] = "ok" THEN "ok" ELSE "failed"]
        /\ pc' = [u \in Tasks |-> 0] /\ view' = [u \in Tasks |-> {}]
        /\ pending' = TRUE /\ config' = config
    BY <1>3 DEF Deref
  <2>2. UNCHANGED <<changes, deletions, faults>>
    BY <1>1 DEF bounds
  <2>3. \A u, v : Undisturbed(u, v)
    BY <1>1, <2>1, <2>2, QuietUndisturbed
  <2>4. Server'
    BY <1>1, <2>2, ServerStays DEF Inv
  <2>5. Control'
    BY <2>1, <2>2 DEF Inv, Control
  <2>6. ASSUME NEW u \in Tasks PROVE TaskPart(u)'
    <3>1. CASE outcome[u] = "ok"
      <4>1. outcome'[u] = outcome[u] /\ pc'[u] = pc[u] /\ view'[u] = view[u]
        BY <2>1, <3>1 DEF Inv, Control
      <4> QED  BY <2>3, <4>1, PartStays DEF Inv
    <3>2. CASE outcome[u] # "ok"
      <4>1. outcome'[u] = "failed"
        BY <2>1, <3>2
      <4> QED  BY <4>1 DEF TaskPart
    <3> QED  BY <3>1, <3>2
  <2> QED  BY <2>4, <2>5, <2>6 DEF Inv
<1> QED  BY <1>2, <1>3

LEMMA RolloutKeeps ==
    ASSUME Inv, NEW t \in Tasks, Rollout(t)
    PROVE  Inv'
<1>1. At(t, {"rollout"}) /\ UNCHANGED <<clusterVars, dueSeen, bounds>>
  BY DEF Rollout, unchangedByStep
<1>2. CASE RunBy(object(t)) \cup {object(t)} \subseteq Names(api)
  <2>1. At(t, {"deref", "rollout"}) /\ step(t).op = "rollout"
    BY <1>1 DEF At
  <2>2. Goes(t, {}) /\ UNCHANGED pending /\ Startable(object(t))
    BY <1>2 DEF Rollout
  <2>3. PICK v : v = view[t]  OBVIOUS
  <2>4. PICK P : P = Before(t, config, pc[t])  OBVIOUS
  <2>5. PICK s : s = step(t)  OBVIOUS
  <2>6. object(t) = s.objs[1] /\ Prepared(config, s, P) /\ TaskInv(t, v, P) /\ s.op = "rollout"
    BY <1>1, <2>3, <2>4, <2>5, Where
  <2>7. PICK r \in P : r.op = "deploy" /\ r.objs[1] = s.objs[1]
    BY <2>6 DEF Prepared, Has
  <2>8. deletions = 0 => mounted[s.objs[1]] = Mount(v, s.objs[1])
    BY <2>6, <2>7 DEF TaskInv, Did
  <2>9. deletions = 0 => PodsOf(s.objs[1], config.etcd).objects \subseteq Names(api)
    BY <2>2, <2>6, <2>8 DEF Startable, Mount
  <2>10. Did(v, s)
    BY <2>6, <2>9 DEF Did, Makes, AllWrites
  <2> QED  BY <1>1, <2>1, <2>2, <2>3, <2>5, <2>10, QuietStep
<1>3. CASE ~(RunBy(object(t)) \cup {object(t)} \subseteq Names(api))
  <2>1. Stops(t) /\ config' = config /\ pending' = TRUE
    BY <1>3 DEF Rollout, Stops
  <2>2. UNCHANGED <<changes, deletions>> /\ faults' \in Nat
    BY <1>1 DEF bounds, Inv, Control
  <2>3. \A u, v : Undisturbed(u, v)
    BY <1>1, <2>1, <2>2, QuietUndisturbed
  <2>4. Server'
    BY <1>1, <2>2, ServerStays DEF Inv
  <2> QED  BY <2>1, <2>2, <2>3, <2>4, Stopping
<1> QED  BY <1>2, <1>3

LEMMA TimeoutKeeps ==
    ASSUME Inv, NEW t \in Tasks, Timeout(t)
    PROVE  Inv'
<1>1. UNCHANGED <<clusterVars, dueSeen, bounds>>
  BY DEF Timeout, unchangedByStep
<1>2. Stops(t) /\ config' = config /\ pending' = TRUE
  BY DEF Timeout, Stops
<1>3. UNCHANGED <<changes, deletions>> /\ faults' \in Nat
  BY <1>1 DEF bounds, Inv, Control
<1>4. \A u, v : Undisturbed(u, v)
  BY <1>1, <1>2, <1>3, QuietUndisturbed
<1>5. Server'
  BY <1>1, <1>3, ServerStays DEF Inv
<1> QED  BY <1>2, <1>3, <1>4, <1>5, Stopping

\* A step that stores objects b.
LEMMA StoredStep ==
    ASSUME Inv, NEW t \in Tasks, NEW ops, At(t, ops), ops \cap {"await", "get", "load"} = {},
           NEW b, Stored(b), StoreOK(b), Spares(api, b, Owned(t)),
           Goes(t, {}), UNCHANGED <<pending, dueSeen, bounds>>,
           NEW v, v = view[t], NEW s, s = step(t), Undisturbed(t, v), Did(v, s)'
    PROVE  Inv'
<1>1. PICK P : P = Before(t, config, pc[t])  OBVIOUS
<1>2. /\ Control /\ Server /\ config \in Configs /\ outcome[t] = "running"
      /\ s \in Steps(t, config) /\ P \subseteq Steps(t, config)
      /\ TaskInv(t, v, P) /\ Reads(s) = {}
  BY <1>1, Where
<1>3. config' = config /\ UNCHANGED <<changes, deletions>> /\ pending' \in BOOLEAN
  BY <1>2 DEF Goes, bounds, Control
<1>4. ASSUME NEW u \in Tasks \ {t}, NEW y PROVE Undisturbed(u, y)
  <2>1. Owned(t) \cap Owned(u) = {}
    BY KnownTasks, OneOwner
  <2> QED  BY <1>3, <2>1, SparedUndisturbed
<1>5. TaskInv(t, v, P)'
  BY <1>2, StaysTrue
<1>6. TaskInv(t, v \cup {}, P \cup {s})'
  <2>1. v \cup {} = v  OBVIOUS
  <2> QED  BY <1>2, <1>5, <2>1, PassesMoreNext
<1>7. Server'
  BY <1>2, <1>3, ServerStores
<1> QED  BY <1>1, <1>2, <1>3, <1>4, <1>6, <1>7, GoingOn

\* A step that stores objects b and fails.
LEMMA StoredStop ==
    ASSUME Inv, NEW t \in Tasks, Stops(t), NEW b, Stored(b), StoreOK(b), Spares(api, b, Owned(t)),
           UNCHANGED <<dueSeen, changes, deletions>>, faults' \in Nat
    PROVE  Inv'
<1>1. config' = config /\ pending' = TRUE
  BY DEF Stops
<1>2. ASSUME NEW u \in Tasks \ {t}, NEW y PROVE Undisturbed(u, y)
  <2>1. Owned(t) \cap Owned(u) = {}
    BY KnownTasks, OneOwner
  <2> QED  BY <1>1, <2>1, SparedUndisturbed
<1>3. Server'
  BY ServerStores DEF Inv
<1> QED  BY <1>2, <1>3, Stopping

LEMMA SparesMore ==
    ASSUME NEW a, NEW b, NEW X, Spares(a, b, {})
    PROVE  Spares(a, b, X)
BY DEF Spares

\* What apply, ensure and remove, of some or all of their objects, do.
LEMMA DoneSpares ==
    ASSUME Inv, NEW t \in Tasks, At(t, {"apply", "ensure", "remove"}), NEW D, D \subseteq Objs(step(t))
    PROVE  StoreOK(Done(t, D)) /\ Spares(api, Done(t, D), {})
<1>1. PICK s : s = step(t)  OBVIOUS
<1>2. /\ Control /\ StoreOK(api) /\ s \in Steps(t, config) /\ s.op \in {"apply", "ensure", "remove"}
  BY <1>1, Where DEF Server
<1>3. CASE s.op = "apply"
  <2>1. Done(t, D) = Applied(api, D)  BY <1>1, <1>3 DEF Done
  <2> QED  BY <1>1, <1>2, <1>3, <2>1, ApplySpares
<1>4. CASE s.op = "ensure"
  <2>1. Done(t, D) = Ensured(api, D)  BY <1>1, <1>4 DEF Done
  <2> QED  BY <1>1, <1>2, <1>4, <2>1, EnsureSpares
<1>5. CASE s.op = "remove"
  <2>1. Done(t, D) = Without(api, D)  BY <1>1, <1>5 DEF Done
  <2> QED  BY <1>1, <1>2, <1>5, <2>1, RemoveSpares
<1> QED  BY <1>2, <1>3, <1>4, <1>5

LEMMA AppliedNames ==
    ASSUME NEW a, NEW D
    PROVE  /\ D \subseteq Names(Applied(a, D)) /\ D \subseteq Names(Ensured(a, D))
           /\ D \cap Names(Without(a, D)) = {}
<1>1. \A o, x : <<o, x>>[1] = o
  OBVIOUS
<1>2. ASSUME NEW o \in D PROVE o \in Names(Applied(a, D))
  <2>1. <<o, 1>> \in Applied(a, D)  BY DEF Applied
  <2> QED  BY <1>1, <2>1, NamesHave
<1>3. ASSUME NEW o \in D PROVE o \in Names(Ensured(a, D))
  <2>1. CASE o \in Names(a)
    BY <2>1 DEF Names, Ensured
  <2>2. CASE o \notin Names(a)
    <3>1. <<o, IF o \in Incomplete THEN 0 ELSE 1>> \in Ensured(a, D)
      BY <2>2 DEF Ensured
    <3> QED  BY <1>1, <3>1, NamesHave
  <2> QED  BY <2>1, <2>2
<1>4. D \cap Names(Without(a, D)) = {}
  BY DEF Names, Without
<1> QED  BY <1>2, <1>3, <1>4

LEMMA WritesKeeps ==
    ASSUME Inv, NEW t \in Tasks, Writes(t)
    PROVE  Inv'
<1>1. PICK v : v = view[t]  OBVIOUS
<1>2. PICK s : s = step(t)  OBVIOUS
<1>3. PICK D : D = Objs(s)  OBVIOUS
<1>4. PICK b : b = Done(t, D)  OBVIOUS
<1>5. At(t, {"apply", "ensure", "remove"}) /\ Goes(t, {}) /\ UNCHANGED <<pending, dueSeen, bounds>>
  BY DEF Writes, unchangedByStep
<1>6. Stored(b)
  BY <1>2, <1>3, <1>4 DEF Writes, Objs
<1>7. StoreOK(b) /\ Spares(api, b, {}) /\ Spares(api, b, Owned(t))
  BY <1>2, <1>3, <1>4, <1>5, DoneSpares, SparesMore
<1>8. config' = config /\ UNCHANGED <<changes, deletions>>
  BY <1>5 DEF Goes, bounds
<1>9. Undisturbed(t, v)
  BY <1>5, <1>6, <1>7, <1>8, SparedUndisturbed
<1>10. s.op \in {"apply", "ensure", "remove"}
  BY <1>2, <1>5 DEF At
<1>11. api' = b
  BY <1>6 DEF Stored
<1>12. Did(v, s)'
  <2>1. CASE s.op = "apply"
    <3>1. b = Applied(api, D)  BY <1>2, <1>4, <2>1 DEF Done
    <3>2. D \subseteq Names(api')  BY <1>11, <3>1, AppliedNames
    <3> QED  BY <1>3, <2>1, <3>2 DEF Did, Makes
  <2>2. CASE s.op = "ensure"
    <3>1. b = Ensured(api, D)  BY <1>2, <1>4, <2>2 DEF Done
    <3>2. D \subseteq Names(api')  BY <1>11, <3>1, AppliedNames
    <3> QED  BY <1>3, <2>2, <3>2 DEF Did, Makes
  <2>3. CASE s.op = "remove"
    <3>1. b = Without(api, D)  BY <1>2, <1>4, <2>3 DEF Done
    <3>2. D \cap Names(api') = {}  BY <1>11, <3>1, AppliedNames
    <3> QED  BY <1>3, <2>3, <3>2 DEF Did, Makes, AllWrites
  <2> QED  BY <1>10, <2>1, <2>2, <2>3
<1> QED  BY <1>1, <1>2, <1>5, <1>6, <1>7, <1>9, <1>12, StoredStep

\* A step that changes a task's own copies.
LEMMA OwnUndisturbed ==
    ASSUME NEW t \in Tasks, NEW v, NEW b, Stored(b), Spares(api, b, Owned(t)),
           config' = config, UNCHANGED <<pending, changes, deletions>>,
           \A p \in b : p[1] \in Copies => p \in api \/ p = CopyIn(v, p[1]),
           \A p \in api : p \in b \/ p # CopyIn(v, p[1]) \/ p[1] \in Removable(config)
    PROVE  Undisturbed(t, v)
<1>1. api' = b /\ \A w \in Workloads : w \in Names(b) => mounted'[w] = mounted[w]
  BY DEF Stored
<1> QED  BY <1>1 DEF Undisturbed, Spares

\* What a task has read of an object.
LEMMA SeenIs ==
    ASSUME NEW t, NEW v, v = view[t], NEW P, Knows(t, v, P), NEW o \in ReadBy(P)
    PROVE  /\ Seen(t, o) = Of(v, o) /\ Of(v, o) \in Nat
           /\ <<o, Of(v, o)>> \in v
<1>1. PICK p \in v : p[1] = o /\ Of(v, o) = p[2]
  BY OfIs DEF Knows
<1>2. p = <<p[1], p[2]>> /\ p[2] \in Nat
  BY <1>1 DEF Knows
<1>3. Seen(t, o) = Of(v, o)
  BY DEF Seen, Of
<1> QED  BY <1>1, <1>2, <1>3

LEMMA GrpcSource == \A h \in GrpcCopies : SourceOf(h) = grpc
BY DEF SourceOf, GrpcCopies

LEMMA CopyKeeps ==
    ASSUME Inv, NEW t \in Tasks, Copy(t)
    PROVE  Inv'
<1>1. PICK v : v = view[t]  OBVIOUS
<1>2. PICK s : s = step(t)  OBVIOUS
<1>3. PICK P : P = Before(t, config, pc[t])  OBVIOUS
<1>4. At(t, {"copy"}) /\ Goes(t, {}) /\ UNCHANGED <<pending, dueSeen, bounds>>
  BY DEF Copy, unchangedByStep
<1>5. /\ Control /\ Server /\ s \in Steps(t, config) /\ s.op = "copy" /\ object(t) = s.objs[1]
      /\ WellFormed(s) /\ Proper(t, config, s) /\ Prepared(config, s, P)
      /\ s.objs[1] \in Owned(t) /\ TaskInv(t, v, P)
  BY <1>1, <1>2, <1>3, <1>4, Where
<1>6. PICK h : h = s.objs[1]  OBVIOUS
<1>7. h \in Copies \cap Owned(t) /\ t # Replacing /\ Makes(s) = {h} /\ SourceOf(h) \in ReadBy(P)
  BY <1>5, <1>6 DEF Proper, Prepared, WellFormed, Makes, AllWrites
<1>8. PICK x : x = Of(v, SourceOf(h))  OBVIOUS
<1>9. Seen(t, SourceOf(h)) = x /\ x \in Nat /\ <<SourceOf(h), x>> \in v
  BY <1>1, <1>5, <1>7, <1>8, SeenIs DEF TaskInv
<1>10. copyOf(t) = <<h, x>> /\ CopyIn(v, h) = <<h, x>>
  BY <1>5, <1>6, <1>8, <1>9 DEF copyOf, CopyIn
<1>11. PICK b : b = api \cup {<<h, x>>}  OBVIOUS
<1>12. Stored(b)
  BY <1>10, <1>11 DEF Copy
<1>13. changes = 0 /\ h \in GrpcCopies => x = 1
  <2>1. <<SourceOf(h), x>>[1] = SourceOf(h) /\ <<SourceOf(h), x>>[2] = x  OBVIOUS
  <2> QED  BY <1>5, <1>7, <1>9, <2>1, GrpcSource DEF TaskInv, Knows
<1>14. h \notin Htpasswd /\ h # grpc
  <2>1. grpc \in Triggers  BY DEF Triggers
  <2> QED  BY <1>7, <2>1, OthersAreApart
<1>15. StoreOK(b) /\ Spares(api, b, Owned(t))
  BY <1>5, <1>7, <1>9, <1>11, <1>13, <1>14, AddSpares DEF Server
<1>16. config' = config /\ UNCHANGED <<changes, deletions>>
  BY <1>4 DEF Goes, bounds
<1>17. Undisturbed(t, v)
  <2>1. <<h, x>>[1] = h  OBVIOUS
  <2>2. \A p \in b : p \in api \/ p = CopyIn(v, p[1])
    BY <1>10, <1>11, <2>1
  <2>3. \A p \in api : p \in b
    BY <1>11
  <2> QED  BY <1>4, <1>12, <1>15, <1>16, <2>2, <2>3, OwnUndisturbed
<1>18. Did(v, s)'
  <2>1. api' = b /\ <<h, x>> \in b /\ <<h, x>>[1] = h
    BY <1>11, <1>12 DEF Stored
  <2>2. h \in Names(api')
    BY <2>1, NamesHave
  <2> QED  BY <1>5, <1>6, <1>7, <1>10, <2>1, <2>2 DEF Did
<1> QED  BY <1>1, <1>2, <1>4, <1>12, <1>15, <1>17, <1>18, StoredStep

\* The copies that go in a prune or unhash, all or some of them.
LEMMA StaleSpares ==
    ASSUME Inv, NEW t \in Tasks, At(t, {"prune", "unhash"}), NEW S, S \subseteq Stale(t)
    PROVE  StoreOK(api \ S) /\ Spares(api, api \ S, Owned(t))
<1>1. PICK s : s = step(t)  OBVIOUS
<1>2. PICK v : v = view[t]  OBVIOUS
<1>3. PICK P : P = Before(t, config, pc[t])  OBVIOUS
<1>4. /\ Control /\ Server /\ s.op \in {"prune", "unhash"} /\ object(t) = s.objs[1]
      /\ Proper(t, config, s) /\ s.objs[1] \in Owned(t)
  BY <1>1, <1>2, <1>3, Where
<1>5. s.objs[1] \in Copies \cap Owned(t)
  BY <1>4 DEF Proper
<1>6. \A p \in S : p[1] = s.objs[1]
  BY <1>4 DEF Stale
<1> QED  BY <1>4, <1>5, <1>6, PruneSpares DEF Server

LEMMA PruneKeeps ==
    ASSUME Inv, NEW t \in Tasks, Prune(t)
    PROVE  Inv'
<1>1. PICK v : v = view[t]  OBVIOUS
<1>2. PICK s : s = step(t)  OBVIOUS
<1>3. PICK P : P = Before(t, config, pc[t])  OBVIOUS
<1>4. At(t, {"prune", "unhash"}) /\ Goes(t, {}) /\ UNCHANGED <<pending, dueSeen, bounds>>
  BY DEF Prune, unchangedByStep
<1>5. /\ s \in Steps(t, config) /\ s.op \in {"prune", "unhash"} /\ object(t) = s.objs[1]
      /\ WellFormed(s) /\ Prepared(config, s, P) /\ TaskInv(t, v, P) /\ config \in Configs
  BY <1>1, <1>2, <1>3, <1>4, Where
<1>6. PICK b : b = api \ Stale(t)  OBVIOUS
<1>7. Stored(b)
  BY <1>6 DEF Prune
<1>8. StoreOK(b) /\ Spares(api, b, Owned(t))
  BY <1>4, <1>6, StaleSpares
<1>9. s.op = "prune" => copyOf(t) = CopyIn(v, s.objs[1])
  <2>1. s.op = "prune" => SourceOf(s.objs[1]) \in ReadBy(P)
    BY <1>5 DEF Prepared
  <2>2. s.op = "prune" => Seen(t, SourceOf(s.objs[1])) = Of(v, SourceOf(s.objs[1]))
    BY <1>1, <1>5, <2>1, SeenIs DEF TaskInv
  <2> QED  BY <1>5, <2>2 DEF copyOf, CopyIn
<1>10. \A p \in api : p \in b \/ (p[1] = s.objs[1] /\ (s.op = "prune" => p # CopyIn(v, s.objs[1])))
  BY <1>2, <1>5, <1>6, <1>9 DEF Stale
<1>11. \A p \in b : p \in api /\ (p[1] = s.objs[1] => s.op = "prune" /\ p = CopyIn(v, s.objs[1]))
  BY <1>2, <1>5, <1>6, <1>9 DEF Stale
<1>12. config' = config /\ UNCHANGED <<changes, deletions>>
  BY <1>4 DEF Goes, bounds
<1>13. Undisturbed(t, v)
  <2>1. s.op = "unhash" => s.objs[1] \in Removable(config)
    <3>1. Removes(s) \subseteq Removable(config) /\ s.objs[1] \in Objs(s)
      BY <1>5, StepIs
    <3> QED  BY <3>1 DEF Removes
  <2>2. \A p \in api : p \in b \/ p # CopyIn(v, p[1]) \/ p[1] \in Removable(config)
    BY <1>5, <1>10, <2>1
  <2> QED  BY <1>4, <1>7, <1>8, <1>11, <1>12, <2>2, OwnUndisturbed
<1>14. Did(v, s)'
  <2>1. api' = b
    BY <1>7 DEF Stored
  <2>2. Objs(s) = {s.objs[1]}
    BY <1>5 DEF WellFormed
  <2>3. s.op = "unhash" => s.objs[1] \notin Names(api')
    BY <1>11, <2>1 DEF Names
  <2> QED  BY <1>5, <1>11, <2>1, <2>2, <2>3 DEF Did, Makes, AllWrites
<1> QED  BY <1>1, <1>2, <1>4, <1>7, <1>8, <1>13, <1>14, StoredStep

LEMMA UncopyKeeps ==
    ASSUME Inv, NEW t \in Tasks, Uncopy(t)
    PROVE  Inv'
<1>1. PICK v : v = view[t]  OBVIOUS
<1>2. PICK s : s = step(t)  OBVIOUS
<1>3. PICK P : P = Before(t, config, pc[t])  OBVIOUS
<1>4. At(t, {"uncopy"}) /\ Goes(t, {}) /\ UNCHANGED <<pending, dueSeen, bounds>>
  BY DEF Uncopy, unchangedByStep
<1>5. /\ Control /\ Server /\ s \in Steps(t, config) /\ s.op = "uncopy" /\ object(t) = s.objs[1]
      /\ WellFormed(s) /\ Proper(t, config, s) /\ Prepared(config, s, P) /\ TaskInv(t, v, P)
      /\ s.objs[1] \in Owned(t) /\ config \in Configs
  BY <1>1, <1>2, <1>3, <1>4, Where
<1>6. PICK h : h = s.objs[1]  OBVIOUS
<1>7. h \in Copies \cap Owned(t) /\ h \in GrpcCopies /\ t # Replacing /\ grpc \in ReadBy(P)
  BY <1>5, <1>6, GrpcSource DEF Proper, Prepared
<1>8. PICK x : x = Of(v, grpc)  OBVIOUS
<1>9. Seen(t, grpc) = x /\ <<grpc, x>> \in v
  BY <1>1, <1>5, <1>7, <1>8, SeenIs DEF TaskInv
<1>10. copyOf(t) = <<h, x>>
  BY <1>5, <1>6, <1>7, <1>9, GrpcSource DEF copyOf
<1>11. PICK b : b = api \ {<<h, x>>}  OBVIOUS
<1>12. Stored(b)
  BY <1>10, <1>11 DEF Uncopy
<1>13. <<h, x>>[1] = h /\ <<grpc, x>>[1] = grpc /\ <<grpc, x>>[2] = x
  OBVIOUS
<1>14. StoreOK(b) /\ Spares(api, b, Owned(t))
  <2>1. \A p \in {<<h, x>>} : p[1] = h  BY <1>13
  <2> QED  BY <1>5, <1>7, <1>11, <2>1, PruneSpares DEF Server
<1>15. config' = config /\ UNCHANGED <<changes, deletions>>
  BY <1>4 DEF Goes, bounds
<1>16. Undisturbed(t, v)
  <2>1. h \in Removable(config)
    <3>1. Removes(s) \subseteq Removable(config) /\ s.objs[1] \in Objs(s)
      BY <1>5, StepIs
    <3> QED  BY <1>5, <1>6, <3>1 DEF Removes
  <2>2. \A p \in api : p \in b \/ p[1] \in Removable(config)
    BY <1>11, <1>13, <2>1
  <2>3. \A p \in b : p \in api
    BY <1>11
  <2> QED  BY <1>4, <1>12, <1>14, <1>15, <2>2, <2>3, OwnUndisturbed
<1>17. changes = 0 => h \notin Names(b)
  <2> SUFFICES ASSUME changes = 0, NEW p \in b, p[1] = h PROVE FALSE
    BY DEF Names
  <2>1. x = 1
    BY <1>5, <1>7, <1>9, <1>13 DEF TaskInv, Knows
  <2>2. p \in api /\ p \in Objects \X Nat /\ p[2] = 1
    BY <1>5, <1>7, <1>11 DEF Server, StoreOK
  <2>3. p = <<h, x>>
    BY <2>1, <2>2
  <2> QED  BY <1>11, <2>3
<1>18. Did(v, s)'
  <2>1. api' = b
    BY <1>12 DEF Stored
  <2> QED  BY <1>5, <1>6, <1>15, <1>17, <2>1 DEF Did, Makes, AllWrites
<1> QED  BY <1>1, <1>2, <1>4, <1>12, <1>14, <1>16, <1>18, StoredStep

\* A step that creates the password, or a file of passwords, if there is none.
LEMMA CreateStep ==
    ASSUME Inv, NEW t \in Tasks, At(t, {"generate", "derive"}), NEW o, o = object(t), NEW x \in Nat,
           Stored(IF o \in Names(api) THEN api ELSE api \cup {<<o, x>>}),
           Goes(t, {}), UNCHANGED <<pending, dueSeen, bounds>>,
           x # 0 \/ o \in Htpasswd,
           deletions = 0 /\ o \in Htpasswd => <<datasources, x>> \in api
    PROVE  Inv'
<1>1. PICK v : v = view[t]  OBVIOUS
<1>2. PICK s : s = step(t)  OBVIOUS
<1>3. PICK P : P = Before(t, config, pc[t])  OBVIOUS
<1>4. /\ Control /\ Server /\ s \in Steps(t, config) /\ s.op \in {"generate", "derive"} /\ o = s.objs[1]
      /\ WellFormed(s) /\ Proper(t, config, s)
  BY <1>1, <1>2, <1>3, Where
<1>5. PICK b : b = IF o \in Names(api) THEN api ELSE api \cup {<<o, x>>}  OBVIOUS
<1>6. Makes(s) = {o} /\ o \in Htpasswd \cup {datasources} /\ o \notin Copies /\ o # grpc
  <2>1. Makes(s) = {o} /\ o \in Htpasswd \cup {datasources}
    BY <1>4 DEF WellFormed, Makes, AllWrites, Proper
  <2>2. grpc \in Triggers  BY DEF Triggers
  <2> QED  BY <2>1, <2>2, OthersAreApart
<1>7. StoreOK(b) /\ Spares(api, b, {})
  <2>1. CASE o \in Names(api)
    <3>1. b = api  BY <1>5, <2>1
    <3> QED  BY <1>4, <3>1 DEF Spares, Server
  <2>2. CASE o \notin Names(api)
    <3>1. b = api \cup {<<o, x>>}  BY <1>5, <2>2
    <3>2. o \notin GrpcCopies  BY <1>6 DEF Copies
    <3> QED  BY <1>4, <1>6, <2>2, <3>1, <3>2, AddSpares DEF Server
  <2> QED  BY <2>1, <2>2
<1>8. o \in Names(b)
  <2>1. <<o, x>>[1] = o  OBVIOUS
  <2> QED  BY <1>5, <2>1, NamesHave
<1>9. config' = config /\ UNCHANGED <<changes, deletions>>
  BY DEF Goes, bounds
<1>10. Stored(b) /\ Spares(api, b, Owned(t))
  BY <1>5, <1>7, SparesMore
<1>11. Undisturbed(t, v)
  BY <1>7, <1>9, <1>10, SparedUndisturbed
<1>12. Did(v, s)'
  <2>1. api' = b
    BY <1>10 DEF Stored
  <2> QED  BY <1>4, <1>6, <1>8, <2>1 DEF Did
<1> QED  BY <1>1, <1>2, <1>7, <1>10, <1>11, <1>12, StoredStep

LEMMA GenerateKeeps ==
    ASSUME Inv, NEW t \in Tasks, Generate(t)
    PROVE  Inv'
<1>1. At(t, {"generate"}) /\ Goes(t, {}) /\ UNCHANGED <<pending, dueSeen, bounds>>
  BY DEF Generate, unchangedByStep
<1>2. At(t, {"generate", "derive"})
  BY <1>1 DEF At
<1>3. Proper(t, config, step(t)) /\ step(t).op = "generate" /\ object(t) = step(t).objs[1]
  BY <1>1, Where
<1>4. object(t) = datasources /\ datasources \notin Htpasswd
  BY <1>3, OthersAreApart DEF Proper
<1>5. PICK x : x = deletions + 1  OBVIOUS
<1>6. x \in Nat /\ x # 0
  BY <1>5 DEF Inv, Control
<1>7. Stored(IF object(t) \in Names(api) THEN api ELSE api \cup {<<object(t), x>>})
  BY <1>5 DEF Generate
<1> QED  BY <1>1, <1>2, <1>4, <1>6, <1>7, CreateStep

LEMMA DeriveKeeps ==
    ASSUME Inv, NEW t \in Tasks, Derive(t)
    PROVE  Inv'
<1>1. PICK v : v = view[t]  OBVIOUS
<1>2. PICK P : P = Before(t, config, pc[t])  OBVIOUS
<1>3. At(t, {"derive"}) /\ Goes(t, {}) /\ UNCHANGED <<pending, dueSeen, bounds>>
  BY DEF Derive, unchangedByStep
<1>4. At(t, {"generate", "derive"})
  BY <1>3 DEF At
<1>5. /\ Proper(t, config, step(t)) /\ step(t).op = "derive" /\ object(t) = step(t).objs[1]
      /\ Prepared(config, step(t), P) /\ TaskInv(t, v, P)
  BY <1>1, <1>2, <1>3, Where
<1>6. object(t) \in Htpasswd /\ datasources \in ReadBy(P)
  BY <1>5 DEF Proper, Prepared
<1>7. PICK x : x = Of(v, datasources)  OBVIOUS
<1>8. Seen(t, datasources) = x /\ x \in Nat /\ <<datasources, x>> \in v
  BY <1>1, <1>5, <1>6, <1>7, SeenIs DEF TaskInv
<1>9. deletions = 0 => <<datasources, x>> \in api
  <2>1. <<datasources, x>>[1] = datasources  OBVIOUS
  <2> QED  BY <1>5, <1>8, <2>1 DEF TaskInv, Knows
<1>10. Stored(IF object(t) \in Names(api) THEN api ELSE api \cup {<<object(t), x>>})
  BY <1>8 DEF Derive, datasources
<1> QED  BY <1>3, <1>4, <1>6, <1>8, <1>9, <1>10, CreateStep

-----------------------------------------------------------------------------
(* An object that gets another content.                                    *)

LEMMA WithIs ==
    ASSUME NEW a, NEW o, NEW x
    PROVE  /\ \A p \in With(a, o, x) : (p \in a /\ p[1] # o) \/ p = <<o, x>>
           /\ \A p \in a : p[1] # o => p \in With(a, o, x)
           /\ <<o, x>> \in With(a, o, x)
           /\ Names(With(a, o, x)) = Names(a) \cup {o}
<1> DEFINE b == With(a, o, x)
<1>1. \A p \in b : (p \in a /\ p[1] # o) \/ p = <<o, x>>
  BY DEF With, Without
<1>2. (\A p \in a : p[1] # o => p \in b) /\ <<o, x>> \in b
  BY DEF With, Without
<1>3. <<o, x>>[1] = o
  OBVIOUS
<1> HIDE DEF b
<1>4. Names(b) = Names(a) \cup {o}
  BY <1>1, <1>2, <1>3 DEF Names
<1> QED  BY <1>1, <1>2, <1>4 DEF b

LEMMA WithOK ==
    ASSUME StoreOK(api), NEW o \in Objects, NEW x \in Nat \ {0},
           o \notin Copies \cup Htpasswd \cup {datasources}, changes = 0 /\ o = grpc => x = 1
    PROVE  StoreOK(With(api, o, x))
<1>1. PICK b : b = With(api, o, x)  OBVIOUS
<1>2. /\ \A p \in b : (p \in api /\ p[1] # o) \/ p = <<o, x>>
      /\ \A p \in api : p[1] # o => p \in b
  BY <1>1, WithIs
<1>3. <<o, x>>[1] = o /\ <<o, x>>[2] = x /\ \A y : <<datasources, y>>[1] = datasources
  OBVIOUS
<1>4. b \subseteq Objects \X Nat
  BY <1>2 DEF StoreOK
<1>5. \A p, q \in b : p[1] = q[1] /\ p[1] \notin Copies => p = q
  BY <1>2, <1>3 DEF StoreOK
<1>6. \A p \in b : p[2] = 0 => p[1] \in Incomplete \cup Copies \cup Htpasswd
  BY <1>2, <1>3 DEF StoreOK
<1>7. changes = 0 => \A p \in b : p[1] \in GrpcCopies \cup {grpc} => p[2] = 1
  BY <1>2, <1>3 DEF StoreOK, Copies
<1>8. deletions = 0 => \A p \in b : p[1] \in Htpasswd => <<datasources, p[2]>> \in b
  BY <1>2, <1>3 DEF StoreOK
<1> QED  BY <1>1, <1>4, <1>5, <1>6, <1>7, <1>8 DEF StoreOK

LEMMA WithServer ==
    ASSUME Server, NEW o, NEW x, StoreOK(With(api, o, x)), api' = With(api, o, x),
           changes' = 0 => changes = 0, deletions' = 0 => deletions = 0,
           DOMAIN mounted' = Workloads, \A w \in Workloads \ {o} : mounted'[w] = mounted[w],
           due' \in {due, "no"}, dueSeen' \in {dueSeen, "no"}
    PROVE  Server'
<1>1. PICK b : b = With(api, o, x) /\ api' = b  OBVIOUS
<1>2. StoreOK(api)'
  BY <1>1 DEF StoreOK
<1>3. Names(api') = Names(api) \cup {o}
  BY WithIs
<1>4. \A w \in Workloads : w \notin Names(api') => mounted'[w] = NoMount
  BY <1>3 DEF Server
<1> QED  BY <1>2, <1>4 DEF Server

LEMMA WithUndisturbed ==
    ASSUME StoreOK(api), NEW t \in Tasks, NEW v, NEW o, NEW x, api' = With(api, o, x),
           o \notin Copies \cup {datasources}, o \in Names(api) \/ o \notin Removable(config),
           config' = config, changes' = 0 => changes = 0, deletions' = 0 => deletions = 0,
           ~pending' => ~pending /\ (o \in Triggers => <<o, x>> \in api),
           \A w \in Workloads \cap Owned(t) : mounted'[w] = mounted[w] \/ mounted'[w] = Mount(v, w)
    PROVE  Undisturbed(t, v)
<1>1. /\ \A p \in api' : (p \in api /\ p[1] # o) \/ p = <<o, x>>
      /\ \A p \in api : p[1] # o => p \in api'
      /\ <<o, x>> \in api'
      /\ Names(api') = Names(api) \cup {o}
  BY WithIs
<1>2. <<o, x>>[1] = o
  OBVIOUS
<1>3. <<o, x>> \in api => \A p \in api : p[1] = o => p \in api'
  BY <1>1, <1>2 DEF StoreOK
<1>4. ~pending' => ~pending /\ \A p \in api : p[1] \in Triggers => p \in api'
  BY <1>1, <1>3
<1> QED  BY <1>1, <1>2, <1>4 DEF Undisturbed

\* A step of task t that stores another content.
LEMMA WithStep ==
    ASSUME Inv, NEW t \in Tasks, NEW ops, At(t, ops), ops \cap {"await", "get", "load"} = {},
           NEW o, NEW x, api' = With(api, o, x), Server',
           \A u \in Tasks \ {t} : \A y : Undisturbed(u, y),
           Goes(t, {}), UNCHANGED bounds, pending' \in BOOLEAN,
           NEW v, v = view[t], NEW s, s = step(t), Undisturbed(t, v), Did(v, s)'
    PROVE  Inv'
<1>1. PICK P : P = Before(t, config, pc[t])  OBVIOUS
<1>2. /\ config \in Configs /\ outcome[t] = "running" /\ P \subseteq Steps(t, config)
      /\ TaskInv(t, v, P) /\ Reads(s) = {}
  BY <1>1, Where
<1>3. TaskInv(t, v, P)'
  BY <1>2, StaysTrue
<1>4. TaskInv(t, v \cup {}, P \cup {s})'
  <2>1. v \cup {} = v  OBVIOUS
  <2> QED  BY <1>2, <1>3, <2>1, PassesMoreNext
<1> QED  BY <1>1, <1>2, <1>4, GoingOn

LEMMA DeployKeeps ==
    ASSUME Inv, NEW t \in Tasks, Deploy(t)
    PROVE  Inv'
<1>1. PICK v : v = view[t]  OBVIOUS
<1>2. PICK s : s = step(t)  OBVIOUS
<1>3. PICK P : P = Before(t, config, pc[t])  OBVIOUS
<1>4. At(t, {"deploy"}) /\ Goes(t, {}) /\ UNCHANGED <<due, pending, dueSeen, bounds>>
  BY DEF Deploy, unchangedByStep
<1>5. /\ Control /\ Server /\ config \in Configs /\ s \in Steps(t, config) /\ s.op = "deploy"
      /\ object(t) = s.objs[1] /\ WellFormed(s) /\ Proper(t, config, s) /\ Prepared(config, s, P)
      /\ s.objs[1] \in Owned(t) /\ TaskInv(t, v, P)
  BY <1>1, <1>2, <1>3, <1>4, Where
<1>6. PICK w : w = s.objs[1]  OBVIOUS
<1>7. w \in Owned(t) /\ w \in Workloads /\ Makes(s) = {w} /\ w \in Objects
  <2>1. Makes(s) = {w}
    BY <1>5, <1>6 DEF WellFormed, Makes, AllWrites
  <2> QED  BY <1>5, <1>6, <2>1, StepIs
<1>8. /\ w \notin Copies \cup Htpasswd \cup {datasources} /\ w \notin Triggers /\ w # grpc
      /\ w \notin Removable(config)
  <2>1. grpc \in Triggers  BY DEF Triggers
  <2> QED  BY <1>5, <1>6, <1>7, <2>1 DEF Proper
<1>9. ASSUME NEW h \in PodsOf(w, config.etcd).copies
      PROVE  <<h, Seen(t, SourceOf(h))>> = CopyIn(v, h)
  <2>1. SourceOf(h) \in ReadBy(P)
    BY <1>5, <1>6 DEF Prepared
  <2> QED  BY <1>1, <1>5, <2>1, SeenIs DEF TaskInv, CopyIn
<1>10. api' = With(api, w, 1) /\ mounted' = [mounted EXCEPT ![w] = Mount(v, w)]
  <2>1. {<<h, Seen(t, SourceOf(h))>> : h \in PodsOf(w, config.etcd).copies}
          = {CopyIn(v, h) : h \in PodsOf(w, config.etcd).copies}
    BY <1>9
  <2> QED  BY <1>5, <1>6, <2>1 DEF Deploy, Mount
<1>11. PICK m : m = Mount(v, w)  OBVIOUS
<1>12. /\ DOMAIN mounted' = Workloads /\ mounted'[w] = m
       /\ \A x \in Workloads \ {w} : mounted'[x] = mounted[x]
  BY <1>5, <1>7, <1>10, <1>11 DEF Server
<1>13. Server'
  <2>1. StoreOK(With(api, w, 1))
    BY <1>5, <1>7, <1>8, WithOK DEF Server
  <2>2. UNCHANGED <<changes, deletions>>
    BY <1>4 DEF bounds
  <2> QED  BY <1>4, <1>5, <1>10, <1>12, <2>1, <2>2, WithServer
<1>14. config' = config /\ UNCHANGED <<changes, deletions>> /\ pending' \in BOOLEAN
  BY <1>4, <1>5 DEF Goes, bounds, Control
<1>15. ASSUME NEW u \in Tasks \ {t}, NEW y PROVE Undisturbed(u, y)
  <2>1. w \notin Owned(u)
    BY <1>7, KnownTasks, OneOwner
  <2>2. \A x \in Workloads \cap Owned(u) : mounted'[x] = mounted[x]
    BY <1>12, <2>1
  <2> QED  BY <1>4, <1>5, <1>8, <1>10, <1>14, <2>2, WithUndisturbed DEF Server
<1>16. Undisturbed(t, v)
  <2>1. \A x \in Workloads \cap Owned(t) : mounted'[x] = mounted[x] \/ mounted'[x] = Mount(v, x)
    BY <1>11, <1>12
  <2> QED  BY <1>4, <1>5, <1>8, <1>10, <1>14, <2>1, WithUndisturbed DEF Server
<1>17. Did(v, s)'
  <2>1. w \in Names(api')
    <3>1. Names(With(api, w, 1)) = Names(api) \cup {w}  BY WithIs
    <3> QED  BY <1>10, <3>1
  <2>2. Mount(v, w)' = Mount(v, w)
    BY <1>14 DEF Mount
  <2> QED  BY <1>5, <1>6, <1>7, <1>11, <1>12, <2>1, <2>2 DEF Did
<1> QED  BY <1>1, <1>2, <1>4, <1>10, <1>13, <1>14, <1>15, <1>16, <1>17, WithStep

LEMMA RotateKeeps ==
    ASSUME Inv, NEW t \in Tasks, Rotate(t)
    PROVE  Inv'
<1>1. PICK v : v = view[t]  OBVIOUS
<1>2. PICK s : s = step(t)  OBVIOUS
<1>3. PICK P : P = Before(t, config, pc[t])  OBVIOUS
<1>4. At(t, {"rotate"}) /\ dueSeen' = "no" /\ UNCHANGED bounds
  BY DEF Rotate
<1>5. /\ Control /\ Server /\ StoreOK(api) /\ config \in Configs /\ s \in Steps(t, config)
      /\ s.op = "rotate" /\ WellFormed(s) /\ Proper(t, config, s)
  BY <1>1, <1>2, <1>3, <1>4, Where DEF Server
<1>6. Makes(s) = {grpc} /\ grpc \in Objects
  <2>1. Makes(s) = {grpc}
    BY <1>5 DEF WellFormed, Proper, Makes, AllWrites
  <2> QED  BY <1>5, <2>1, StepIs
<1>7. grpc \notin Copies \cup Htpasswd \cup {datasources} /\ grpc \notin Removable(config)
      /\ grpc \in Triggers /\ grpc \notin Incomplete
  <2>1. grpc \in Triggers  BY DEF Triggers
  <2> QED  BY <1>5, <1>6, <2>1, OthersAreApart DEF Proper
<1>8. PICK g : g = Seen(t, grpc)  OBVIOUS
<1>9. PICK new \in BOOLEAN : new <=> (g = 0 \/ dueSeen # "no")  OBVIOUS
<1>10. UNCHANGED <<changes, deletions>> /\ faults' \in Nat
  BY <1>4, <1>5 DEF bounds, Control
<1>11. \/ /\ Contents(grpc) = IF g = 0 THEN {} ELSE {g}
          /\ api' = With(api, grpc, IF new THEN g + 1 ELSE g)
          /\ due' = IF new THEN "no" ELSE due
          /\ pending' = (pending \/ new)
          /\ Goes(t, {}) /\ UNCHANGED mounted
       \/ Stops(t) /\ UNCHANGED clusterVars
  BY <1>8, <1>9 DEF Rotate
<1>12. CASE /\ Contents(grpc) = IF g = 0 THEN {} ELSE {g}
            /\ api' = With(api, grpc, IF new THEN g + 1 ELSE g)
            /\ due' = IF new THEN "no" ELSE due
            /\ pending' = (pending \/ new)
            /\ Goes(t, {}) /\ UNCHANGED mounted
  <2>1. PICK x : x = IF new THEN g + 1 ELSE g  OBVIOUS
  <2>2. g = 0 \/ <<grpc, g>> \in api
    BY <1>5, <1>12, ContentsAre
  <2>3. <<grpc, g>>[1] = grpc /\ <<grpc, g>>[2] = g  OBVIOUS
  <2>4. g \in Nat
    BY <1>5, <2>2, <2>3 DEF StoreOK
  <2>5. x \in Nat \ {0}
    BY <1>9, <2>1, <2>4
  <2>6. changes = 0 => x = 1
    <3> SUFFICES ASSUME changes = 0 PROVE x = 1
      OBVIOUS
    <3>1. dueSeen = "no"  BY <1>5 DEF Server
    <3>2. CASE g = 0  BY <1>9, <2>1, <3>2
    <3>3. CASE g # 0
      <4>1. g = 1  BY <1>5, <2>2, <2>3, <3>3 DEF StoreOK
      <4> QED  BY <1>9, <2>1, <3>1, <3>3, <4>1
    <3> QED  BY <3>2, <3>3
  <2>7. StoreOK(With(api, grpc, x)) /\ api' = With(api, grpc, x)
    BY <1>5, <1>6, <1>7, <1>12, <2>1, <2>5, <2>6, WithOK
  <2>8. Server'
    <3>1. DOMAIN mounted' = Workloads /\ \A w \in Workloads \ {grpc} : mounted'[w] = mounted[w]
      BY <1>5, <1>12 DEF Server
    <3>2. due' \in {due, "no"}
      BY <1>12
    <3> QED  BY <1>4, <1>5, <1>10, <2>7, <3>1, <3>2, WithServer
  <2>9. ~pending' => ~pending /\ <<grpc, x>> \in api
    BY <1>9, <1>12, <2>1, <2>2
  <2>10. config' = config /\ pending' \in BOOLEAN
    BY <1>9, <1>12 DEF Goes
  <2>11. ASSUME NEW u \in Tasks, NEW y PROVE Undisturbed(u, y)
    BY <1>5, <1>7, <1>10, <1>12, <2>7, <2>9, <2>10, WithUndisturbed
  <2>12. Did(v, s)'
    <3>1. grpc \in Names(api')
      <4>1. Names(With(api, grpc, x)) = Names(api) \cup {grpc}  BY WithIs
      <4> QED  BY <2>7, <4>1
    <3> QED  BY <1>5, <1>6, <3>1 DEF Did
  <2> QED  BY <1>1, <1>2, <1>4, <1>12, <2>7, <2>8, <2>10, <2>11, <2>12, WithStep
<1>13. CASE Stops(t) /\ UNCHANGED clusterVars
  <2>1. config' = config /\ pending' = TRUE
    BY <1>13 DEF Stops
  <2>2. \A u, y : Undisturbed(u, y)
    BY <1>10, <1>13, <2>1, QuietUndisturbed
  <2>3. Server'
    BY <1>4, <1>5, <1>10, <1>13, ServerStays
  <2> QED  BY <1>10, <1>13, <2>2, <2>3, Stopping
<1> QED  BY <1>11, <1>12, <1>13

LEMMA FailsKeeps ==
    ASSUME Inv, NEW t \in Tasks, Fails(t)
    PROVE  Inv'
<1>1. Stops(t) /\ outcome[t] = "running" /\ UNCHANGED <<dueSeen, changes, deletions>> /\ faults' \in Nat
  BY DEF Fails, Inv, Control
<1>2. CASE step(t).op \in {"apply", "ensure", "remove"}
  <2>1. PICK k \in 0..Len(step(t).objs) : Stored(Done(t, Elements(SubSeq(step(t).objs, 1, k))))
    BY <1>2 DEF Fails
  <2>2. PICK D : D = Elements(SubSeq(step(t).objs, 1, k))  OBVIOUS
  <2>3. At(t, {"apply", "ensure", "remove"})
    BY <1>1, <1>2 DEF At
  <2>4. D \subseteq Objs(step(t))
    <3>1. PICK q : q = step(t).objs  OBVIOUS
    <3>2. q \in Seq(Objs(step(t)))
      BY <2>3, <3>1, Where DEF WellFormed
    <3>3. \A i \in DOMAIN SubSeq(q, 1, k) : SubSeq(q, 1, k)[i] \in Objs(step(t))
      BY <2>1, <3>1, <3>2
    <3> QED  BY <2>2, <3>1, <3>3 DEF Elements
  <2>5. StoreOK(Done(t, D)) /\ Spares(api, Done(t, D), Owned(t))
    BY <2>3, <2>4, DoneSpares, SparesMore
  <2> QED  BY <1>1, <2>1, <2>2, <2>5, StoredStop
<1>3. CASE step(t).op \in {"prune", "unhash"}
  <2>1. PICK S \in SUBSET Stale(t) : Stored(api \ S)
    BY <1>3 DEF Fails
  <2>2. At(t, {"prune", "unhash"})
    BY <1>1, <1>3 DEF At
  <2>3. StoreOK(api \ S) /\ Spares(api, api \ S, Owned(t))
    BY <2>1, <2>2, StaleSpares
  <2> QED  BY <1>1, <2>1, <2>3, StoredStop
<1>4. CASE step(t).op \notin {"apply", "ensure", "remove", "prune", "unhash"}
  <2>1. UNCHANGED clusterVars
    BY <1>4 DEF Fails
  <2>2. config' = config /\ pending' = TRUE
    BY <1>1 DEF Stops
  <2>3. \A u, v : Undisturbed(u, v)
    BY <1>1, <2>1, <2>2, QuietUndisturbed
  <2>4. Server'
    BY <1>1, <2>1, ServerStays DEF Inv
  <2> QED  BY <1>1, <2>3, <2>4, Stopping
<1> QED  BY <1>2, <1>3, <1>4

LEMMA RunTaskKeeps ==
    ASSUME Inv, NEW t \in Tasks, RunTask(t)
    PROVE  Inv'
BY WritesKeeps, AwaitKeeps, GetKeeps, DerefKeeps, CopyKeeps, PruneKeeps, UncopyKeeps, LoadKeeps,
   RotateKeeps, GenerateKeeps, DeriveKeeps, DeployKeeps, RolloutKeeps DEF RunTask

LEMMA BeginSyncKeeps ==
    ASSUME Inv, NEW c \in Configs, BeginSync(c)
    PROVE  Inv'
<1>1. /\ config' = c /\ pending' = FALSE /\ view' = view /\ dueSeen' = "no"
      /\ pc' = [t \in Tasks |-> 1] /\ outcome' = [t \in Tasks |-> "running"]
      /\ UNCHANGED clusterVars /\ UNCHANGED <<changes, deletions, faults>>
  BY DEF BeginSync, bounds
<1>2. \A t \in Tasks : view[t] = {}
  BY DEF BeginSync, Idle, Inv, Control
<1>3. Server'
  BY <1>1, ServerStays DEF Inv
<1>4. \A t \in Tasks : 1 \in DOMAIN Program(t, c) /\ Before(t, c, 1) = {}
  BY ProgramsAre, PassedNext
<1>5. Control'
  BY <1>1, <1>2, <1>4 DEF Inv, Control
<1>6. ASSUME NEW t \in Tasks PROVE TaskPart(t)'
  <2>1. Names({}) = {} /\ ReadBy({}) = {}
    BY DEF Names, ReadBy
  <2>2. TaskInv(t, {}, {})'
    BY <2>1 DEF TaskInv, Knows
  <2>3. outcome'[t] = "running" /\ view'[t] = {} /\ pc'[t] = 1
    BY <1>1, <1>2
  <2>4. Before(t, config, pc[t])' = {}
    BY <1>1, <1>4, <2>3 DEF Before
  <2>5. TaskInv(t, view[t], Before(t, config, pc[t]))'
    BY <2>2, <2>3, <2>4
  <2> QED  BY <2>3, <2>5 DEF TaskPart
<1> QED  BY <1>3, <1>5, <1>6 DEF Inv

\* A step of the cluster.
LEMMA ClusterStep ==
    ASSUME Inv, Server', \A u \in Tasks : \A v : Undisturbed(u, v), UNCHANGED <<pc, outcome, view>>,
           pending' \in BOOLEAN, changes' \in Nat, deletions' \in Nat, faults' \in Nat,
           config' = config
    PROVE  Inv'
<1>1. Control'
  BY DEF Inv, Control
<1>2. ASSUME NEW t \in Tasks PROVE TaskPart(t)'
  BY PartStays DEF Inv
<1> QED  BY <1>1, <1>2 DEF Inv

\* The cluster gives an object that is there, or that nobody removes, a content.
LEMMA WithCluster ==
    ASSUME Inv, NEW o \in Objects, NEW x \in Nat \ {0}, api' = With(api, o, x),
           o \notin Copies \cup Htpasswd \cup {datasources, grpc},
           o \in Names(api) \/ o \notin Removable(config),
           pending' \in BOOLEAN, ~pending' => ~pending /\ o \notin Triggers,
           changes' \in Nat, changes' = 0 => changes = 0,
           UNCHANGED <<mounted, due, syncVars, deletions, faults>>
    PROVE  Inv'
<1>1. /\ config' = config /\ pc' = pc /\ outcome' = outcome /\ view' = view /\ dueSeen' = dueSeen
      /\ deletions' \in Nat /\ faults' \in Nat /\ Server /\ StoreOK(api)
  BY DEF syncVars, Inv, Control, Server
<1>2. StoreOK(With(api, o, x))
  BY <1>1, WithOK
<1>3. Server'
  <2>1. DOMAIN mounted' = Workloads
    BY <1>1 DEF Server
  <2> QED  BY <1>1, <1>2, <2>1, WithServer
<1>4. ASSUME NEW u \in Tasks, NEW v PROVE Undisturbed(u, v)
  <2>1. ~pending' => ~pending /\ (o \in Triggers => <<o, x>> \in api)
    OBVIOUS
  <2>2. \A w \in Workloads \cap Owned(u) : mounted'[w] = mounted[w] \/ mounted'[w] = Mount(v, w)
    OBVIOUS
  <2>3. o \notin Copies \cup {datasources} /\ (deletions' = 0 => deletions = 0)
    OBVIOUS
  <2> QED  BY <1>1, <2>1, <2>2, <2>3, WithUndisturbed
<1> QED  BY <1>1, <1>3, <1>4, ClusterStep

LEMMA CompleteKeeps ==
    ASSUME Inv, NEW o \in Incomplete, Complete(o)
    PROVE  Inv'
<1>1. StoreOK(api) /\ pending \in BOOLEAN /\ changes \in Nat
  BY DEF Inv, Control, Server
<1>2. <<o, 0>> \in api
  BY DEF Complete
<1>3. 0 \in Contents(o)
  BY <1>1, <1>2, ContentsAre
<1>4. o \in Objects /\ o \in Names(api)
  BY <1>1, <1>3, ContentsAre
<1>5. o \notin Copies \cup Htpasswd \cup {datasources, grpc}
  BY OthersAreApart
<1>6. /\ api' = With(api, o, 1) /\ pending' = (pending \/ o \in Triggers)
      /\ UNCHANGED <<mounted, due, syncVars, changes, deletions, faults>>
  BY DEF Complete, bounds
<1>7. pending' \in BOOLEAN /\ (~pending' => ~pending /\ o \notin Triggers)
  BY <1>1, <1>6
<1>8. 1 \in Nat \ {0} /\ changes' \in Nat /\ (changes' = 0 => changes = 0)
  BY <1>1, <1>6
<1> QED  BY <1>4, <1>5, <1>6, <1>7, <1>8, WithCluster

LEMMA IssueServingCertKeeps ==
    ASSUME Inv, IssueServingCert
    PROVE  Inv'
<1>1. PICK o : o = "prometheus-adapter-tls"  OBVIOUS
<1>2. o \in Objects /\ o \in Triggers /\ o # grpc
  BY <1>1 DEF Objects, Triggers, grpc
<1>3. o \notin Copies \cup Htpasswd \cup {datasources, grpc} /\ o \notin Removable(config)
  <2>1. config \in Configurations
    BY KindsOfConfiguration DEF Inv, Control, Configurations
  <2> QED  BY <1>1, <1>2, <2>1, OthersAreApart
<1>4. o \notin Names(api) /\ api' = api \cup {<<o, 1>>} /\ pending' = TRUE
      /\ UNCHANGED <<mounted, due, syncVars, changes, deletions, faults>>
  BY <1>1 DEF IssueServingCert, bounds
<1>5. api' = With(api, o, 1)
  <2>1. Without(api, {o}) = api
    BY <1>4, NamesHave DEF Without
  <2> QED  BY <1>4, <2>1 DEF With
<1>6. changes \in Nat
  BY DEF Inv, Control
<1> QED  BY <1>2, <1>3, <1>4, <1>5, <1>6, WithCluster

LEMMA ChangedKeeps ==
    ASSUME Inv, NEW o \in Changing, Changed(o)
    PROVE  Inv'
<1>1. StoreOK(api) /\ pending \in BOOLEAN /\ changes \in Nat
  BY DEF Inv, Control, Server
<1>2. PICK x \in Contents(o) \ {0} : api' = With(api, o, x + 1)
  BY DEF Changed
<1>3. o \in Objects /\ o \in Names(api) /\ x \in Nat
  BY <1>1, <1>2, ContentsAre
<1>4. o \in Bundle \cup {"prometheus-adapter-tls"}
  BY ChangedByOthers DEF Bundle
<1>5. o \notin Copies \cup Htpasswd \cup {datasources, grpc}
  <2>1. o \in Incomplete \/ (o \in Triggers /\ o # grpc)
    BY <1>4 DEF Incomplete, Triggers, grpc
  <2> QED  BY <2>1, OthersAreApart
<1>6. /\ pending' = (pending \/ o \in Triggers) /\ changes' = changes + 1
      /\ UNCHANGED <<mounted, due, syncVars, deletions, faults>>
  BY DEF Changed, Change
<1>7. x + 1 \in Nat \ {0} /\ changes' \in Nat /\ changes' # 0
  BY <1>1, <1>3, <1>6
<1> QED  BY <1>1, <1>2, <1>3, <1>5, <1>6, <1>7, WithCluster

\* The gRPC certificates are to be replaced.
LEMMA DueKeeps ==
    ASSUME Inv, Change, due' \in {"age", "forced"}, pending' \in {pending, TRUE},
           UNCHANGED <<api, mounted, syncVars>>
    PROVE  Inv'
<1>1. /\ config' = config /\ pc' = pc /\ outcome' = outcome /\ view' = view /\ dueSeen' = dueSeen
      /\ changes' \in Nat /\ changes' # 0 /\ deletions' = deletions /\ deletions' \in Nat
      /\ faults' \in Nat /\ pending \in BOOLEAN
  BY DEF syncVars, Inv, Control, Change
<1>2. Names(api)' = Names(api)
  OBVIOUS
<1>3. Server'
  <2>1. StoreOK(api)'
    BY <1>1 DEF Inv, Server, StoreOK
  <2> QED  BY <1>1, <1>2, <2>1 DEF Inv, Server
<1>4. ASSUME NEW u \in Tasks, NEW v PROVE Undisturbed(u, v)
  BY <1>1, <1>2 DEF Undisturbed
<1> QED  BY <1>1, <1>3, <1>4, ClusterStep

LEMMA DeletedKeeps ==
    ASSUME Inv, NEW o, DeletedByOthers(o)
    PROVE  Inv'
<1>1. /\ deletions' = deletions + 1 /\ api' = Without(api, {o})
      /\ mounted' = [w \in Workloads |-> IF w = o THEN NoMount ELSE mounted[w]]
      /\ due' = (IF o = grpc THEN "no" ELSE due) /\ pending' = (pending \/ o \in Triggers)
      /\ UNCHANGED <<syncVars, changes, faults>>
  BY DEF DeletedByOthers
<1>2. /\ config' = config /\ pc' = pc /\ outcome' = outcome /\ view' = view /\ dueSeen' = dueSeen
      /\ changes' \in Nat /\ deletions' \in Nat /\ deletions' # 0 /\ faults' \in Nat
      /\ pending' \in BOOLEAN
  BY <1>1 DEF syncVars, Inv, Control
<1>3. api' \subseteq api /\ \A p \in api : p[1] # o => p \in api'
  BY <1>1 DEF Without
<1>4. Names(api') \subseteq Names(api) /\ Names(api) \subseteq Names(api') \cup {o}
  BY <1>3 DEF Names
<1>5. Server'
  <2>1. StoreOK(api)'
    BY <1>1, <1>2, <1>3 DEF Inv, Server, StoreOK
  <2>2. DOMAIN mounted' = Workloads /\ \A w \in Workloads : w \notin Names(api') => mounted'[w] = NoMount
    BY <1>1, <1>4 DEF Inv, Server
  <2> QED  BY <1>1, <1>2, <2>1, <2>2 DEF Inv, Server
<1>6. ASSUME NEW u \in Tasks, NEW v PROVE Undisturbed(u, v)
  BY <1>1, <1>2, <1>3, <1>4 DEF Undisturbed
<1> QED  BY <1>2, <1>5, <1>6, ClusterStep

LEMMA ClusterKeeps ==
    ASSUME Inv, Cluster
    PROVE  Inv'
<1>1. ASSUME AgeOut PROVE Inv'
  BY <1>1, DueKeeps DEF AgeOut
<1>2. ASSUME ForceRotate PROVE Inv'
  BY <1>2, DueKeeps DEF ForceRotate
<1> QED  BY <1>1, <1>2, CompleteKeeps, IssueServingCertKeeps, ChangedKeeps, DeletedKeeps DEF Cluster

LEMMA InitInv == Init => Inv
<1> SUFFICES ASSUME Init PROVE Inv
  OBVIOUS
<1>1. Control
  BY DEF Init, Control
<1>2. StoreOK(api)
  <2> DEFINE a == {<<o, 1>> : o \in Present}
  <2>1. ASSUME NEW p \in a PROVE p[1] \in Present /\ p[2] = 1 /\ p = <<p[1], 1>>
    <3>1. PICK o \in Present : p = <<o, 1>>  OBVIOUS
    <3> QED  BY <3>1
  <2>2. datasources \in Present => <<datasources, 1>> \in a
    OBVIOUS
  <2>3. api = a
    BY DEF Init
  <2> HIDE DEF a
  <2>4. a \subseteq Objects \X Nat
    BY <2>1 DEF Objects
  <2>5. \A p \in a : p[1] \in Htpasswd => <<datasources, p[2]>> \in a
    BY <2>1, <2>2, PasswordsAtFirst DEF Htpasswd, datasources
  <2> QED  BY <2>1, <2>3, <2>4, <2>5 DEF StoreOK
<1>3. Server
  BY <1>2 DEF Init, Server
<1>4. \A t \in Tasks : TaskPart(t)
  BY DEF Init, TaskPart
<1> QED  BY <1>1, <1>3, <1>4 DEF Inv

LEMMA NextInv == Inv /\ [Next]_vars => Inv'
<1> SUFFICES ASSUME Inv, [Next]_vars PROVE Inv'
  OBVIOUS
<1>1. CASE UNCHANGED vars
  <2>1. /\ UNCHANGED clusterVars /\ UNCHANGED <<config, pc, outcome, view, dueSeen, pending>>
        /\ UNCHANGED <<changes, deletions, faults>>
    BY <1>1 DEF vars, syncVars, bounds
  <2>2. \A u, v : Undisturbed(u, v)
    BY <2>1, QuietUndisturbed
  <2>3. Server'
    BY <2>1, ServerStays DEF Inv
  <2> QED  BY <2>1, <2>2, <2>3, ClusterStep DEF Inv, Control
<1>2. ASSUME NEW t \in Tasks, RunTask(t) \/ Timeout(t) \/ Fails(t) PROVE Inv'
  BY <1>2, RunTaskKeeps, TimeoutKeeps, FailsKeeps
<1> QED  BY <1>1, <1>2, BeginSyncKeeps, ClusterKeeps DEF Next

LEMMA Inductive == Spec => []Inv
BY InitInv, NextInv, PTL DEF Spec

-----------------------------------------------------------------------------
(* Theorems.                                                               *)

\* For any tasks and bounds: the objects in the cluster are objects of the tasks,
\* a workload that is gone has no pods, and a task that runs is at a step of its
\* program for the configuration of the sync and has read what the step is made
\* from, whatever others do and whichever calls fail (Run of the tasks, pkg/tasks).
THEOREM TypeCorrect == Spec => []TypeOK
<1>1. Inv => TypeOK
  <2> SUFFICES ASSUME Inv PROVE TypeOK
    OBVIOUS
  <2>1. Control /\ Server /\ StoreOK(api)
    BY DEF Inv, Server
  <2>2. ASSUME NEW t \in Tasks
        PROVE  IF outcome[t] = "running"
               THEN /\ pc[t] \in DOMAIN Programs[t][config]
                    /\ MadeFrom(Programs[t][config][pc[t]], config) \subseteq Names(view[t])
               ELSE pc[t] = 0 /\ view[t] = {}
    <3>1. Programs[t][config] = Program(t, config)
      BY <2>1, ProgramsAre DEF Control
    <3>2. ASSUME outcome[t] = "running"
          PROVE  MadeFrom(Program(t, config)[pc[t]], config) \subseteq Names(view[t])
      <4>1. config \in Configs /\ pc[t] \in DOMAIN Program(t, config)
        BY <2>1, <3>2 DEF Control
      <4>2. PICK s : s = Program(t, config)[pc[t]]  OBVIOUS
      <4>3. Prepared(config, s, Before(t, config, pc[t]))
        BY <4>1, <4>2, ProgramsAre, StepsAreInOrder
      <4>4. Names(view[t]) = ReadBy(Before(t, config, pc[t]))
        BY <3>2 DEF Inv, TaskPart, TaskInv, Knows
      <4>5. MadeFrom(s, config) \subseteq ReadBy(Before(t, config, pc[t]))
        BY <4>3 DEF MadeFrom, Prepared, datasources
      <4> QED  BY <4>2, <4>4, <4>5
    <3> QED  BY <2>1, <3>1, <3>2 DEF Control
  <2> QED  BY <2>1, <2>2 DEF TypeOK, Control, Server, StoreOK
<1> QED  BY <1>1, Inductive, PTL

\* For any tasks and bounds: the proxies accept the password that Grafana has, as
\* long as others delete nothing (GrafanaDatasources and the Htpasswd secrets of
\* tasks/grafana.go, prometheus.go and thanos_querier.go).
THEOREM PasswordIsAccepted == Spec => []PasswordAccepted
<1>1. Inv => PasswordAccepted
  <2> SUFFICES ASSUME Inv, deletions = 0, NEW h \in Htpasswd, NEW x \in Contents(h)
               PROVE  x \in Contents(datasources)
    BY DEF PasswordAccepted, Htpasswd, datasources
  <2>1. StoreOK(api)
    BY DEF Inv, Server
  <2>2. <<h, x>> \in api /\ <<h, x>>[1] = h /\ <<h, x>>[2] = x
    BY <2>1, ContentsAre
  <2>3. <<datasources, x>> \in api
    BY <2>1, <2>2 DEF StoreOK
  <2> QED  BY <2>1, <2>3, ContentsAre
<1> QED  BY <1>1, Inductive, PTL

\* For any tasks and bounds: the annotation that forces a rotation goes only with
\* the certificates it asks to replace (RotateGRPCSecret and the update with the
\* resource version that was read, tasks/clustermonitoringoperator.go).
THEOREM RotationIsHonoured == Spec => RotationHonoured
<1>1. ASSUME Inv, [Next]_vars, due = "forced", due' # "forced"
      PROVE  Contents(grpc)' # Contents(grpc)
  <2>1. StoreOK(api)
    BY <1>1 DEF Inv, Server
  <2>2. ~UNCHANGED vars
    BY <1>1 DEF vars, clusterVars
  <2>3. ASSUME NEW t \in Tasks, Rotate(t) PROVE Contents(grpc)' # Contents(grpc)
    <3>1. PICK g : g = Seen(t, grpc)  OBVIOUS
    <3>2. /\ Contents(grpc) = IF g = 0 THEN {} ELSE {g}
          /\ api' = With(api, grpc, g + 1)
      BY <1>1, <2>3, <3>1 DEF Rotate, clusterVars
    <3>3. g \in Nat
      <4>1. \A x \in Contents(grpc) : x \in Nat  BY <2>1, ContentsAre
      <4> QED  BY <3>2, <4>1
    <3>4. g + 1 \notin Contents(grpc)
      BY <3>2, <3>3
    <3>5. <<grpc, g + 1>> \in api' /\ <<grpc, g + 1>>[1] = grpc /\ <<grpc, g + 1>>[2] = g + 1
      BY <3>2 DEF With
    <3>6. g + 1 \in Contents(grpc)'
      BY <3>5 DEF Contents
    <3> QED  BY <3>4, <3>6
  <2>4. ASSUME NEW o, DeletedByOthers(o) PROVE Contents(grpc)' # Contents(grpc)
    <3>1. o = grpc /\ grpc \in Names(api) /\ api' = Without(api, {grpc})
      BY <1>1, <2>4 DEF DeletedByOthers
    <3>2. Contents(grpc) # {}
      BY <2>1, <3>1, ContentsAre
    <3>3. Contents(grpc)' = {}
      BY <3>1 DEF Contents, Without
    <3> QED  BY <3>2, <3>3
  <2>5. ASSUME NEW t \in Tasks, RunTask(t), ~Rotate(t) PROVE FALSE
    BY <1>1, <2>5 DEF RunTask, Writes, Await, Get, Deref, Copy, Prune, Uncopy, Load, Generate, Derive,
       Deploy, Rollout, Stored, clusterVars
  <2>6. ASSUME NEW t \in Tasks, Timeout(t) \/ Fails(t) PROVE FALSE
    BY <1>1, <2>6 DEF Timeout, Fails, Stored, clusterVars
  <2>7. ASSUME NEW c, BeginSync(c) PROVE FALSE
    BY <1>1, <2>7 DEF BeginSync, clusterVars
  <2>8. ASSUME NEW o, Complete(o) \/ Changed(o) PROVE FALSE
    BY <1>1, <2>8 DEF Complete, Changed
  <2>9. ASSUME IssueServingCert \/ AgeOut \/ ForceRotate PROVE FALSE
    BY <1>1, <2>9 DEF IssueServingCert, AgeOut, ForceRotate
  <2> QED  BY <1>1, <2>2, <2>3, <2>4, <2>5, <2>6, <2>7, <2>8, <2>9 DEF Next, Cluster
<1>2. Inv /\ [Next]_vars
        => [due = "forced" /\ due' # "forced" => Contents(grpc)' # Contents(grpc)]_vars
  BY <1>1
<1> QED  BY <1>2, Inductive, PTL DEF Spec, RotationHonoured

\* What is known of the steps of a task that has succeeded.
LEMMA SucceededDid ==
    ASSUME Inv, Succeeded, NEW t \in Tasks
    PROVE  \E v : TaskInv(t, v, Steps(t, config))
BY DEF Inv, Succeeded, TaskPart

\* A step of a program, and what was done before it.
LEMMA StepIndex ==
    ASSUME NEW t \in Tasks, NEW c \in Configs, NEW s \in Steps(t, c)
    PROVE  \E i \in DOMAIN Program(t, c) :
              /\ s = Program(t, c)[i]
              /\ Before(t, c, i) \subseteq Steps(t, c) /\ Prepared(c, s, Before(t, c, i))
<1>1. PICK i \in DOMAIN Program(t, c) : s = Program(t, c)[i]
  BY DEF Steps, Elements
<1>2. Before(t, c, i) \subseteq Steps(t, c)
  BY PassedNext
<1>3. Prepared(c, s, Before(t, c, i))
  BY <1>1, ProgramsAre, StepsAreInOrder
<1> QED  BY <1>1, <1>2, <1>3

LEMMA ObjectsOfStep ==
    ASSUME NEW c \in Configs, NEW ops, NEW o \in ObjectsOf(ops, c)
    PROVE  \E t \in Tasks : \E s \in Steps(t, c) : s.op \in ops /\ o \in Objs(s)
<1>1. PICK s \in StepsOf(c) : s.op \in ops /\ o \in {s.objs[i] : i \in DOMAIN s.objs}
  BY DEF ObjectsOf
<1>2. PICK t \in Tasks : s \in {Programs[t][c][i] : i \in DOMAIN Programs[t][c]}
  BY DEF StepsOf
<1>3. Programs[t][c] = Program(t, c)
  BY ProgramsAre
<1>4. s \in Steps(t, c)
  BY <1>2, <1>3 DEF Steps, Elements
<1> QED  BY <1>1, <1>4 DEF Objs, Elements

\* A workload is deployed by a task, with some configuration.
LEMMA WorkloadIsDeployed ==
    ASSUME NEW w \in Workloads
    PROVE  /\ w \in AllWorkloads
           /\ \E c \in Configs, t \in Tasks : Has(Steps(t, c), "deploy", w)
<1>1. PICK c \in Configs : w \in ObjectsOf({"deploy"}, c)
  BY DEF Workloads
<1>2. PICK t \in Tasks : \E s \in Steps(t, c) : s.op = "deploy" /\ w \in Objs(s)
  BY <1>1, ObjectsOfStep
<1> PICK s \in Steps(t, c) : s.op = "deploy" /\ w \in Objs(s)
  BY <1>2
<1>3. s.objs[1] = w
  BY StepIs DEF WellFormed
<1>4. Rounded(c, Steps(t, c))
  BY ProgramsAre, StepsAreRounded
<1> QED  BY <1>3, <1>4 DEF Has, Rounded

\* For any tasks and bounds: after a sync that succeeded every pod can be started
\* again, whatever failed before and however configuration and certificates
\* changed, as long as others delete nothing (the order of copies, deployments and
\* prunes in create and destroy of the tasks, pkg/tasks).
THEOREM PodsAreRestartable == Spec => []Restartable
<1>1. Inv => Restartable
  <2> SUFFICES ASSUME Inv, Succeeded, deletions = 0, NEW w \in Workloads
               PROVE  Startable(w)
    BY DEF Restartable
  <2>1. config \in Configs /\ Server
    BY DEF Inv, Control
  <2>2. CASE w \notin Names(api)
    <3>1. mounted[w] = NoMount
      BY <2>1, <2>2 DEF Server
    <3> QED  BY <3>1 DEF Startable, NoMount
  <2>3. CASE w \in Names(api)
    <3>1. w \in AllWorkloads
      BY WorkloadIsDeployed
    <3>2. PICK d \in Configs, t \in Tasks : Has(Steps(t, d), "deploy", w)
      BY WorkloadIsDeployed
    <3>3. PICK v : TaskInv(t, v, Steps(t, config))
      BY SucceededDid
    <3>4. \/ Has(Steps(t, config), "deploy", w)
          \/ \E s \in Steps(t, config) : s.op = "remove" /\ w \in Objs(s)
      <4>1. t \in AllTasks /\ config \in Configurations /\ d \in Configurations
        BY <2>1, ProgramsAre
      <4> QED  BY <3>1, <3>2, <4>1, StepsUndoOthers
    <3>5. ~\E s \in Steps(t, config) : s.op = "remove" /\ w \in Objs(s)
      BY <2>3, <3>3 DEF TaskInv, Did
    <3>6. PICK s \in Steps(t, config) : s.op = "deploy" /\ s.objs[1] = w
      BY <3>4, <3>5 DEF Has
    <3>7. mounted[w] = Mount(v, w)
      BY <3>3, <3>6 DEF TaskInv, Did
    <3>8. PodsOf(w, config.etcd).objects \subseteq Names(api)
      <4>1. Rounded(config, Steps(t, config))
        BY <2>1, ProgramsAre, StepsAreRounded
      <4>2. PICK r \in Steps(t, config) : r.op = "rollout" /\ r.objs[1] = w
        BY <3>6, <4>1 DEF Rounded, Has
      <4> QED  BY <3>3, <4>2 DEF TaskInv, Did
    <3>9. ASSUME NEW h \in PodsOf(w, config.etcd).copies PROVE CopyIn(v, h) \in api
      <4>1. PICK P : P \subseteq Steps(t, config) /\ Prepared(config, s, P)
        BY <2>1, StepIndex
      <4>2. PICK r \in P : r.op = "copy" /\ r.objs[1] = h
        BY <3>6, <3>9, <4>1 DEF Prepared, Has
      <4> QED  BY <3>3, <4>1, <4>2 DEF TaskInv, Did
    <3> QED  BY <3>7, <3>8, <3>9 DEF Startable, Mount
  <2> QED  BY <2>2, <2>3
<1> QED  BY <1>1, Inductive, PTL

\* For any tasks and bounds: after a sync that succeeded nothing but the leftovers
\* remains of what the configuration disables (destroy of the user workload tasks
\* and of the telemeter client, pkg/tasks).
THEOREM DisabledPartsAreGone == Spec => []DisabledIsGone
<1>1. Inv => DisabledIsGone
  <2> SUFFICES ASSUME Inv, Succeeded, NEW c \in Configs,
                      NEW o \in Names(api), o \in ObjectsOf(AllWrites, c)
               PROVE  o \in ObjectsOf(AllWrites, config) \cup Leftovers
    BY DEF DisabledIsGone
  <2>1. config \in Configs
    BY DEF Inv, Control
  <2>2. PICK t \in Tasks : \E s \in Steps(t, c) : s.op \in AllWrites /\ o \in Objs(s)
    BY ObjectsOfStep
  <2>3. o \in MadeBy(Steps(t, c))
    BY <2>2 DEF MadeBy, Makes
  <2>4. o \in MadeBy(Steps(t, config)) \cup RemovedBy(Steps(t, config)) \cup NeverRemoved
    <3>1. t \in AllTasks /\ c \in Configurations /\ config \in Configurations
      BY <2>1, ProgramsAre
    <3> QED  BY <2>3, <3>1, StepsUndoOthers
  <2>5. CASE o \in MadeBy(Steps(t, config))
    <3>1. PICK r \in Steps(t, config) : o \in Makes(r)
      BY <2>5 DEF MadeBy
    <3>2. r \in StepsOf(config)
      BY <2>1, StepIs
    <3>3. r.op \in AllWrites /\ o \in {r.objs[i] : i \in DOMAIN r.objs}
      BY <3>1 DEF Makes, Objs, Elements
    <3> QED  BY <3>2, <3>3 DEF ObjectsOf
  <2>6. CASE o \in RemovedBy(Steps(t, config))
    <3>1. PICK r \in Steps(t, config) : o \in Removes(r)
      BY <2>6 DEF RemovedBy
    <3>2. PICK v : TaskInv(t, v, Steps(t, config))
      BY SucceededDid
    <3>3. r.op = "uncopy" /\ o \in Objs(r)
      BY <3>1, <3>2 DEF Removes, TaskInv, Did
    <3>4. WellFormed(r) /\ Proper(t, config, r)
      BY <2>1, StepIs
    <3>5. o = r.objs[1] /\ o \in GrpcCopies
      BY <3>3, <3>4 DEF WellFormed, Proper
    <3>6. changes # 0
      BY <3>2, <3>3, <3>5 DEF TaskInv, Did
    <3> QED  BY <3>5, <3>6 DEF Leftovers
  <2> QED  BY <2>4, <2>5, <2>6 DEF Leftovers
<1> QED  BY <1>1, Inductive, PTL

\* For any tasks and bounds: when no sync is due there is one copy of certificates
\* and bundles for each of their users, of the present ones, and the users mount it
\* (the hashed secrets and config maps of pkg/tasks, and the handlers of
\* operator.go that make a sync due).
THEOREM CopiesStayCurrent == Spec => []CopiesAreCurrent
<1>1. Inv => CopiesAreCurrent
  <2> SUFFICES ASSUME Inv, Succeeded, ~pending, deletions = 0, NEW h \in Tracked
               PROVE  /\ Contents(h) = Contents(SourceOf(h))
                      /\ \A w \in Workloads : h \in PodsOf(w, config.etcd).copies =>
                            {p \in mounted[w].copies : p[1] = h} = {h} \X Contents(SourceOf(h))
    BY DEF CopiesAreCurrent
  <2>1. config \in Configs /\ StoreOK(api)
    BY DEF Inv, Control, Server
  <2>2. h \in ObjectsOf({"copy"}, config) /\ SourceOf(h) \in Triggers
    BY DEF Tracked
  <2>3. PICK t \in Tasks : \E s \in Steps(t, config) : s.op \in {"copy"} /\ h \in Objs(s)
    BY <2>1, <2>2, ObjectsOfStep
  <2>4. PICK s \in Steps(t, config) : s.op = "copy" /\ h \in Objs(s)
    BY <2>3
  <2>5. s.objs[1] = h /\ t # Replacing
    BY <2>1, <2>4, StepIs DEF WellFormed, Proper
  <2>6. PICK v : TaskInv(t, v, Steps(t, config))
    BY SucceededDid
  <2>7. SourceOf(h) \in ReadBy(Steps(t, config))
    <3>1. PICK P : P \subseteq Steps(t, config) /\ Prepared(config, s, P)
      BY <2>1, StepIndex
    <3>2. SourceOf(h) \in ReadBy(P)
      BY <2>4, <2>5, <3>1 DEF Prepared
    <3> QED  BY <3>1, <3>2 DEF ReadBy
  <2>8. PICK x : x = Of(v, SourceOf(h))  OBVIOUS
  <2>9. <<SourceOf(h), x>> \in v
    <3>1. Knows(t, v, Steps(t, config))
      BY <2>6 DEF TaskInv
    <3>2. PICK p \in v : p[1] = SourceOf(h) /\ x = p[2]
      BY <2>7, <2>8, <3>1, OfIs DEF Knows
    <3>3. p = <<p[1], p[2]>>
      BY <3>1, <3>2 DEF Knows
    <3> QED  BY <3>2, <3>3
  <2>10. Contents(SourceOf(h)) = {x}
    <3>1. <<SourceOf(h), x>>[1] = SourceOf(h)  OBVIOUS
    <3>2. <<SourceOf(h), x>> \in api
      BY <2>2, <2>5, <2>6, <2>9, <3>1 DEF TaskInv, Knows
    <3>3. SourceOf(h) \notin Copies
      BY <2>2, OthersAreApart
    <3>4. x \in Contents(SourceOf(h)) /\ \A y \in Contents(SourceOf(h)) : y = x
      BY <2>1, <3>2, <3>3, ContentsAre
    <3> QED  BY <3>4
  <2>11. CopyIn(v, h) = <<h, x>>
    BY <2>8 DEF CopyIn
  <2>12. Rounded(config, Steps(t, config))
    BY <2>1, ProgramsAre, StepsAreRounded
  <2>13. Contents(h) = {x}
    <3>1. <<h, x>> \in api
      BY <2>4, <2>5, <2>6, <2>11 DEF TaskInv, Did
    <3>2. PICK r \in Steps(t, config) : r.op = "prune" /\ r.objs[1] = h
      BY <2>4, <2>5, <2>12 DEF Rounded, Has
    <3>3. \A p \in api : p[1] = h => p = <<h, x>>
      BY <2>6, <2>11, <3>2 DEF TaskInv, Did
    <3>4. <<h, x>>[2] = x  OBVIOUS
    <3>5. x \in Contents(h)
      BY <2>1, <3>1, ContentsAre
    <3> QED  BY <3>3, <3>4, <3>5 DEF Contents
  <2>14. ASSUME NEW w \in Workloads, h \in PodsOf(w, config.etcd).copies
         PROVE  {p \in mounted[w].copies : p[1] = h} = {h} \X {x}
    <3>1. w \in AllWorkloads
      BY WorkloadIsDeployed
    <3>2. PICK r \in Steps(t, config) : r.op = "deploy" /\ r.objs[1] = w
      BY <2>4, <2>5, <2>12, <2>14, <3>1 DEF Rounded, Has
    <3>3. mounted[w] = Mount(v, w)
      BY <2>6, <3>2 DEF TaskInv, Did
    <3>4. mounted[w].copies = {CopyIn(v, k) : k \in PodsOf(w, config.etcd).copies}
      BY <3>3 DEF Mount
    <3>5. \A k : CopyIn(v, k)[1] = k
      BY DEF CopyIn
    <3>6. {p \in mounted[w].copies : p[1] = h} = {<<h, x>>}
      BY <2>11, <2>14, <3>4, <3>5
    <3>7. {h} \X {x} = {<<h, x>>}
      OBVIOUS
    <3> QED  BY <3>6, <3>7
  <2> QED  BY <2>10, <2>13, <2>14
<1> QED  BY <1>1, Inductive, PTL

-----------------------------------------------------------------------------
(* No task waits in vain.                                                  *)

\* A task that waits, while nothing is to be completed, waits for an object that
\* is not there and that it does not make itself.
LEMMA BlockedLacks ==
    ASSUME Inv, deletions = 0, \A o \in Incomplete : <<o, 0>> \notin api, NEW t \in Tasks, Blocked(t)
    PROVE  \E o \in Lacks(config, step(t), Before(t, config, pc[t])) : o \notin Names(api)
<1>1. PICK v : v = view[t]  OBVIOUS
<1>2. PICK P : P = Before(t, config, pc[t])  OBVIOUS
<1>3. PICK s : s = step(t)  OBVIOUS
<1>4. At(t, {"await", "rollout"})
  BY DEF Blocked, At
<1>5. /\ Control /\ StoreOK(api) /\ config \in Configs /\ s.op \in {"await", "rollout"}
      /\ pc[t] \in DOMAIN Program(t, config)
      /\ object(t) = s.objs[1] /\ P \subseteq Steps(t, config) /\ TaskInv(t, v, P)
      /\ Proper(t, config, s) /\ Prepared(config, s, P) /\ s.objs[1] \in Objs(s)
  BY <1>1, <1>2, <1>3, <1>4, Where DEF Server
<1>6. MadeBy(P) \subseteq Names(api)
  <2>1. \A r \in P : Makes(r) \subseteq Names(api)
    BY <1>5 DEF TaskInv, Did
  <2> QED  BY <2>1 DEF MadeBy
<1>7. ASSUME NEW p \in api, p[2] = 0 PROVE p[1] \in Copies
  <2>1. p = <<p[1], 0>>
    BY <1>5, <1>7 DEF StoreOK
  <2>2. p[1] \notin Incomplete
    BY <1>7, <2>1
  <2>3. p[1] \notin Htpasswd
    <3> SUFFICES ASSUME p[1] \in Htpasswd PROVE FALSE
      OBVIOUS
    <3>1. <<datasources, 0>> \in api
      BY <1>5, <1>7 DEF StoreOK
    <3>2. <<datasources, 0>>[1] = datasources /\ <<datasources, 0>>[2] = 0  OBVIOUS
    <3> QED  BY <1>5, <3>1, <3>2, OthersAreApart DEF StoreOK
  <2> QED  BY <1>5, <1>7, <2>2, <2>3 DEF StoreOK
<1>8. CASE s.op = "await"
  <2>1. PICK o : o = s.objs[1]  OBVIOUS
  <2>2. Contents(o) \ {0} = {} /\ o \notin Copies
    BY <1>3, <1>5, <1>8, <2>1 DEF Blocked, At, Proper
  <2>3. o \notin Names(api)
    <3> SUFFICES ASSUME NEW p \in api, p[1] = o PROVE FALSE
      BY DEF Names
    <3>1. p[2] \in Contents(o)
      BY DEF Contents
    <3> QED  BY <1>7, <2>2, <3>1
  <2>4. o \in Lacks(config, s, P)
    BY <1>5, <1>6, <1>8, <2>1, <2>3 DEF Lacks
  <2> QED  BY <1>2, <1>3, <2>3, <2>4
<1>9. CASE s.op = "rollout"
  <2>1. PICK w : w = s.objs[1]  OBVIOUS
  <2>2. ~Startable(w)
    BY <1>3, <1>5, <1>9, <2>1 DEF Blocked, At
  <2>3. PICK r \in P : r.op = "deploy" /\ r.objs[1] = w
    BY <1>5, <1>9, <2>1 DEF Prepared, Has
  <2>4. mounted[w] = Mount(v, w)
    BY <1>5, <2>3 DEF TaskInv, Did
  <2>5. ASSUME NEW h \in PodsOf(w, config.etcd).copies PROVE CopyIn(v, h) \in api
    <3>1. PICK j \in 1..(pc[t] - 1) : r = Program(t, config)[j]
      BY <1>2, <2>3 DEF Before
    <3>2. j \in DOMAIN Program(t, config) /\ 1..(j - 1) \subseteq 1..(pc[t] - 1)
      BY <1>5, ProgramsAre
    <3>3. Before(t, config, j) \subseteq P
      BY <1>2, <3>2 DEF Before
    <3>4. Prepared(config, r, Before(t, config, j))
      BY <1>5, <3>1, <3>2, ProgramsAre, StepsAreInOrder
    <3>5. PICK q \in P : q.op = "copy" /\ q.objs[1] = h
      BY <2>3, <2>5, <3>3, <3>4 DEF Prepared, Has
    <3> QED  BY <1>5, <3>5 DEF TaskInv, Did
  <2>6. PICK o \in PodsOf(w, config.etcd).objects : o \notin Names(api)
    BY <2>2, <2>4, <2>5 DEF Startable, Mount
  <2>7. o \in Lacks(config, s, P)
    BY <1>6, <1>9, <2>1, <2>6 DEF Lacks
  <2> QED  BY <1>2, <1>3, <2>6, <2>7
<1> QED  BY <1>5, <1>8, <1>9

\* What a task provides is there when the task has succeeded, or waits.
LEMMA ProviderDid ==
    ASSUME Inv, deletions = 0, NEW u \in Tasks, NEW o, Provides(u, config, o),
           outcome[u] = "ok"
             \/ (outcome[u] = "running" /\ Lacks(config, step(u), Before(u, config, pc[u])) # {})
    PROVE  o \in Names(api)
<1>1. config \in Configs /\ Control
  BY DEF Inv, Control
<1>2. PICK k \in DOMAIN Program(u, config) :
         /\ o \in Makes(Program(u, config)[k])
         /\ \A j \in 1..k : Lacks(config, Program(u, config)[j], Before(u, config, j)) = {}
  BY DEF Provides
<1>3. DOMAIN Program(u, config) = 1..Len(Program(u, config)) /\ Len(Program(u, config)) \in Nat
      /\ Program(u, config)[k] \in Steps(u, config)
  BY <1>1, <1>2, ProgramsAre
<1>4. CASE outcome[u] = "ok"
  <2>1. PICK v : TaskInv(u, v, Steps(u, config))
    BY <1>4 DEF Inv, TaskPart
  <2> QED  BY <1>2, <1>3, <2>1 DEF TaskInv, Did
<1>5. CASE outcome[u] = "running" /\ Lacks(config, step(u), Before(u, config, pc[u])) # {}
  <2>1. pc[u] \in DOMAIN Program(u, config) /\ step(u) = Program(u, config)[pc[u]]
    BY <1>1, <1>5, StepAt
  <2>2. pc[u] \notin 1..k
    BY <1>2, <1>5, <2>1
  <2>3. k \in 1..(pc[u] - 1)
    BY <1>2, <1>3, <2>1, <2>2
  <2>4. Program(u, config)[k] \in Before(u, config, pc[u])
    BY <2>3 DEF Before
  <2>5. TaskInv(u, view[u], Before(u, config, pc[u]))
    BY <1>5 DEF Inv, TaskPart
  <2> QED  BY <1>2, <2>4, <2>5 DEF TaskInv, Did
<1> QED  BY <1>4, <1>5

\* For any tasks that provide what they wait for, and any bounds: in a sync in which
\* no task failed there is always a task that need not wait, or an object that the
\* cluster is to complete (WaitForSecret, WaitForRouteReady and the rollouts that
\* tasks wait for, pkg/tasks and client.go).
THEOREM WaitsAreServed ==
    ASSUME \A c \in Configs : Closed(Tasks, c)
    PROVE  Spec => []NoCircularWait
<1>1. Inv => NoCircularWait
  <2> SUFFICES ASSUME Inv, deletions = 0, NEW t \in Tasks, outcome[t] = "running",
                      \A u \in Tasks : outcome[u] # "failed",
                      \A o \in Incomplete : <<o, 0>> \notin api,
                      \A u \in Tasks : outcome[u] = "running" => Blocked(u)
               PROVE  FALSE
    BY DEF NoCircularWait, Idle
  <2>1. Control /\ config \in Configs
    BY DEF Inv, Control
  <2>2. PICK o \in Lacks(config, step(t), Before(t, config, pc[t])) : o \notin Names(api)
    BY BlockedLacks
  <2>3. pc[t] \in DOMAIN Program(t, config) /\ step(t) = Program(t, config)[pc[t]]
    BY <2>1, StepAt
  <2>4. PICK u \in Tasks : Provides(u, config, o)
    BY <2>1, <2>2, <2>3 DEF Closed
  <2>5. outcome[u] = "ok" \/ outcome[u] = "running"
    BY <2>1 DEF Control
  <2>6. outcome[u] = "running" => Lacks(config, step(u), Before(u, config, pc[u])) # {}
    BY BlockedLacks
  <2> QED  BY <2>2, <2>4, <2>5, <2>6, ProviderDid
<1> QED  BY <1>1, Inductive, PTL

\* The tasks that the operator runs, all of them, are such tasks: for any
\* configurations and bounds no task of theirs waits in vain (the tasks that sync
\* in operator.go passes to the task runner).
THEOREM AllTasksAreServed ==
    ASSUME Tasks = AllTasks
    PROVE  Spec => []NoCircularWait
<1>1. \A c \in Configs : Closed(Tasks, c)
  BY KindsOfConfiguration, AllTasksAreClosed DEF Configurations
<1> QED  BY <1>1, WaitsAreServed
=============================================================================
