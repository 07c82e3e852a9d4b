----------------------------- MODULE TaskOrder ------------------------------
(***************************************************************************)
(* What the tasks rely on in one another's steps and in the order of their  *)
(* own (pkg/tasks): nobody creates what another removes, hashed copies and  *)
(* workloads belong to one task, a task reads before it copies and copies   *)
(* before it deploys, and so on.                                            *)
(*                                                                         *)
(* The programs are fixed sequences, so these are statements without        *)
(* constants: evaluating them, as TLC does, decides them.  The proofs in    *)
(* TasksProofs use nothing else of the programs.                            *)
(***************************************************************************)
EXTENDS Tasks

Configurations == [userWorkload : BOOLEAN, telemeter : BOOLEAN, etcd : BOOLEAN]

datasources == "GrafanaDatasources"
Htpasswd == {"PrometheusK8sHtpasswdSecret", "ThanosQuerierHtpasswdSecret"}
Copies == GrpcCopies \cup {"PrometheusAdapterSecret"} \cup {b[2] : b \in Bundles}

\* The task that replaces the certificates, which copies and mounts nothing.
Replacing == "clusterMonitoringOperator"

-----------------------------------------------------------------------------
(* Steps and sets of steps.                                                *)

Steps(t, c) == Elements(Program(t, c))
Before(t, c, i) == {Program(t, c)[j] : j \in 1..(i - 1)}

Objs(s) == Elements(s.objs)
Reads(s) == IF s.op \in {"await", "get", "load"} THEN Objs(s) ELSE {}
Makes(s) == IF s.op \in AllWrites THEN Objs(s) ELSE {}
Removes(s) == IF s.op \in {"remove", "uncopy", "unhash"} THEN Objs(s) ELSE {}

ReadBy(S) == UNION {Reads(s) : s \in S}
MadeBy(S) == UNION {Makes(s) : s \in S}
RemovedBy(S) == UNION {Removes(s) : s \in S}

\* What a sync with configuration c removes.
Removable(c) == UNION {RemovedBy(Steps(t, c)) : t \in AllTasks}

\* The hashed copies and workloads of a task.
OwnedBy(S) ==
    UNION {Objs(s) : s \in {r \in S : r.op \in {"copy", "prune", "uncopy", "unhash", "deploy"}}}
Owned(t) == UNION {OwnedBy(Steps(t, c)) : c \in Configurations}

\* There is a step op for object o among S.
Has(S, op, o) == \E s \in S : s.op = op /\ s.objs[1] = o

-----------------------------------------------------------------------------
(* The steps by themselves.                                                *)

\* Only apply, ensure and remove have several objects.
WellFormed(s) ==
    /\ s.objs \in Seq(Objs(s))
    /\ s.op \in {"apply", "ensure", "remove"} \/ Objs(s) = {s.objs[1]}
    /\ s.objs # <<>>

\* The objects that steps of this kind may have in a sync with configuration c.
Proper(t, c, s) ==
    /\ Makes(s) \cap Removable(c) = {}
    /\ s.op = "apply" => Objs(s) \cap (Copies \cup Triggers \cup Htpasswd \cup {datasources}) = {}
    /\ s.op = "ensure" => Objs(s) \cap (Copies \cup Htpasswd \cup {grpc}) = {}
    /\ s.op = "remove" => Objs(s) \cap (Copies \cup Triggers \cup Htpasswd \cup {datasources}) = {}
    /\ s.op \in {"await", "get"} => s.objs[1] \notin Copies /\ t # Replacing
    /\ s.op = "load" => s.objs[1] = grpc /\ t = Replacing
    /\ s.op = "generate" => s.objs[1] = datasources
    /\ s.op = "derive" => s.objs[1] \in Htpasswd
    /\ s.op = "rotate" => s.objs[1] = grpc
    /\ s.op \in {"copy", "prune", "uncopy", "unhash"} => s.objs[1] \in Copies /\ t # Replacing
    /\ s.op = "uncopy" => s.objs[1] \in GrpcCopies
    /\ s.op = "deploy" =>
          s.objs[1] \notin Copies \cup Triggers \cup Htpasswd \cup {datasources} \cup Incomplete

ASSUME StepsAreProper ==
    \A t \in AllTasks, c \in Configurations :
        /\ Program(t, c) \in Seq(Steps(t, c)) /\ Program(t, c) # <<>>
        /\ \A s \in Steps(t, c) : WellFormed(s) /\ Proper(t, c, s)

\* A copy or a workload belongs to one task.
ASSUME OneOwner == \A t, u \in AllTasks : t # u => Owned(t) \cap Owned(u) = {}

\* What others change or issue, and the passwords, are not hashed copies, and the
\* issued certificate is removed by nobody.
ASSUME OthersAreApart ==
    /\ Copies \cap (Triggers \cup Incomplete \cup Htpasswd \cup {datasources}) = {}
    /\ Htpasswd \cap (Triggers \cup Incomplete) = {}
    /\ datasources \notin Triggers \cup Incomplete \cup Htpasswd
    /\ grpc \notin Incomplete
    /\ \A c \in Configurations : "prometheus-adapter-tls" \notin Removable(c)

-----------------------------------------------------------------------------
(* The order of the steps.                                                 *)

\* What step s needs of the steps P before it: an object is read once, and read
\* before something is made from it; the copies that pods mount are made before.
Prepared(c, s, P) ==
    /\ Reads(s) \cap ReadBy(P) = {}
    /\ s.op = "derive" => datasources \in ReadBy(P)
    /\ s.op = "rotate" => grpc \in ReadBy(P)
    /\ s.op \in {"copy", "prune", "uncopy"} => SourceOf(s.objs[1]) \in ReadBy(P)
    /\ s.op = "deploy" =>
          \A h \in PodsOf(s.objs[1], c.etcd).copies : Has(P, "copy", h) /\ SourceOf(h) \in ReadBy(P)
    /\ s.op = "rollout" => Has(P, "deploy", s.objs[1])

ASSUME StepsAreInOrder ==
    \A t \in AllTasks, c \in Configurations :
        \A i \in DOMAIN Program(t, c) : Prepared(c, Program(t, c)[i], Before(t, c, i))

\* What belongs to a copy and to a workload among the steps S of a task: the other
\* copies are pruned and all that mount it deployed; the rollout is awaited, and
\* what the pods mount is not removed.
AllWorkloads ==
    {"PrometheusOperatorDeployment", "PrometheusOperatorUserWorkloadDeployment",
     "GrafanaDeployment", "PrometheusK8s", "PrometheusUserWorkload", "AlertmanagerMain",
     "NodeExporterDaemonSet", "KubeStateMetricsDeployment", "OpenShiftStateMetricsDeployment",
     "PrometheusAdapterDeployment", "TelemeterClientDeployment", "ThanosQuerierDeployment",
     "ThanosRulerCustomResource"}

Rounded(c, S) ==
    \A s \in S :
        /\ s.op = "copy" =>
              /\ Has(S, "prune", s.objs[1])
              /\ \A w \in AllWorkloads :
                    s.objs[1] \in PodsOf(w, c.etcd).copies => Has(S, "deploy", w)
        /\ s.op = "deploy" =>
              /\ s.objs[1] \in AllWorkloads /\ Has(S, "rollout", s.objs[1])
              /\ PodsOf(s.objs[1], c.etcd).objects \cap (Removable(c) \cup Copies) = {}

ASSUME StepsAreRounded ==
    \A t \in AllTasks, c \in Configurations : Rounded(c, Steps(t, c))

\* What a task makes with one configuration it makes or removes with every other,
\* but for what is never removed; a workload it deploys or removes.
ASSUME StepsUndoOthers ==
    \A t \in AllTasks, c \in Configurations, d \in Configurations :
        /\ MadeBy(Steps(t, d)) \subseteq MadeBy(Steps(t, c)) \cup RemovedBy(Steps(t, c)) \cup NeverRemoved
        /\ \A w \in AllWorkloads :
              Has(Steps(t, d), "deploy", w) =>
                  \/ Has(Steps(t, c), "deploy", w)
                  \/ \E s \in Steps(t, c) : s.op = "remove" /\ w \in Objs(s)

-----------------------------------------------------------------------------
(* Who waits for whom.                                                     *)

\* What step s waits for that the steps P before it do not make.
Lacks(c, s, P) ==
    CASE s.op = "await" -> Objs(s) \ MadeBy(P)
      [] s.op = "rollout" -> PodsOf(s.objs[1], c.etcd).objects \ MadeBy(P)
      [] OTHER -> {}

\* Task u makes o before it waits for anything that others make.
Provides(u, c, o) ==
    \E k \in DOMAIN Program(u, c) :
        /\ o \in Makes(Program(u, c)[k])
        /\ \A j \in 1..k : Lacks(c, Program(u, c)[j], Before(u, c, j)) = {}

\* What the tasks T of a sync wait for, one of them provides.
Closed(T, c) ==
    \A t \in T : \A i \in DOMAIN Program(t, c) :
        \A o \in Lacks(c, Program(t, c)[i], Before(t, c, i)) : \E u \in T : Provides(u, c, o)

\* A sync of all tasks.
ASSUME AllTasksAreClosed == \A c \in Configurations : Closed(AllTasks, c)
=============================================================================
