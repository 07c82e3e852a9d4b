----------------------------- MODULE MCOperator -----------------------------
(***************************************************************************)
(* Instances of Operator for TLC.                                          *)
(***************************************************************************)
EXTENDS Operator

CONSTANTS kubeletCA, etcdCA

\* Two of the tasks: Prometheus reads the serving CA of the kubelets, without
\* which it fails and whose informer has an update handler only; the Thanos
\* querier reads nothing by itself here.  Config reads the CA of etcd, which no
\* event brings to the operator, and can do without it.
MCTasks == {"prometheus", "querier"}
MCReads == [t \in MCTasks |-> IF t = "prometheus" THEN {kubeletCA} ELSE {}]

MCContents ==
    [s \in Sources |-> CASE s = Config       -> {"absent", "invalid", "uwm"}
                         [] s = UserWorkload -> {"absent", "invalid", "null"}
                         [] OTHER            -> {"absent", "plain"}]

\* The operator comes into a cluster without configuration, or into one whose users
\* have written a null document.
MCInstalled ==
    {[s \in Sources |-> CASE s = kubeletCA -> "plain" [] OTHER -> "absent"],
     [s \in Sources |-> CASE s = kubeletCA -> "plain" [] s = Config -> "uwm"
                          [] s = UserWorkload -> "null" [] OTHER -> "absent"]}
MCCauses == MCTasks \cup {"InvalidConfiguration"}
=============================================================================
