------------------------------ MODULE MCTasks -------------------------------
(***************************************************************************)
(* Instances of Tasks for TLC.                                             *)
(***************************************************************************)
EXTENDS Tasks

Base == [userWorkload |-> FALSE, telemeter |-> FALSE, etcd |-> FALSE]

BaseOnly == {Base}
EtcdOnly == {[Base EXCEPT !.etcd = TRUE]}
UserWorkloadOnly == {[Base EXCEPT !.userWorkload = TRUE]}
OnAndOff == {Base, [userWorkload |-> TRUE, telemeter |-> TRUE, etcd |-> TRUE]}

\* The inputs that the cluster has from its installation.
Inputs ==
    {"CRDs", "kubelet-serving-ca", "etcd-metric-serving-ca", "etcd-metric-client",
     "extension-apiserver-authentication"}

\* A cluster where the first sync was interrupted once the bundles were there, and
\* the tasks that wait for what others create.
NewCluster ==
    Inputs \cup {"PrometheusOperatorDeployment", "GrafanaTrustedCABundle",
                 "ThanosQuerierTrustedCABundle", "PrometheusK8sTrustedCABundle"}
WaitingTasks == {"clusterMonitoringOperator", "grafana", "thanosQuerier", "prometheus"}

\* The certificates and two of their users.
RotationTasks == {"clusterMonitoringOperator", "thanosQuerier", "prometheusUserWorkload"}
RotationCluster ==
    Inputs \cup {"GrafanaDatasources", "PrometheusOperatorUserWorkloadDeployment",
                 "ThanosQuerierTrustedCABundle", "ThanosQuerierRoute"}

\* User workload monitoring, which can be disabled.
UserWorkloadTasks ==
    {"prometheusOperatorUserWorkload", "prometheusUserWorkload", "thanosRulerUserWorkload"}
UserWorkloadCluster == Inputs \cup {"ThanosQuerierRoute", grpc}

\* Tasks that copy what triggers a sync.
CopyingTasks == {"alertmanager", "prometheusAdapter", "telemeter"}
CopyingCluster ==
    Inputs \cup {"PrometheusK8sServingCertsCABundle", "PrometheusOperatorDeployment",
                 "AlertmanagerRoute"}

\* Tasks that read the querier's route without waiting for it, and the task that
\* creates it.  The other routes are there.
RouteTasks == {"thanosQuerier", "thanosRulerUserWorkload", "configSharing"}
RouteCluster ==
    Inputs \cup (Routes \ {"ThanosQuerierRoute"}) \cup
    {grpc, "GrafanaDatasources", "PrometheusOperatorUserWorkloadDeployment",
     "PrometheusUserWorkloadServingCertsCABundle", "ThanosQuerierTrustedCABundle",
     "ThanosRulerTrustedCABundle"}

\* Tasks that need nothing of the others.
LeafTasks == {"prometheusOperator", "nodeExporter", "kubeStateMetrics", "openshiftStateMetrics"}
=============================================================================
