---------------------------- MODULE TaskPrograms ----------------------------
(***************************************************************************)
(* What the tasks of a sync do, in which order (pkg/tasks): the calls that  *)
(* Run, or create and destroy, of each task makes to the API server.        *)
(*                                                                         *)
(* A task is a sequence of steps.  A step names what is done and the        *)
(* objects it is done to, which have the names of the methods of the        *)
(* Factory that make their manifests.  Calls in a row that do the same to   *)
(* objects that no other task uses are one step with several objects.       *)
(*                                                                         *)
(* A configuration tells apart what changes the steps: user workload        *)
(* monitoring, the telemeter client (enabled, and not replaced by remote    *)
(* write) and the monitoring of etcd.                                       *)
(***************************************************************************)
EXTENDS Sequences

Step(op, objs) == [op |-> op, objs |-> objs]

apply(objs) == Step("apply", objs)          \* CreateOrUpdate...
ensure(objs) == Step("ensure", objs)        \* CreateIfNotExist...
remove(objs) == Step("remove", objs)        \* Delete...
await(o) == Step("await", <<o>>)            \* WaitForSecret, WaitForRouteReady, poll of a bundle
get(o) == Step("get", <<o>>)                \* Get..., an error without the object
copy(h) == Step("copy", <<h>>)              \* apply the hashed copy of what was read
prune(h) == Step("prune", <<h>>)            \* DeleteHashed...: the other copies
uncopy(h) == Step("uncopy", <<h>>)          \* delete the hashed copy of what was read
unhash(h) == Step("unhash", <<h>>)          \* DeleteHashed... without a hash: every copy
deploy(w) == <<Step("deploy", <<w>>), Step("rollout", <<w>>)>>

grpc == "GRPCSecret"

-----------------------------------------------------------------------------
(* What the manifests say of the objects.                                  *)

GrpcCopies ==
    {"PrometheusK8sGrpcTLSSecret", "PrometheusUserWorkloadGrpcTLSSecret",
     "ThanosQuerierGrpcTLSSecret", "ThanosRulerGrpcTLSSecret"}

\* A CA bundle and the name of its hashed copies.
Bundles ==
    {<<"GrafanaTrustedCABundle", "GrafanaTrustedCA">>,
     <<"PrometheusK8sTrustedCABundle", "PrometheusK8sTrustedCA">>,
     <<"AlertmanagerTrustedCABundle", "AlertmanagerTrustedCA">>,
     <<"TelemeterTrustedCABundle", "TelemeterTrustedCA">>,
     <<"ThanosQuerierTrustedCABundle", "ThanosQuerierTrustedCA">>,
     <<"ThanosRulerTrustedCABundle", "ThanosRulerTrustedCA">>}

\* What a hashed copy is made from.
SourceOf(h) ==
    CASE h \in GrpcCopies -> grpc
      [] h = "PrometheusAdapterSecret" -> "prometheus-adapter-tls"
      [] OTHER -> (CHOOSE b \in Bundles : b[2] = h)[1]

Routes ==
    {"PrometheusK8sRoute", "AlertmanagerRoute", "GrafanaRoute", "ThanosQuerierRoute",
     "ThanosRulerRoute"}

\* What the pods of a workload mount or run as, and the hashed copies they mount.
Pods(objects, copies) == [objects |-> objects, copies |-> copies]

PrometheusOperatorDeployment ==
    Pods({"PrometheusOperatorServiceAccount", "PrometheusOperatorCertsCABundle"}, {})

PrometheusOperatorUserWorkloadDeployment ==
    Pods({"PrometheusOperatorUserWorkloadServiceAccount"}, {})

GrafanaDeployment ==
    Pods({"GrafanaServiceAccount", "GrafanaDatasources", "GrafanaConfig", "GrafanaProxySecret",
          "GrafanaDashboardDefinitions", "GrafanaDashboardSources"}, {"GrafanaTrustedCA"})

\* The client certificates of etcd only if they are to be used.
PrometheusK8s(etcd) ==
    Pods({"PrometheusK8sServiceAccount", "PrometheusK8sServingCertsCABundle",
          "PrometheusK8sKubeletServingCABundle", "PrometheusK8sProxySecret",
          "PrometheusK8sHtpasswdSecret", "PrometheusRBACProxySecret"}
         \cup (IF etcd THEN {"PrometheusK8sEtcdSecret"} ELSE {}),
         {"PrometheusK8sGrpcTLSSecret", "PrometheusK8sTrustedCA"})

PrometheusUserWorkload ==
    Pods({"PrometheusUserWorkloadServiceAccount", "PrometheusUserWorkloadServingCertsCABundle"},
         {"PrometheusUserWorkloadGrpcTLSSecret"})

AlertmanagerMain ==
    Pods({"AlertmanagerServiceAccount", "AlertmanagerConfig", "AlertmanagerProxySecret",
          "AlertmanagerRBACProxySecret"}, {"AlertmanagerTrustedCA"})

NodeExporterDaemonSet == Pods({"NodeExporterServiceAccount"}, {})
KubeStateMetricsDeployment == Pods({"KubeStateMetricsServiceAccount"}, {})
OpenShiftStateMetricsDeployment == Pods({"OpenShiftStateMetricsServiceAccount"}, {})

PrometheusAdapterDeployment ==
    Pods({"PrometheusAdapterServiceAccount", "PrometheusAdapterConfigMap",
          "PrometheusAdapterConfigMapPrometheus", "PrometheusK8sServingCertsCABundle"},
         {"PrometheusAdapterSecret"})

TelemeterClientDeployment ==
    Pods({"TelemeterClientServiceAccount", "TelemeterClientServingCertsCABundle",
          "TelemeterClientSecret"}, {"TelemeterTrustedCA"})

ThanosQuerierDeployment ==
    Pods({"ThanosQuerierServiceAccount", "ThanosQuerierOauthCookieSecret",
          "ThanosQuerierHtpasswdSecret", "ThanosQuerierRBACProxySecret",
          "ThanosQuerierRBACProxyRulesSecret"},
         {"ThanosQuerierGrpcTLSSecret", "ThanosQuerierTrustedCA"})

ThanosRulerCustomResource ==
    Pods({"ThanosRulerServiceAccount", "ThanosRulerOauthCookieSecret",
          "ThanosRulerQueryConfigSecret", "ThanosRulerAlertmanagerConfigSecret",
          "PrometheusUserWorkloadServingCertsCABundle"},
         {"ThanosRulerGrpcTLSSecret", "ThanosRulerTrustedCA"})

PodsOf(w, etcd) ==
    CASE w = "PrometheusOperatorDeployment" -> PrometheusOperatorDeployment
      [] w = "PrometheusOperatorUserWorkloadDeployment" -> PrometheusOperatorUserWorkloadDeployment
      [] w = "GrafanaDeployment" -> GrafanaDeployment
      [] w = "PrometheusK8s" -> PrometheusK8s(etcd)
      [] w = "PrometheusUserWorkload" -> PrometheusUserWorkload
      [] w = "AlertmanagerMain" -> AlertmanagerMain
      [] w = "NodeExporterDaemonSet" -> NodeExporterDaemonSet
      [] w = "KubeStateMetricsDeployment" -> KubeStateMetricsDeployment
      [] w = "OpenShiftStateMetricsDeployment" -> OpenShiftStateMetricsDeployment
      [] w = "PrometheusAdapterDeployment" -> PrometheusAdapterDeployment
      [] w = "TelemeterClientDeployment" -> TelemeterClientDeployment
      [] w = "ThanosQuerierDeployment" -> ThanosQuerierDeployment
      [] w = "ThanosRulerCustomResource" -> ThanosRulerCustomResource

\* The prometheus-operator without which a workload has no pods.
RunBy(w) ==
    CASE w \in {"PrometheusK8s", "AlertmanagerMain"} -> {"PrometheusOperatorDeployment"}
      [] w \in {"PrometheusUserWorkload", "ThanosRulerCustomResource"} ->
            {"PrometheusOperatorUserWorkloadDeployment"}
      [] OTHER -> {}

-----------------------------------------------------------------------------
(* Parts that several tasks share.                                         *)

\* A mutant: the copies of former certificates are kept.
copyGRPCKeepingOld(h) == <<await(grpc), copy(h)>>

\* The certificates of the gRPC connections, copied for one of their users.
copyGRPC(h) == <<await(grpc), copy(h), prune(h)>>

\* A mutant: the copies of former bundles are kept.
syncTrustedCABundleKeepingOld(bundle, h) == <<ensure(<<bundle>>), await(bundle), copy(h)>>

\* syncTrustedCABundle: the bundle is filled in by the network operator.
syncTrustedCABundle(bundle, h) == <<ensure(<<bundle>>), await(bundle), copy(h), prune(h)>>

-----------------------------------------------------------------------------
(* The tasks.                                                              *)

PrometheusOperatorTask ==
    <<ensure(<<"PrometheusOperatorCertsCABundle">>),
      apply(<<"PrometheusOperatorServiceAccount", "PrometheusOperatorClusterRole",
              "PrometheusOperatorClusterRoleBinding", "PrometheusOperatorService">>)>>
    \o deploy("PrometheusOperatorDeployment")
    \o <<get("CRDs"),
         apply(<<"PrometheusRuleValidatingWebhook", "PrometheusOperatorServiceMonitor">>)>>

PrometheusOperatorUserWorkloadCreate ==
    <<apply(<<"PrometheusOperatorUserWorkloadServiceAccount",
              "PrometheusOperatorUserWorkloadClusterRole",
              "PrometheusOperatorUserWorkloadClusterRoleBinding",
              "PrometheusOperatorUserWorkloadService">>)>>
    \o deploy("PrometheusOperatorUserWorkloadDeployment")
    \o <<get("CRDs"), apply(<<"PrometheusOperatorUserWorkloadServiceMonitor">>)>>

PrometheusOperatorUserWorkloadDestroy ==
    <<remove(<<"PrometheusOperatorUserWorkloadDeployment",
               "PrometheusOperatorUserWorkloadServiceMonitor",
               "PrometheusOperatorUserWorkloadService",
               "PrometheusOperatorUserWorkloadClusterRoleBinding",
               "PrometheusOperatorUserWorkloadClusterRole",
               "PrometheusOperatorUserWorkloadServiceAccount">>)>>

\* A mutant: certificates are never created.
ClusterMonitoringOperatorTaskReadOnly == <<Step("load", <<grpc>>)>>

\* The certificates are read, replaced when they are due, and written.
ClusterMonitoringOperatorTask ==
    <<apply(<<"ClusterMonitoringOperatorService", "ClusterMonitoringClusterRole",
              "ClusterMonitoringRulesEditClusterRole", "ClusterMonitoringRulesViewClusterRole",
              "ClusterMonitoringEditClusterRole", "ClusterMonitoringEditUserWorkloadConfigRole",
              "ClusterMonitoringOperatorServiceMonitor">>),
      Step("load", <<grpc>>), Step("rotate", <<grpc>>)>>

GrafanaTask ==
    <<apply(<<"GrafanaClusterRole", "GrafanaClusterRoleBinding">>),
      ensure(<<"GrafanaRoute">>), await("GrafanaRoute"),
      ensure(<<"GrafanaProxySecret">>), apply(<<"GrafanaConfig">>),
      Step("generate", <<"GrafanaDatasources">>),
      apply(<<"GrafanaDashboardDefinitions", "GrafanaDashboardSources", "GrafanaServiceAccount",
              "GrafanaService">>)>>
    \o syncTrustedCABundle("GrafanaTrustedCABundle", "GrafanaTrustedCA")
    \o deploy("GrafanaDeployment")
    \o <<apply(<<"GrafanaServiceMonitor">>)>>

\* Up to the etcd client certificates; then PrometheusResources.
PrometheusTask(etcd) ==
    <<ensure(<<"PrometheusK8sServingCertsCABundle">>), get("kubelet-serving-ca"),
      apply(<<"PrometheusK8sKubeletServingCABundle">>),
      ensure(<<"PrometheusK8sRoute">>), await("PrometheusK8sRoute"),
      ensure(<<"PrometheusK8sProxySecret">>), await("GrafanaDatasources"),
      Step("derive", <<"PrometheusK8sHtpasswdSecret">>), ensure(<<"PrometheusRBACProxySecret">>),
      apply(<<"PrometheusK8sServiceAccount", "PrometheusK8sClusterRole",
              "PrometheusK8sClusterRoleBinding", "PrometheusK8sRoleConfig",
              "PrometheusK8sRoleList", "PrometheusK8sRoleBindingList",
              "PrometheusK8sRoleBindingConfig", "PrometheusK8sRules", "PrometheusK8sService",
              "PrometheusK8sServiceThanosSidecar">>)>>
    \o IF etcd
       THEN <<get("etcd-metric-serving-ca"), get("etcd-metric-client"),
              apply(<<"PrometheusK8sEtcdSecret">>)>>
       ELSE <<>>

PrometheusResources(etcd) ==
    copyGRPC("PrometheusK8sGrpcTLSSecret")
    \o syncTrustedCABundle("PrometheusK8sTrustedCABundle", "PrometheusK8sTrustedCA")
    \o deploy("PrometheusK8s")
    \o <<apply(<<"PrometheusK8sKubeletServiceMonitor">>),
         IF etcd THEN apply(<<"PrometheusK8sEtcdServiceMonitor">>)
                 ELSE remove(<<"PrometheusK8sEtcdServiceMonitor">>),
         apply(<<"PrometheusK8sPrometheusServiceMonitor",
                 "PrometheusK8sThanosSidecarServiceMonitor">>),
         remove(<<"FormerServiceMonitors">>)>>

PrometheusUserWorkloadCreate ==
    <<ensure(<<"PrometheusUserWorkloadServingCertsCABundle">>),
      apply(<<"PrometheusUserWorkloadServiceAccount", "PrometheusUserWorkloadClusterRole",
              "PrometheusUserWorkloadClusterRoleBinding", "PrometheusUserWorkloadRoleConfig",
              "PrometheusUserWorkloadRoleList", "PrometheusUserWorkloadRoleBindingList",
              "PrometheusUserWorkloadRoleBindingConfig", "PrometheusUserWorkloadService",
              "PrometheusUserWorkloadServiceThanosSidecar">>)>>
    \o copyGRPC("PrometheusUserWorkloadGrpcTLSSecret")
    \o deploy("PrometheusUserWorkload")
    \o <<apply(<<"PrometheusUserWorkloadPrometheusServiceMonitor",
                 "PrometheusUserWorkloadThanosSidecarServiceMonitor">>)>>

PrometheusUserWorkloadDestroy ==
    <<remove(<<"PrometheusUserWorkloadThanosSidecarServiceMonitor",
               "PrometheusUserWorkloadPrometheusServiceMonitor">>),
      await(grpc), remove(<<"PrometheusUserWorkload">>),
      uncopy("PrometheusUserWorkloadGrpcTLSSecret"),
      remove(<<"PrometheusUserWorkloadService", "PrometheusUserWorkloadServiceThanosSidecar",
               "PrometheusUserWorkloadRoleBindingConfig", "PrometheusUserWorkloadRoleBindingList",
               "PrometheusUserWorkloadRoleList", "PrometheusUserWorkloadRoleConfig",
               "PrometheusUserWorkloadClusterRoleBinding", "PrometheusUserWorkloadClusterRole",
               "PrometheusUserWorkloadServiceAccount">>),
      remove(<<"PrometheusUserWorkloadServingCertsCABundle">>)>>

AlertmanagerTask ==
    <<ensure(<<"AlertmanagerRoute">>), await("AlertmanagerRoute"),
      ensure(<<"AlertmanagerConfig", "AlertmanagerRBACProxySecret">>),
      apply(<<"AlertmanagerClusterRole", "AlertmanagerClusterRoleBinding",
              "AlertmanagerServiceAccount">>),
      ensure(<<"AlertmanagerProxySecret">>), apply(<<"AlertmanagerService">>)>>
    \o syncTrustedCABundle("AlertmanagerTrustedCABundle", "AlertmanagerTrustedCA")
    \o deploy("AlertmanagerMain")
    \o <<apply(<<"AlertmanagerServiceMonitor">>)>>

NodeExporterTask ==
    <<apply(<<"NodeExporterSecurityContextConstraints", "NodeExporterServiceAccount",
              "NodeExporterClusterRole", "NodeExporterClusterRoleBinding",
              "NodeExporterService">>)>>
    \o deploy("NodeExporterDaemonSet")
    \o <<apply(<<"NodeExporterServiceMonitor">>)>>

KubeStateMetricsTask ==
    <<apply(<<"KubeStateMetricsServiceAccount", "KubeStateMetricsClusterRole",
              "KubeStateMetricsClusterRoleBinding", "KubeStateMetricsService">>)>>
    \o deploy("KubeStateMetricsDeployment")
    \o <<apply(<<"KubeStateMetricsServiceMonitor">>)>>

OpenShiftStateMetricsTask ==
    <<apply(<<"OpenShiftStateMetricsServiceAccount", "OpenShiftStateMetricsClusterRole",
              "OpenShiftStateMetricsClusterRoleBinding", "OpenShiftStateMetricsService">>)>>
    \o deploy("OpenShiftStateMetricsDeployment")
    \o <<apply(<<"OpenShiftStateMetricsServiceMonitor">>)>>

\* A mutant: the copies are pruned last, and without the hash of the one in use.
PrometheusAdapterTaskPruningLast ==
    <<apply(<<"PrometheusAdapterServiceAccount", "PrometheusAdapterConfigMap",
              "PrometheusAdapterConfigMapPrometheus", "PrometheusAdapterService">>),
      get("prometheus-adapter-tls"), copy("PrometheusAdapterSecret")>>
    \o deploy("PrometheusAdapterDeployment")
    \o <<unhash("PrometheusAdapterSecret")>>

\* The Service makes another operator create prometheus-adapter-tls, which is
\* read without waiting for it; the old copies go before the new one comes.
PrometheusAdapterTask ==
    <<apply(<<"PrometheusAdapterClusterRole", "PrometheusAdapterClusterRoleServerResources",
              "PrometheusAdapterClusterRoleAggregatedMetricsReader",
              "PrometheusAdapterClusterRoleBinding",
              "PrometheusAdapterClusterRoleBindingDelegator",
              "PrometheusAdapterClusterRoleBindingView",
              "PrometheusAdapterRoleBindingAuthReader", "PrometheusAdapterServiceAccount",
              "PrometheusAdapterConfigMap", "PrometheusAdapterConfigMapPrometheus">>),
      apply(<<"PrometheusAdapterService">>),
      get("prometheus-adapter-tls"), get("extension-apiserver-authentication"),
      prune("PrometheusAdapterSecret"), copy("PrometheusAdapterSecret")>>
    \o deploy("PrometheusAdapterDeployment")
    \o <<apply(<<"PrometheusAdapterServiceMonitor", "PrometheusAdapterAPIService">>)>>

\* A mutant: the Secret with the token is kept.
TelemeterClientDestroyKeepingSecret ==
    <<remove(<<"TelemeterClientDeployment", "TelemeterClientService",
               "TelemeterClientClusterRoleBinding", "TelemeterClientClusterRole",
               "TelemeterClientServiceAccount", "TelemeterClientServiceMonitor",
               "TelemeterClientServingCertsCABundle">>)>>

TelemeterClientCreate ==
    <<ensure(<<"TelemeterClientServingCertsCABundle">>),
      apply(<<"TelemeterClientServiceAccount", "TelemeterClientClusterRole",
              "TelemeterClientClusterRoleBinding", "TelemeterClientClusterRoleBindingView",
              "TelemeterClientService", "TelemeterClientSecret">>)>>
    \o syncTrustedCABundle("TelemeterTrustedCABundle", "TelemeterTrustedCA")
    \o deploy("TelemeterClientDeployment")
    \o <<apply(<<"TelemeterPrometheusRule", "TelemeterClientServiceMonitor">>)>>

TelemeterClientDestroy ==
    <<remove(<<"TelemeterClientDeployment", "TelemeterClientSecret", "TelemeterClientService",
               "TelemeterClientClusterRoleBinding", "TelemeterClientClusterRole",
               "TelemeterClientServiceAccount", "TelemeterClientServiceMonitor",
               "TelemeterClientServingCertsCABundle">>)>>

\* A mutant: the task waits for its route before it creates it.
ThanosQuerierTaskWaitingFirst ==
    <<await("ThanosQuerierRoute"), ensure(<<"ThanosQuerierRoute">>)>>

\* The routes are read without waiting for them.
ConfigSharingTask ==
    <<get("PrometheusK8sRoute"), get("AlertmanagerRoute"), get("GrafanaRoute"),
      get("ThanosQuerierRoute"), apply(<<"SharingConfig">>)>>

ThanosQuerierTask ==
    <<apply(<<"ThanosQuerierService">>),
      ensure(<<"ThanosQuerierRoute">>), await("ThanosQuerierRoute"),
      ensure(<<"ThanosQuerierOauthCookieSecret">>), await("GrafanaDatasources"),
      Step("derive", <<"ThanosQuerierHtpasswdSecret">>),
      ensure(<<"ThanosQuerierRBACProxySecret", "ThanosQuerierRBACProxyRulesSecret">>),
      apply(<<"ThanosQuerierServiceAccount", "ThanosQuerierClusterRole",
              "ThanosQuerierClusterRoleBinding">>)>>
    \o copyGRPC("ThanosQuerierGrpcTLSSecret")
    \o syncTrustedCABundle("ThanosQuerierTrustedCABundle", "ThanosQuerierTrustedCA")
    \o deploy("ThanosQuerierDeployment")
    \o <<apply(<<"ThanosQuerierServiceMonitor", "ThanosQuerierPrometheusRule">>)>>

\* A mutant: the custom resource is kept.
ThanosRulerUserWorkloadDestroyKeepingPods ==
    <<remove(<<"ThanosRulerPrometheusRule", "ThanosRulerRoute", "ThanosRulerService",
               "ThanosRulerClusterRole", "ThanosRulerClusterRoleBinding",
               "ThanosRulerServiceAccount", "ThanosRulerOauthCookieSecret",
               "ThanosRulerTrustedCABundle">>),
      unhash("ThanosRulerTrustedCA"),
      remove(<<"ThanosRulerQueryConfigSecret", "ThanosRulerAlertmanagerConfigSecret",
               "ThanosRulerServiceMonitor">>)>>

\* A mutant: the ServiceMonitor is kept.
ThanosRulerUserWorkloadDestroyKeepingMonitor ==
    <<remove(<<"ThanosRulerPrometheusRule", "ThanosRulerRoute", "ThanosRulerService",
               "ThanosRulerClusterRole", "ThanosRulerClusterRoleBinding",
               "ThanosRulerServiceAccount", "ThanosRulerOauthCookieSecret",
               "ThanosRulerTrustedCABundle">>),
      unhash("ThanosRulerTrustedCA"),
      remove(<<"ThanosRulerCustomResource", "ThanosRulerQueryConfigSecret",
               "ThanosRulerAlertmanagerConfigSecret">>)>>

\* The error of the read of the querier's route is not checked.
ThanosRulerUserWorkloadCreate ==
    <<apply(<<"ThanosRulerService">>), ensure(<<"ThanosRulerRoute">>), await("ThanosRulerRoute"),
      apply(<<"ThanosRulerClusterRole", "ThanosRulerClusterRoleBinding",
              "ThanosRulerMonitoringClusterRoleBinding", "ThanosRulerServiceAccount">>),
      ensure(<<"ThanosRulerOauthCookieSecret", "ThanosRulerQueryConfigSecret",
               "ThanosRulerAlertmanagerConfigSecret">>)>>
    \o syncTrustedCABundle("ThanosRulerTrustedCABundle", "ThanosRulerTrustedCA")
    \o copyGRPC("ThanosRulerGrpcTLSSecret")
    \o <<Step("deref", <<"ThanosQuerierRoute">>)>>
    \o deploy("ThanosRulerCustomResource")
    \o <<apply(<<"ThanosRulerServiceMonitor", "ThanosRulerPrometheusRule">>)>>

ThanosRulerUserWorkloadDestroy ==
    <<remove(<<"ThanosRulerPrometheusRule">>), remove(<<"ThanosRulerRoute">>),
      remove(<<"ThanosRulerService", "ThanosRulerClusterRole", "ThanosRulerClusterRoleBinding",
               "ThanosRulerServiceAccount", "ThanosRulerOauthCookieSecret",
               "ThanosRulerTrustedCABundle">>),
      unhash("ThanosRulerTrustedCA"), await(grpc),
      remove(<<"ThanosRulerCustomResource">>), uncopy("ThanosRulerGrpcTLSSecret"),
      remove(<<"ThanosRulerQueryConfigSecret", "ThanosRulerAlertmanagerConfigSecret",
               "ThanosRulerServiceMonitor">>)>>

-----------------------------------------------------------------------------
AllTasks ==
    {"prometheusOperator", "prometheusOperatorUserWorkload", "clusterMonitoringOperator",
     "grafana", "prometheus", "prometheusUserWorkload", "alertmanager", "nodeExporter",
     "kubeStateMetrics", "openshiftStateMetrics", "prometheusAdapter", "telemeter",
     "configSharing", "thanosQuerier", "thanosRulerUserWorkload"}

\* The steps of task t in a sync with configuration c.
Program(t, c) ==
    CASE t = "prometheusOperator" -> PrometheusOperatorTask
      [] t = "prometheusOperatorUserWorkload" ->
            IF c.userWorkload THEN PrometheusOperatorUserWorkloadCreate
                              ELSE PrometheusOperatorUserWorkloadDestroy
      [] t = "clusterMonitoringOperator" -> ClusterMonitoringOperatorTask
      [] t = "grafana" -> GrafanaTask
      [] t = "prometheus" -> PrometheusTask(c.etcd) \o PrometheusResources(c.etcd)
      [] t = "prometheusUserWorkload" ->
            IF c.userWorkload THEN PrometheusUserWorkloadCreate ELSE PrometheusUserWorkloadDestroy
      [] t = "alertmanager" -> AlertmanagerTask
      [] t = "nodeExporter" -> NodeExporterTask
      [] t = "kubeStateMetrics" -> KubeStateMetricsTask
      [] t = "openshiftStateMetrics" -> OpenShiftStateMetricsTask
      [] t = "prometheusAdapter" -> PrometheusAdapterTask
      [] t = "telemeter" -> IF c.telemeter THEN TelemeterClientCreate ELSE TelemeterClientDestroy
      [] t = "configSharing" -> ConfigSharingTask
      [] t = "thanosQuerier" -> ThanosQuerierTask
      [] t = "thanosRulerUserWorkload" ->
            IF c.userWorkload THEN ThanosRulerUserWorkloadCreate
                              ELSE ThanosRulerUserWorkloadDestroy
=============================================================================
