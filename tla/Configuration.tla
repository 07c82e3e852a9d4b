---------------------------- MODULE Configuration ---------------------------
(***************************************************************************)
(* How one sync arrives at its configuration, Config in pkg/operator and    *)
(* pkg/manifests/config.go, and what the manifests of three tasks that run  *)
(* in parallel make of it: the monitoring of etcd, which five manifests     *)
(* must agree on, and telemetry, which two tasks must not both send.        *)
(*                                                                         *)
(* Every read of the cluster may fail and may answer differently each time. *)
(* A pointer of the configuration that is nil is a section that is not in   *)
(* the set c.sections; using it ends the process.  The three proxy settings *)
(* are one value.  The platform, which only filters three groups of alerts, *)
(* and the settings that are passed on to a manifest as they are, are left  *)
(* out.                                                                     *)
(***************************************************************************)
EXTENDS Promqlgen

CONSTANTS
    Documents,   \* the contents of the ConfigMap that administrators write
    Processes,   \* the flag and the selectors that processes are started with
    Series       \* the series that Prometheus may hold

AllSections ==
    {"prometheusOperator", "prometheusK8s", "alertmanagerMain", "kubeStateMetrics",
     "openshiftStateMetrics", "grafana", "etcd", "http", "telemeterClient",
     "k8sPrometheusAdapter", "thanosQuerier", "enableUserWorkload", "techPreviewUserWorkload"}

\* What the ConfigMap holds: none there is none, nokey it lacks config.yaml, empty
\* and malformed as the content is, given otherwise.
Kinds == {"none", "nokey", "empty", "malformed", "given"}
Document ==
    [kind : Kinds, sections : SUBSET (AllSections \ {"etcd"}), userWorkload : BOOLEAN,
     id : {"", "admin"}, token : {"", "admin"}, url : {"", "default", "admin"},
     disabled : BOOLEAN, proxy : {"", "admin"}]

\* A field is set only in a section that is given.
ASSUME WrittenByAdministrators ==
    /\ Documents \subseteq Document
    /\ \A d \in Documents :
        /\ d.kind # "given" => d.sections = {}
        /\ "enableUserWorkload" \notin d.sections => ~d.userWorkload
        /\ "telemeterClient" \notin d.sections => /\ d.id = "" /\ d.token = "" /\ d.url = ""
                                                  /\ ~d.disabled
        /\ "http" \notin d.sections => d.proxy = ""

ASSUME StartedWith ==
    \A p \in Processes : p.remoteWrite \in BOOLEAN /\ p.matches \in Seq(Seq(Matcher))

ASSUME SeriesHaveLabels ==
    \A p \in Processes, s \in Series : \A l \in Labels(p.matches) : s[l] \in STRING

\* The answers to the read of the user's ConfigMap; null is a YAML document
\* without content.
UserAnswers == {"error", "none", "nokey", "empty", "malformed", "null", "given"}

VARIABLES
    process,   \* what the running process was started with
    pc,        \* where the sync is
    doc,       \* the ConfigMap that Config read
    user,      \* the answer to its read of the user's
    c,         \* the configuration that Config is making
    factory,   \* what the manifests of the tasks take from it
    at,        \* the next step of each task
    failing,   \* whether a task has failed
    etcd,      \* the objects in the cluster that are about etcd
    writes,    \* whether Prometheus has a remote write for telemetry
    keep,      \* its relabelling rule
    client,    \* whether the telemeter client is there
    count      \* the query of its recording rule

vars == <<process, pc, doc, user, c, factory, at, failing, etcd, writes, keep, client, count>>
cluster == <<etcd, writes, keep, client, count>>

Blank == [kind |-> "none", sections |-> {}, userWorkload |-> FALSE, id |-> "", token |-> "",
          url |-> "", disabled |-> FALSE, proxy |-> ""]

Tasks == {"grafana", "prometheus", "telemeter"}
Steps == [grafana |-> <<"dashboards", "deployment">>,
          prometheus |-> <<"rules", "secret", "resource", "monitor">>,
          telemeter |-> <<"deployment", "rule">>]

EtcdObjects ==
    {"dashboard", "mountedDashboard", "secret", "mountedSecret", "monitor", "rules"}

NoKeep == [sourceLabels |-> <<>>, regex |-> {}]

\* Where a sync has ended, one way or another.
Ended == {"idle", "invalid", "failed", "ok"}

\* A configuration that is being made: no section of it is nil.
Configs ==
    [sections : {AllSections}, userWorkload : BOOLEAN, id : {"", "admin", "cluster"},
     token : {"", "admin", "cluster"}, url : {"", "default", "admin"}, disabled : BOOLEAN,
     proxy : {"", "admin", "cluster"}, etcd : BOOLEAN, remoteWrite : {FALSE}, matches : {<<>>}]

TypeOK ==
    /\ process \in Processes /\ doc \in Documents \cup {Blank} /\ user \in UserAnswers
    /\ pc \in Ended \cup {"user", "id", "token", "proxy", "etcd", "set", "tasks", "panic"}
    /\ c \in Configs
    /\ factory.etcd \in BOOLEAN /\ factory.telemetry \in BOOLEAN
    /\ \A t \in Tasks : at[t] \in 1..(Len(Steps[t]) + 1)
    /\ failing \in BOOLEAN /\ client \in BOOLEAN /\ writes \in BOOLEAN
    /\ etcd \subseteq EtcdObjects

\* A mutant: the section that no document can give is forgotten.
applyDefaultsOfDocument(d) ==
    [d EXCEPT !.sections = AllSections \ {"etcd"},
              !.url = IF "telemeterClient" \in d.sections THEN @ ELSE "default"]

\* Sections are completed, and the URL of telemetry is set in a new section only.
applyDefaults(d) ==
    [d EXCEPT !.sections = AllSections,
              !.url = IF "telemeterClient" \in d.sections THEN @ ELSE "default"]

NewConfig(d) ==
    LET a == applyDefaults(d)
    IN  [sections |-> a.sections, userWorkload |-> a.userWorkload,
         id |-> a.id, token |-> a.token, url |-> a.url, disabled |-> a.disabled,
         proxy |-> a.proxy, etcd |-> FALSE, remoteWrite |-> FALSE, matches |-> <<>>]

IsEnabled(d) == ~d.disabled /\ d.id # "" /\ d.token # ""

\* What the manifests of these tasks depend on.
NewFactory(d) ==
    [etcd |-> d.etcd, telemetry |-> IsEnabled(d), remoteWrite |-> d.remoteWrite,
     matches |-> d.matches]

Init ==
    /\ process \in Processes /\ pc = "idle" /\ doc = Blank /\ user = "none"
    /\ c = NewConfig(Blank) /\ factory = NewFactory(NewConfig(Blank))
    /\ at = [t \in Tasks |-> 1] /\ failing = FALSE
    /\ etcd = {} /\ writes = FALSE /\ keep = NoKeep
    /\ client = FALSE /\ count = <<>>

\* The sections of which each part of the sync uses a field.
Uses(p) ==
    CASE p = "user" -> {"enableUserWorkload"}
      [] p \in {"id", "token"} -> {"telemeterClient"}
      [] p = "proxy" -> {"http"}
      [] p = "etcd" -> {"etcd"}
      [] p = "set" -> {"prometheusK8s", "telemeterClient"}
      [] OTHER -> {}

\* The sync goes on to part p, with the configuration it now has.
Goes(p) == pc' = IF Uses(p) \subseteq c'.sections THEN p ELSE "panic"

\* A sync begins with the ConfigMap in the informer's cache: without one the
\* defaults are used, one without the key or with malformed content is an error.
loadConfig(d) ==
    /\ pc \in Ended
    /\ doc' = d /\ user' = "none" /\ c' = NewConfig(d)
    /\ factory' = NewFactory(NewConfig(Blank))
    /\ at' = [t \in Tasks |-> 1] /\ failing' = FALSE
    /\ IF d.kind \in {"nokey", "malformed"} THEN pc' = "invalid" ELSE Goes("user")
    /\ UNCHANGED <<process, cluster>>

\* A mutant: the user's ConfigMap is read although its use is disabled.
loadAnyUserWorkloadConfig(answer) ==
    /\ pc = "user" /\ UNCHANGED c
    /\ user' = answer
    /\ CASE answer \in {"error", "malformed"} -> pc' = "invalid"
         [] answer = "null" -> pc' = "panic"
         [] OTHER -> Goes("id")
    /\ UNCHANGED <<process, doc, factory, at, failing, cluster>>

\* The user's ConfigMap is read only if its use is enabled.  Missing content is
\* replaced by the defaults; a null document leaves nothing to put them in.
loadUserWorkloadConfig(answer) ==
    /\ pc = "user" /\ UNCHANGED c
    /\ IF c.userWorkload
       THEN /\ user' = answer
            /\ CASE answer \in {"error", "malformed"} -> pc' = "invalid"
                 [] answer = "null" -> pc' = "panic"
                 [] OTHER -> Goes("id")
       ELSE Goes("id") /\ UNCHANGED user
    /\ UNCHANGED <<process, doc, factory, at, failing, cluster>>

Reads == UNCHANGED <<process, doc, user, factory, at, failing, cluster>>

\* Both are fetched, each unless it is given, if one is not; an error leaves it empty.
Fetches == c.id = "" \/ c.token = ""

LoadClusterID(answer) ==
    /\ pc = "id"
    /\ c' = IF Fetches /\ c.id = "" THEN [c EXCEPT !.id = answer] ELSE c
    /\ Goes(IF Fetches THEN "token" ELSE "proxy")
    /\ Reads

\* A mutant: the token of the cluster replaces the one that was given.
LoadTokenAnyway(answer) ==
    /\ pc = "token"
    /\ c' = [c EXCEPT !.token = answer]
    /\ Goes("proxy")
    /\ Reads

LoadToken(answer) ==
    /\ pc = "token"
    /\ c' = IF c.token = "" THEN [c EXCEPT !.token = answer] ELSE c
    /\ Goes("proxy")
    /\ Reads

LoadProxy(answer) ==
    /\ pc = "proxy"
    /\ c' = IF c.proxy = "" THEN [c EXCEPT !.proxy = answer] ELSE c
    /\ Goes("etcd")
    /\ Reads

\* Enabled if the CA and the client's certificate and key can be read and are not empty.
LoadEtcd(complete) ==
    /\ pc = "etcd"
    /\ c' = [c EXCEPT !.etcd = complete]
    /\ Goes("set")
    /\ Reads

\* The flag changes the URL of telemetry from the default one only.
SetRemoteWrite(d, rw) ==
    [d EXCEPT !.remoteWrite = rw, !.url = IF rw /\ @ = "default" THEN "receive" ELSE @]

\* SetImages, SetTelemetryMatches and SetRemoteWrite, and the tasks start.
StartTasks ==
    /\ pc = "set"
    /\ factory' = NewFactory(SetRemoteWrite([c EXCEPT !.matches = process.matches],
                                            process.remoteWrite))
    /\ doc' = Blank /\ user' = "none" /\ c' = NewConfig(Blank)
    /\ pc' = IF AllSections \subseteq c.sections THEN "tasks" ELSE "panic"
    /\ UNCHANGED <<process, at, failing, cluster>>

(***************************************************************************)
(* The steps of the tasks whose manifests depend on the configuration.      *)
(***************************************************************************)
Runs(t, step) ==
    /\ pc = "tasks" /\ at[t] <= Len(Steps[t]) /\ Steps[t][at[t]] = step
    /\ UNCHANGED <<process, pc, doc, user, c, factory>>

Passes(t) == at' = [at EXCEPT ![t] = @ + 1] /\ UNCHANGED failing

\* Adds or takes away an object, as etcd is monitored or not.
With(o) == IF factory.etcd THEN etcd \cup {o} ELSE etcd \ {o}

\* The dashboard is created with the others; none is ever deleted.
GrafanaDashboardDefinitions ==
    /\ Runs("grafana", "dashboards")
    /\ etcd' = IF factory.etcd THEN With("dashboard") ELSE etcd
    /\ Passes("grafana") /\ UNCHANGED <<writes, keep, client, count>>

GrafanaDeployment ==
    /\ Runs("grafana", "deployment")
    /\ etcd' = With("mountedDashboard")
    /\ Passes("grafana") /\ UNCHANGED <<writes, keep, client, count>>

\* The group of etcd among the alerting rules.
PrometheusK8sRules ==
    /\ Runs("prometheus", "rules")
    /\ etcd' = With("rules")
    /\ Passes("prometheus") /\ UNCHANGED <<writes, keep, client, count>>

\* A mutant: without the certificates the task goes on.
PrometheusK8sEtcdSecretIfFound(found) ==
    /\ Runs("prometheus", "secret")
    /\ etcd' = IF factory.etcd /\ found THEN With("secret") ELSE etcd
    /\ Passes("prometheus") /\ UNCHANGED <<writes, keep, client, count>>

\* The certificates are read a second time, and must be found again.
PrometheusK8sEtcdSecret(found) ==
    /\ Runs("prometheus", "secret") /\ (factory.etcd => found)
    /\ etcd' = IF factory.etcd THEN With("secret") ELSE etcd
    /\ Passes("prometheus") /\ UNCHANGED <<writes, keep, client, count>>

SendsItself(f) == f.telemetry /\ f.remoteWrite

\* Fails if a selector cannot be parsed.
PrometheusK8s ==
    /\ Runs("prometheus", "resource")
    /\ SendsItself(factory) => parseMetricSelectorFromArray(factory.matches)
    /\ writes' = SendsItself(factory)
    /\ keep' = IF SendsItself(factory)
               THEN LabelSelectorsToRelabelConfig(factory.matches) ELSE NoKeep
    /\ etcd' = With("mountedSecret")
    /\ Passes("prometheus") /\ UNCHANGED <<client, count>>

\* A mutant: the ServiceMonitor is left when etcd is no longer monitored.
EtcdServiceMonitorKept ==
    /\ Runs("prometheus", "monitor")
    /\ etcd' = IF factory.etcd THEN With("monitor") ELSE etcd
    /\ Passes("prometheus") /\ UNCHANGED <<writes, keep, client, count>>

PrometheusK8sEtcdServiceMonitor ==
    /\ Runs("prometheus", "monitor")
    /\ etcd' = With("monitor")
    /\ Passes("prometheus") /\ UNCHANGED <<writes, keep, client, count>>

\* A mutant: a client that has been replaced by a remote write is left.
TelemeterClientKept ==
    /\ Runs("telemeter", "deployment")
    /\ client' = ((factory.telemetry /\ ~factory.remoteWrite) \/ (client /\ factory.telemetry))
    /\ Passes("telemeter") /\ UNCHANGED <<etcd, writes, keep, count>>

\* Created if telemetry is enabled and Prometheus does not send it, else deleted.
TelemeterClient ==
    /\ Runs("telemeter", "deployment")
    /\ client' = (factory.telemetry /\ ~factory.remoteWrite)
    /\ Passes("telemeter") /\ UNCHANGED <<etcd, writes, keep, count>>

\* The rule of a client; one that cannot be made is empty, and none is deleted.
generateTelemeterWhitelistRec ==
    /\ Runs("telemeter", "rule")
    /\ count' = CASE ~factory.telemetry \/ factory.remoteWrite -> count
                  [] factory.telemetry /\ ~factory.remoteWrite ->
                        IF parseMetricSelectorFromArray(factory.matches)
                        THEN GroupLabelSelectors(factory.matches) ELSE <<>>
    /\ Passes("telemeter") /\ UNCHANGED <<etcd, writes, keep, client>>

\* A call or a manifest of the task fails, and its other steps are left out.
TaskFails(t) ==
    /\ pc = "tasks" /\ at[t] <= Len(Steps[t])
    /\ at' = [at EXCEPT ![t] = Len(Steps[t]) + 1] /\ failing' = TRUE
    /\ UNCHANGED <<process, pc, doc, user, c, factory, cluster>>

\* All the tasks have ended.
RunAllReturns ==
    /\ pc = "tasks" /\ \A t \in Tasks : at[t] = Len(Steps[t]) + 1
    /\ pc' = IF failing THEN "failed" ELSE "ok"
    /\ UNCHANGED <<process, doc, user, c, factory, at, failing, cluster>>

\* A process that has ended is followed by one that may be of another release.
Restart(p) ==
    /\ process' = p /\ pc' = "idle" /\ doc' = Blank /\ user' = "none"
    /\ c' = NewConfig(Blank) /\ factory' = NewFactory(NewConfig(Blank))
    /\ at' = [t \in Tasks |-> 1] /\ failing' = FALSE
    /\ UNCHANGED cluster

Next ==
    \/ \E d \in Documents : loadConfig(d)
    \/ \E answer \in UserAnswers : loadUserWorkloadConfig(answer)
    \/ \E answer \in {"", "cluster"} :
        LoadClusterID(answer) \/ LoadToken(answer) \/ LoadProxy(answer)
    \/ \E answer \in BOOLEAN : LoadEtcd(answer) \/ PrometheusK8sEtcdSecret(answer)
    \/ StartTasks
    \/ GrafanaDashboardDefinitions \/ GrafanaDeployment
    \/ PrometheusK8sRules \/ PrometheusK8s \/ PrometheusK8sEtcdServiceMonitor
    \/ TelemeterClient \/ generateTelemeterWhitelistRec
    \/ \E t \in Tasks : TaskFails(t)
    \/ RunAllReturns
    \/ \E p \in Processes : Restart(p)

Spec == Init /\ [][Next]_vars

(***************************************************************************)
(* Properties                                                              *)
(***************************************************************************)

\* What the administrator asks for is what the tasks use, whatever the reads of the
\* cluster answer: no fetched value replaces one that was given (the guards of
\* LoadClusterID, LoadToken and LoadProxy), and telemetry that was given all it needs,
\* or was disabled, does not depend on them.
AdministratorWins ==
    pc = "set" =>
        /\ doc.id # "" => c.id = doc.id
        /\ doc.token # "" => c.token = doc.token
        /\ doc.proxy # "" => c.proxy = doc.proxy
        /\ doc.url = "admin" => SetRemoteWrite(c, process.remoteWrite).url = "admin"
        /\ doc.id # "" /\ doc.token # "" /\ ~doc.disabled => IsEnabled(c)
        /\ doc.disabled => ~IsEnabled(c)

\* A sync is rejected, or ends the process, for what it read of the two ConfigMaps and
\* for nothing else, and what it cannot use never passes for the defaults: neither an
\* operator's document without its key or malformed, nor, where user workload monitoring
\* is enabled, a malformed user's document, nor a failed read of the user's ConfigMap,
\* which is the only read of the cluster that rejects a configuration when it fails
\* (Config, NewConfigFromString, NewUserConfigFromString).  The user guide says
\* otherwise: "If the config does not exist, or is empty or malformed, then defaults
\* will be used."
RejectedForItsDocuments ==
    LET own == doc.kind \in {"nokey", "malformed"}
        users == doc.userWorkload /\ user \in {"error", "malformed"}
        null == doc.userWorkload /\ user = "null"
    IN  /\ pc = "invalid" => own \/ users
        /\ pc = "panic" => null
        /\ pc \in {"user", "id", "token", "proxy", "etcd", "set"} => ~own /\ ~users /\ ~null

\* After a sync that succeeded telemetry is sent once, by the client or by Prometheus, if
\* it is enabled and else not at all, whatever earlier syncs and processes left (Run of
\* the telemeter task and PrometheusK8s, which decide it apart).
TelemetryOnce ==
    pc = "ok" =>
        IF factory.telemetry THEN client # writes ELSE ~client /\ ~writes

\* Pods can start as far as etcd is concerned: what Prometheus and Grafana mount is
\* there, at any moment and whatever fails, although the certificates are looked at
\* twice (Config and the Prometheus task).
MountsAreDefined ==
    /\ "mountedSecret" \in etcd => "secret" \in etcd
    /\ "mountedDashboard" \in etcd => "dashboard" \in etcd

\* After a sync that succeeded etcd is monitored or not as a whole: the five manifests
\* that ask EtcdConfig.IsEnabled agree.
EtcdAllOrNothing ==
    pc = "ok" =>
        LET parts == EtcdObjects \ {"secret", "dashboard"}
        IN  parts \subseteq etcd \/ parts \cap etcd = {}

\* Prometheus keeps for telemetry only series that some selector selects, and all those
\* it selects that lack the labels of the other selectors (LabelSelectorsToRelabelConfig).
\* This is of selectors such as those the operator is deployed with: the values are put
\* into the expression without parentheses, so that one with a "|" of its own, as in
\* {__name__=~"a|b",x="y"}, would keep other series; and without selectors all are kept.
KeepsWhatIsSelected ==
    pc = "ok" /\ SendsItself(factory) /\ factory.matches # <<>>
              /\ WellFormed(factory.matches) /\ Grouped(factory.matches) =>
        \A s \in Series : /\ Keeps(keep, s) => Selected(factory.matches, s)
                          /\ SelectedPlainly(factory.matches, s) => Keeps(keep, s)

\* The client is given the selectors and sends what they select; the manifest of its
\* rule says that the rule "tracks the total number of series sent via telemetry from each
\* cluster".  It counts what is sent but for series that also have a label that only
\* another selector names, and counts nothing whose metric no selector names: exactly
\* what is sent if the selectors do no more than name metrics (GroupLabelSelectors).
CountsWhatIsSent ==
    pc = "ok" /\ client /\ factory.matches # <<>> /\ WellFormed(factory.matches)
              /\ parseMetricSelectorFromArray(factory.matches) =>
        \A s \in Series :
            /\ SelectedPlainly(factory.matches, s) => Counts(count, s)
            /\ Counts(count, s) =>
                  \E i \in DOMAIN factory.matches : SelectsName(factory.matches[i], s)
=============================================================================
