-------------------------- MODULE MCConfiguration ---------------------------
(***************************************************************************)
(* Instances of Configuration for TLC.                                     *)
(***************************************************************************)
EXTENDS Configuration, TLC

Telemetry(id, token, disabled, url) ==
    [Blank EXCEPT !.kind = "given", !.sections = {"telemeterClient"}, !.id = id,
                  !.token = token, !.disabled = disabled, !.url = url]

\* Every combination of what telemetry needs, and of the URL with all of it given;
\* then the other settings one at a time.
MCDocuments ==
    {[Blank EXCEPT !.kind = k] : k \in Kinds}
    \cup {Telemetry(id, token, disabled, "") :
            id \in {"", "admin"}, token \in {"", "admin"}, disabled \in BOOLEAN}
    \cup {Telemetry("admin", "admin", FALSE, url) : url \in {"default", "admin"}}
    \cup {[Blank EXCEPT !.kind = "given", !.sections = {"http"}, !.proxy = p] :
            p \in {"", "admin"}}
    \cup {[Blank EXCEPT !.kind = "given", !.sections = {"enableUserWorkload"},
                        !.userWorkload = w] : w \in BOOLEAN}
    \cup {[Blank EXCEPT !.kind = "given", !.sections = {"techPreviewUserWorkload"}]}

is(name, value) == [name |-> name, type |-> "=", value |-> value]
like(name, value) == [name |-> name, type |-> "=~", value |-> value]

\* The shapes of the selectors that the operator is deployed with.
Usage == <<like("__name__", "cluster:usage:.*")>>
Alerts == <<is("__name__", "ALERTS"), is("alertstate", "firing")>>
Up == <<is("__name__", "up")>>

\* One that they do not have, with a "|" outside of parentheses.
Either == <<like("__name__", "ALERTS|cluster:usage:.*"), is("alertstate", "firing")>>

MCProcesses ==
    {[remoteWrite |-> TRUE, matches |-> <<Usage, Alerts, Up>>],
     [remoteWrite |-> FALSE, matches |-> <<Alerts, Usage>>],
     [remoteWrite |-> FALSE, matches |-> <<Up, <<>>>>],
     [remoteWrite |-> TRUE, matches |-> <<Either, Up>>],
     [remoteWrite |-> FALSE, matches |-> <<Either, Up>>]}

LabelValues == {"", "up", "ALERTS", "cluster:usage:cpu", "firing", "pending"}
MCSeries == [{"__name__", "alertstate"} -> LabelValues]

MCAlternatives ==
    [v \in {"", "up", "ALERTS", "firing", "cluster:usage:.*"} |-> <<v>>]
    @@ ("ALERTS|cluster:usage:.*" :> <<"ALERTS", "cluster:usage:.*">>)

\* As regular expressions that must match the whole of a text: .* may go on beyond a ";".
MCLanguage ==
    [v \in {"", "up", "ALERTS", "firing"} |-> {<<v>>}]
    @@ ("cluster:usage:.*" :>
            {<<"cluster:usage:cpu">>} \cup {<<"cluster:usage:cpu", v>> : v \in LabelValues})
=============================================================================
