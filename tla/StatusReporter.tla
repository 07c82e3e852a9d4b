--------------------------- MODULE StatusReporter ---------------------------
(***************************************************************************)
(* The ClusterOperator object "monitoring" and the three calls that write  *)
(* its status (pkg/client/status_reporter.go, pkg/client/condition.go).    *)
(*                                                                         *)
(* Each call is a function from the object it reads to the object it       *)
(* writes.  A condition is abstracted to its status, its message and its   *)
(* reason; transition times and the list of related objects are left out.  *)
(* Every message the code writes is a constant text except the one of      *)
(* Degraded, which embeds the error: it is represented by the cause of the *)
(* failure, which is also the reason.                                      *)
(***************************************************************************)

CONSTANTS
    Versions,   \* release versions the operator may be started with
    Causes      \* reasons a sync may fail with

ASSUME MessagesAreNoCauses == {"", "done", "progress", "failed"} \cap Causes = {}

CondTypes == {"Available", "Progressing", "Degraded", "Upgradeable"}

\* "absent" stands for a condition that the object's list does not contain.
CondStatus == {"absent", "Unknown", "True", "False"}

Texts == {"", "done", "progress", "failed"} \cup Causes

Condition == [status : CondStatus, message : Texts, reason : Texts]

\* The version "" is an empty list of operand versions.
ClusterOperator ==
    [exists : BOOLEAN, conds : [CondTypes -> Condition], version : Versions \cup {""}]

NoCondition == [status |-> "absent", message |-> "", reason |-> ""]
Unknown == [status |-> "Unknown", message |-> "", reason |-> ""]

\* The conditions a call starts from: Unknown where the object has none.
newConditions(co) ==
    [c \in CondTypes |-> IF co.conds[c].status = "absent" THEN Unknown ELSE co.conds[c]]

-----------------------------------------------------------------------------
\* An entry is replaced only when its status or its message changes, and a
\* request to start progressing is dropped while the operator is available at
\* the version it is asked to roll out.
Unchanged(entry, status, message) == entry.status = status /\ entry.message = message

AlreadyRolledOut(cs, current, target) ==
    cs["Available"].status = "True" /\ current = target

setCondition(cs, current, target, type, status, message, reason) ==
    IF \/ Unchanged(cs[type], status, message)
       \/ type = "Progressing" /\ status = "True" /\ AlreadyRolledOut(cs, current, target)
    THEN cs
    ELSE [cs EXCEPT ![type] = [status |-> status, message |-> message, reason |-> reason]]

\* The object a call creates when it finds none.  The conditions it fills in are
\* dropped by the API server, the status being a subresource of the object.
newClusterOperator ==
    [exists |-> TRUE, conds |-> [c \in CondTypes |-> NoCondition], version |-> ""]

\* The object the call works on: the stored one, or the one it creates.
Fetched(co) == IF co.exists THEN co ELSE newClusterOperator

\* A mutant: the rollout succeeded but the old Degraded condition is kept.
SetDoneKeepsDegraded(co, v) ==
    LET s(cs, type, status, message, reason) ==
            setCondition(cs, Fetched(co).version, v, type, status, message, reason)
        c1 == s(newConditions(Fetched(co)), "Available", "True", "done", "done")
        c2 == s(c1, "Progressing", "False", "", "")
        c4 == s(c2, "Upgradeable", "True", "", "")
    IN [exists |-> TRUE, conds |-> c4, version |-> v]

SetDone(co, v) ==
    LET s(cs, type, status, message, reason) ==
            setCondition(cs, Fetched(co).version, v, type, status, message, reason)
        c1 == s(newConditions(Fetched(co)), "Available", "True", "done", "done")
        c2 == s(c1, "Progressing", "False", "", "")
        c3 == s(c2, "Degraded", "False", "", "")
        c4 == s(c3, "Upgradeable", "True", "", "")
    IN [exists |-> TRUE, conds |-> c4, version |-> v]

SetInProgress(co, v) ==
    LET s(cs, type, status, message, reason) ==
            setCondition(cs, Fetched(co).version, v, type, status, message, reason)
        c1 == s(newConditions(Fetched(co)), "Progressing", "True", "progress", "progress")
        c2 == s(c1, "Upgradeable", "True", "progress", "progress")
    IN [exists |-> TRUE, conds |-> c2, version |-> Fetched(co).version]

SetFailed(co, v, cause) ==
    LET s(cs, type, status, message, reason) ==
            setCondition(cs, Fetched(co).version, v, type, status, message, reason)
        c1 == s(newConditions(Fetched(co)), "Available", "False", "", "")
        c2 == s(c1, "Progressing", "False", "", "")
        c3 == s(c2, "Degraded", "True", cause, cause)
        c4 == s(c3, "Upgradeable", "True", "failed", cause)
    IN [exists |-> TRUE, conds |-> c4, version |-> Fetched(co).version]

\* What a call that runs into an API error may leave behind: nothing, the
\* object it created before the status update failed, or the whole update
\* when only the response was lost.
FaultyOutcomes(co, updated) ==
    {co, updated} \cup (IF co.exists THEN {} ELSE {newClusterOperator})
=============================================================================
