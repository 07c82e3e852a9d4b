------------------------ MODULE StatusReporterProofs ------------------------
(***************************************************************************)
(* What each status call does to the ClusterOperator object, whatever      *)
(* conditions and version it finds there.                                  *)
(***************************************************************************)
EXTENDS StatusReporter, TLAPS

\* setCondition keeps the type of the conditions (condition.go, setCondition).
LEMMA SetConditionType ==
    ASSUME NEW cs \in [CondTypes -> Condition], NEW current, NEW target,
           NEW type \in CondTypes, NEW status \in CondStatus,
           NEW message \in Texts, NEW reason \in Texts
    PROVE  setCondition(cs, current, target, type, status, message, reason)
              \in [CondTypes -> Condition]
BY DEF setCondition, Condition

\* A call starts from an object that exists and from conditions of the right
\* type, which agree with the object's but for the absent ones (condition.go,
\* newConditions).
LEMMA FetchedType ==
    ASSUME NEW o \in ClusterOperator
    PROVE  /\ Fetched(o) \in ClusterOperator
           /\ newConditions(Fetched(o)) \in [CondTypes -> Condition]
           /\ newClusterOperator \in ClusterOperator
<1>1. newClusterOperator \in ClusterOperator
  BY DEF newClusterOperator, ClusterOperator, NoCondition, Condition, CondStatus, Texts
<1>2. Fetched(o) \in ClusterOperator
  BY <1>1 DEF Fetched
<1>3. newConditions(Fetched(o)) \in [CondTypes -> Condition]
  BY <1>2 DEF newConditions, ClusterOperator, Unknown, Condition, CondStatus, Texts
<1> QED BY <1>1, <1>2, <1>3

\* Conditions and a version make a ClusterOperator.
LEMMA ObjectType ==
    ASSUME NEW cs \in [CondTypes -> Condition], NEW v \in Versions \cup {""}
    PROVE  [exists |-> TRUE, conds |-> cs, version |-> v] \in ClusterOperator
BY DEF ClusterOperator

\* SetDone leaves the operator available, not degraded, at its version
\* (status_reporter.go, SetDone).
THEOREM SetDoneEffect ==
    ASSUME NEW o \in ClusterOperator, NEW v \in Versions
    PROVE  /\ SetDone(o, v) \in ClusterOperator /\ SetDone(o, v).exists
           /\ SetDone(o, v).version = v
           /\ SetDone(o, v).conds["Available"].status = "True"
           /\ SetDone(o, v).conds["Degraded"].status = "False"
<1> DEFINE cur == Fetched(o).version
           cs0 == newConditions(Fetched(o))
           s(cs, type, status, message, reason) ==
              setCondition(cs, cur, v, type, status, message, reason)
           CS == [CondTypes -> Condition]
           c1 == s(cs0, "Available", "True", "done", "done")
           c2 == s(c1, "Progressing", "False", "", "")
           c3 == s(c2, "Degraded", "False", "", "")
           c4 == s(c3, "Upgradeable", "True", "", "")
<1>0. /\ cs0 \in CS
      /\ {"Available", "Progressing", "Degraded", "Upgradeable"} \subseteq CondTypes
      /\ {"True", "False"} \subseteq CondStatus
      /\ {"", "done"} \subseteq Texts
  BY FetchedType DEF CondTypes, CondStatus, Texts
<1>5. SetDone(o, v) = [exists |-> TRUE, conds |-> c4, version |-> v]
  BY DEF SetDone
<1> HIDE DEF cur, cs0
<1>1. c1 \in CS /\ c1["Available"].status = "True"
  <2>1. c1 \in CS
    BY <1>0, SetConditionType
  <2>2. c1["Available"].status = "True"
    BY <1>0 DEF setCondition, Unchanged
  <2> QED BY <2>1, <2>2
<1> HIDE DEF c1
<1>2. c2 \in CS /\ c2["Available"] = c1["Available"]
  <2>1. c2 \in CS
    BY <1>0, <1>1, SetConditionType
  <2>2. c2["Available"] = c1["Available"]
    BY <1>0, <1>1 DEF setCondition
  <2> QED BY <2>1, <2>2
<1> HIDE DEF c2
<1>3. c3 \in CS /\ c3["Available"] = c2["Available"] /\ c3["Degraded"].status = "False"
  <2>1. c3 \in CS
    BY <1>0, <1>2, SetConditionType
  <2>2. c3["Available"] = c2["Available"]
    BY <1>0, <1>2 DEF setCondition
  <2>3. c3["Degraded"].status = "False"
    BY <1>0, <1>2 DEF setCondition, Unchanged
  <2> QED BY <2>1, <2>2, <2>3
<1> HIDE DEF c3
<1>4. c4 \in CS /\ c4["Available"] = c3["Available"] /\ c4["Degraded"] = c3["Degraded"]
  <2>1. c4 \in CS
    BY <1>0, <1>3, SetConditionType
  <2>2. c4["Available"] = c3["Available"]
    BY <1>0, <1>3 DEF setCondition
  <2>3. c4["Degraded"] = c3["Degraded"]
    BY <1>0, <1>3 DEF setCondition
  <2> QED BY <2>1, <2>2, <2>3
<1> HIDE DEF c4
<1>6. SetDone(o, v) \in ClusterOperator
  BY <1>4, <1>5, ObjectType
<1> QED BY <1>1, <1>2, <1>3, <1>4, <1>5, <1>6

\* SetInProgress changes neither Available nor Degraded nor the version, except
\* that an absent condition becomes Unknown (status_reporter.go, SetInProgress).
THEOREM SetInProgressEffect ==
    ASSUME NEW o \in ClusterOperator, NEW v \in Versions
    PROVE  /\ SetInProgress(o, v) \in ClusterOperator /\ SetInProgress(o, v).exists
           /\ SetInProgress(o, v).version = Fetched(o).version
           /\ \A c \in {"Available", "Degraded"} :
                 SetInProgress(o, v).conds[c] = newConditions(Fetched(o))[c]
<1> DEFINE cur == Fetched(o).version
           cs0 == newConditions(Fetched(o))
           s(cs, type, status, message, reason) ==
              setCondition(cs, cur, v, type, status, message, reason)
           CS == [CondTypes -> Condition]
           c1 == s(cs0, "Progressing", "True", "progress", "progress")
           c2 == s(c1, "Upgradeable", "True", "progress", "progress")
<1>0. /\ cs0 \in CS /\ cur \in Versions \cup {""}
      /\ {"Available", "Progressing", "Degraded", "Upgradeable"} \subseteq CondTypes
      /\ "True" \in CondStatus /\ "progress" \in Texts
  BY FetchedType DEF CondTypes, CondStatus, Texts, ClusterOperator
<1>3. SetInProgress(o, v) = [exists |-> TRUE, conds |-> c2, version |-> cur]
  BY DEF SetInProgress
<1> HIDE DEF cur, cs0
<1>1. c1 \in CS /\ c1["Available"] = cs0["Available"] /\ c1["Degraded"] = cs0["Degraded"]
  <2>1. c1 \in CS
    BY <1>0, SetConditionType
  <2>2. c1["Available"] = cs0["Available"]
    BY <1>0 DEF setCondition
  <2>3. c1["Degraded"] = cs0["Degraded"]
    BY <1>0 DEF setCondition
  <2> QED BY <2>1, <2>2, <2>3
<1> HIDE DEF c1
<1>2. c2 \in CS /\ c2["Available"] = c1["Available"] /\ c2["Degraded"] = c1["Degraded"]
  <2>1. c2 \in CS
    BY <1>0, <1>1, SetConditionType
  <2>2. c2["Available"] = c1["Available"]
    BY <1>0, <1>1 DEF setCondition
  <2>3. c2["Degraded"] = c1["Degraded"]
    BY <1>0, <1>1 DEF setCondition
  <2> QED BY <2>1, <2>2, <2>3
<1> HIDE DEF c2
<1>4. SetInProgress(o, v) \in ClusterOperator
  BY <1>0, <1>2, <1>3, ObjectType
<1> QED BY <1>1, <1>2, <1>3, <1>4 DEF cur, cs0

\* SetFailed leaves the operator not available, degraded, at the version it
\* reported before (status_reporter.go, SetFailed).
THEOREM SetFailedEffect ==
    ASSUME NEW o \in ClusterOperator, NEW v \in Versions, NEW cause \in Causes
    PROVE  /\ SetFailed(o, v, cause) \in ClusterOperator /\ SetFailed(o, v, cause).exists
           /\ SetFailed(o, v, cause).version = Fetched(o).version
           /\ SetFailed(o, v, cause).conds["Available"].status = "False"
           /\ SetFailed(o, v, cause).conds["Degraded"].status = "True"
<1> DEFINE cur == Fetched(o).version
           cs0 == newConditions(Fetched(o))
           s(cs, type, status, message, reason) ==
              setCondition(cs, cur, v, type, status, message, reason)
           CS == [CondTypes -> Condition]
           c1 == s(cs0, "Available", "False", "", "")
           c2 == s(c1, "Progressing", "False", "", "")
           c3 == s(c2, "Degraded", "True", cause, cause)
           c4 == s(c3, "Upgradeable", "True", "failed", cause)
<1>0. /\ cs0 \in CS /\ cur \in Versions \cup {""}
      /\ {"Available", "Progressing", "Degraded", "Upgradeable"} \subseteq CondTypes
      /\ {"True", "False"} \subseteq CondStatus
      /\ {"", "failed", cause} \subseteq Texts
  BY FetchedType DEF CondTypes, CondStatus, Texts, ClusterOperator
<1>5. SetFailed(o, v, cause) = [exists |-> TRUE, conds |-> c4, version |-> cur]
  BY DEF SetFailed
<1>6. cur = Fetched(o).version
  OBVIOUS
<1> HIDE DEF cur, cs0
<1>1. c1 \in CS /\ c1["Available"].status = "False"
  <2>1. c1 \in CS
    BY <1>0, SetConditionType
  <2>2. c1["Available"].status = "False"
    BY <1>0 DEF setCondition, Unchanged
  <2> QED BY <2>1, <2>2
<1> HIDE DEF c1
<1>2. c2 \in CS /\ c2["Available"] = c1["Available"]
  <2>1. c2 \in CS
    BY <1>0, <1>1, SetConditionType
  <2>2. c2["Available"] = c1["Available"]
    BY <1>0, <1>1 DEF setCondition
  <2> QED BY <2>1, <2>2
<1> HIDE DEF c2
<1>3. c3 \in CS /\ c3["Available"] = c2["Available"] /\ c3["Degraded"].status = "True"
  <2>1. c3 \in CS
    BY <1>0, <1>2, SetConditionType
  <2>2. c3["Available"] = c2["Available"]
    BY <1>0, <1>2 DEF setCondition
  <2>3. c3["Degraded"].status = "True"
    BY <1>0, <1>2 DEF setCondition, Unchanged
  <2> QED BY <2>1, <2>2, <2>3
<1> HIDE DEF c3
<1>4. c4 \in CS /\ c4["Available"] = c3["Available"] /\ c4["Degraded"] = c3["Degraded"]
  <2>1. c4 \in CS
    BY <1>0, <1>3, SetConditionType
  <2>2. c4["Available"] = c3["Available"]
    BY <1>0, <1>3 DEF setCondition
  <2>3. c4["Degraded"] = c3["Degraded"]
    BY <1>0, <1>3 DEF setCondition
  <2> QED BY <2>1, <2>2, <2>3
<1> HIDE DEF c4
<1>7. SetFailed(o, v, cause) \in ClusterOperator
  BY <1>0, <1>4, <1>5, ObjectType
<1> QED BY <1>1, <1>2, <1>3, <1>4, <1>5, <1>6, <1>7
=============================================================================
