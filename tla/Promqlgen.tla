------------------------------ MODULE Promqlgen -----------------------------
(***************************************************************************)
(* The query generator, pkg/promqlgen: from the selectors of the series     *)
(* that telemetry may send, the relabelling rule that keeps them in a       *)
(* remote write and the query that counts them.                             *)
(*                                                                         *)
(* A selector is a sequence of matchers.  Both functions put the values of  *)
(* matchers into one regular expression, whatever their type and without    *)
(* parentheses: a "|" in a value separates more than that value.            *)
(*                                                                         *)
(* The label values that a rule matches are joined by ";".  Such a text is  *)
(* the sequence of what is between the ";"s; the label values of series     *)
(* have none.                                                               *)
(***************************************************************************)
EXTENDS Sequences, Naturals, FiniteSetsExt

CONSTANTS
    Alternatives, \* for each value, what "|"s outside of parentheses separate, in order
    Language      \* for each of those, the texts it matches

\* An empty expression matches the empty string only.
ASSUME EmptyExpression == Alternatives[""] = <<"">> /\ Language[""] = {<<"">>}

Matcher == [name : STRING, type : {"=", "!=", "=~", "!~"}, value : STRING]

\* Whether the whole of a label is matched by a value as an expression.
Fits(value, label) ==
    \E k \in DOMAIN Alternatives[value] : <<label>> \in Language[Alternatives[value][k]]

\* A value that means the same to = as to =~.
Literal(value) == Alternatives[value] = <<value>> /\ Language[value] = {<<value>>}

\* The selectors of the file that the operator is deployed with: each names a metric and
\* no label twice, and no value is to be different from the label.  One that cannot be
\* parsed is empty.
WellFormed(matches) ==
    /\ matches \in Seq(Seq(Matcher))
    /\ \A i \in DOMAIN matches :
        /\ \A j, k \in DOMAIN matches[i] : matches[i][j].name = matches[i][k].name => j = k
        /\ \A j \in DOMAIN matches[i] :
             \/ matches[i][j].type = "=~"
             \/ matches[i][j].type = "=" /\ Literal(matches[i][j].value)
        /\ matches[i] # <<>> => \E j \in DOMAIN matches[i] : matches[i][j].name = "__name__"

\* Nor has a value of theirs a "|" outside of parentheses.
Grouped(matches) ==
    \A i \in DOMAIN matches : \A j \in DOMAIN matches[i] :
        Alternatives[matches[i][j].value] = <<matches[i][j].value>>

\* The label values of one series, "" for a label it does not have.
Lacks(series, l) == series[l] = ""

\* A selector that cannot be parsed, such as one without matchers.
parseMetricSelectorFromArray(matches) == \A i \in DOMAIN matches : matches[i] # <<>>

Names(selector) == {selector[j].name : j \in DOMAIN selector}
Labels(matches) == UNION {Names(matches[i]) : i \in DOMAIN matches}

\* Where a label is named first.
FirstSelector(matches, l) == Min({i \in DOMAIN matches : l \in Names(matches[i])})
FirstMatcher(selector, l) == Min({j \in DOMAIN selector : selector[j].name = l})

Precedes(matches, k, l) ==
    LET i == FirstSelector(matches, k)
    IN  \/ i < FirstSelector(matches, l)
        \/ /\ i = FirstSelector(matches, l)
           /\ FirstMatcher(matches[i], k) < FirstMatcher(matches[i], l)

\* Labels have a column each, in the order in which they are named first.
labelPositions(matches) ==
    [l \in Labels(matches) |->
        Cardinality({k \in Labels(matches) : k = l \/ Precedes(matches, k, l)})]

sourceLabels(matches) ==
    LET positions == labelPositions(matches)
    IN  [p \in 1..Cardinality(Labels(matches)) |->
            CHOOSE l \in Labels(matches) : positions[l] = p]

\* The last matcher of a label wins.
labelValue(selector, l) ==
    LET at == {j \in DOMAIN selector : selector[j].name = l}
    IN  IF at = {} THEN "" ELSE selector[Max(at)].value

\* A row of the regular expression: a value for each label.
Row(labels, selector) == [p \in DOMAIN labels |-> labelValue(selector, labels[p])]

\* The part of the row that is between two "|"s and begins with the k-th alternative of
\* column p: it ends in that column if there is another alternative, and else with the
\* first alternative of the next column that has several.
Branch(row, p, k) ==
    LET several == {q \in DOMAIN row : q > p /\ Len(Alternatives[row[q]]) > 1}
        last == IF k < Len(Alternatives[row[p]]) THEN p ELSE Min({Len(row)} \cup several)
    IN  [i \in 1..(last - p + 1) |->
            Alternatives[row[p + i - 1]][IF i = 1 THEN k ELSE 1]]

Branches(row) ==
    {Branch(row, 1, 1)}
    \cup UNION {{Branch(row, p, k) : k \in 2..Len(Alternatives[row[p]])} : p \in DOMAIN row}

\* A mutant: the source labels are those of the first selector.
RelabelConfigOfFirst(matches) ==
    LET labels == sourceLabels(SubSeq(matches, 1, 1))
    IN  [sourceLabels |-> labels,
         regex |-> UNION {Branches(Row(labels, matches[i])) : i \in DOMAIN matches}]

\* The rows are joined by "|": the expression is the set of what is between them.
LabelSelectorsToRelabelConfig(matches) ==
    LET labels == sourceLabels(matches)
    IN  [sourceLabels |-> labels,
         regex |-> UNION {Branches(Row(labels, matches[i])) : i \in DOMAIN matches}]

\* Whether expressions that are joined by ";" match the whole of a text: the text can be
\* cut at ";"s so that each expression matches its part.
Matches(branch, text) ==
    LET n == Len(branch)
    IN  \E cut \in [0..n -> 0..Len(text)] :
            /\ cut[0] = 0 /\ cut[n] = Len(text)
            /\ \A i, j \in 0..n : i < j => cut[i] + (j - i) <= cut[j]
            /\ \A i \in 1..n : SubSeq(text, cut[i - 1] + 1, cut[i]) \in Language[branch[i]]

Text(labels, series) == [p \in DOMAIN labels |-> series[labels[p]]]

\* What the action keep does with a series: the regular expression without
\* alternatives matches the empty string, which is what no labels give.
Keeps(config, series) ==
    \/ config.regex = {}
    \/ \E branch \in config.regex : Matches(branch, Text(config.sourceLabels, series))

Values(matches, l) ==
    UNION {{matches[i][j].value : j \in {k \in DOMAIN matches[i] : matches[i][k].name = l}} :
              i \in DOMAIN matches}

\* A mutant: every series must have every label.
GroupRequiringAll(matches) == [l \in Labels(matches) |-> Values(matches, l)]

\* The alternatives of each label, nothing being one unless it is the name.
GroupLabelSelectors(matches) ==
    [l \in Labels(matches) |->
        Values(matches, l) \cup (IF l = "__name__" THEN {} ELSE {""})]

Counts(group, series) ==
    \A l \in DOMAIN group : \E v \in group[l] : Fits(v, series[l])

(***************************************************************************)
(* What the selectors mean to Prometheus, as the reference.                 *)
(***************************************************************************)
Satisfies(series, matcher) ==
    CASE matcher.type = "="  -> series[matcher.name] = matcher.value
      [] matcher.type = "!=" -> series[matcher.name] # matcher.value
      [] matcher.type = "=~" -> Fits(matcher.value, series[matcher.name])
      [] matcher.type = "!~" -> ~Fits(matcher.value, series[matcher.name])

Selects(selector, series) == \A j \in DOMAIN selector : Satisfies(series, selector[j])
SelectsName(selector, series) ==
    \A j \in DOMAIN selector : selector[j].name = "__name__" => Satisfies(series, selector[j])

Selected(matches, series) == \E i \in DOMAIN matches : Selects(matches[i], series)

\* Selected, and without the labels that only other selectors name.
SelectedPlainly(matches, series) ==
    \E i \in DOMAIN matches :
        /\ Selects(matches[i], series)
        /\ \A l \in Labels(matches) \ Names(matches[i]) : Lacks(series, l)
=============================================================================
