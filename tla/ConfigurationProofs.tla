------------------------- MODULE ConfigurationProofs ------------------------
(***************************************************************************)
(* Proofs about Configuration and Promqlgen, for any documents, processes,  *)
(* selectors and series.                                                    *)
(***************************************************************************)
EXTENDS Configuration, FiniteSetTheorems, SequenceTheorems,
        WellFoundedInduction, TLAPS

-----------------------------------------------------------------------------
(* The query generator.                                                    *)

\* A set of natural numbers has a least one.
LEMMA LeastNumber ==
    ASSUME NEW S \in SUBSET Nat, S # {}
    PROVE  Min(S) \in S /\ \A x \in S : Min(S) <= x
<1>1. PICK x \in S : \A y \in S : ~(<<y, x>> \in OpToRel(<, Nat))
  BY NatLessThanWellFounded, WFMin
<1>2. \A y, z \in Nat : <<y, z>> \in OpToRel(<, Nat) <=> y < z  BY DEF OpToRel
<1>3. \A y \in S : ~(y < x)  BY <1>1, <1>2
<1>4. \A y \in S : x <= y  BY <1>3
<1> QED  BY <1>4 DEF Min

\* There are finitely many labels.
LEMMA LabelsAreFinite ==
    ASSUME NEW matches \in Seq(Seq(Matcher))
    PROVE  IsFiniteSet(Labels(matches)) /\ Cardinality(Labels(matches)) \in Nat
<1>1. ASSUME NEW i \in DOMAIN matches PROVE IsFiniteSet(Names(matches[i]))
  <2>1. matches[i] \in Seq(Matcher)  OBVIOUS
  <2>2. DOMAIN matches[i] = 1..Len(matches[i]) /\ Len(matches[i]) \in Nat  BY <2>1
  <2>3. IsFiniteSet(DOMAIN matches[i])  BY <2>2, FS_Interval
  <2> DEFINE f == [j \in DOMAIN matches[i] |-> matches[i][j].name]
  <2>4. f \in Surjection(DOMAIN matches[i], Names(matches[i]))
    BY DEF Surjection, Names
  <2> QED  BY <2>3, <2>4, FS_Surjection
<1> DEFINE sets == {Names(matches[i]) : i \in DOMAIN matches}
           g == [i \in DOMAIN matches |-> Names(matches[i])]
<1>2. IsFiniteSet(DOMAIN matches)  BY FS_Interval
<1>3. g \in Surjection(DOMAIN matches, sets)  BY DEF Surjection
<1>4. IsFiniteSet(sets)  BY <1>2, <1>3, FS_Surjection
<1>5. \A T \in sets : IsFiniteSet(T)  BY <1>1
<1>6. IsFiniteSet(UNION sets)  BY <1>4, <1>5, FS_UNION
<1>7. UNION sets = Labels(matches)  BY DEF Labels
<1> QED  BY <1>6, <1>7, FS_CardinalityType

\* Where a label is named first.
LEMMA FirstNamed ==
    ASSUME NEW matches \in Seq(Seq(Matcher)), NEW l \in Labels(matches)
    PROVE  LET i == FirstSelector(matches, l)
               j == FirstMatcher(matches[i], l)
           IN  i \in Nat /\ j \in Nat /\ matches[i][j].name = l
<1> DEFINE S == {i \in DOMAIN matches : l \in Names(matches[i])}
<1>1. S \in SUBSET Nat /\ S # {}  BY DEF Labels
<1>2. PICK i : i = FirstSelector(matches, l)  OBVIOUS
<1>3. i \in S /\ i \in Nat  BY <1>1, <1>2, LeastNumber DEF FirstSelector
<1> DEFINE T == {j \in DOMAIN matches[i] : matches[i][j].name = l}
<1>4. matches[i] \in Seq(Matcher)  BY <1>3
<1>5. T \in SUBSET Nat /\ T # {}  BY <1>3, <1>4 DEF Names
<1>6. PICK j : j = FirstMatcher(matches[i], l)  OBVIOUS
<1>7. j \in T /\ j \in Nat  BY <1>5, <1>6, LeastNumber DEF FirstMatcher
<1> QED  BY <1>2, <1>3, <1>6, <1>7

\* The labels in the order in which they are named first.
LEMMA LabelsAreOrdered ==
    ASSUME NEW matches \in Seq(Seq(Matcher))
    PROVE  /\ \A k \in Labels(matches) : ~Precedes(matches, k, k)
           /\ \A k, l \in Labels(matches) : k = l \/ Precedes(matches, k, l) \/ Precedes(matches, l, k)
           /\ \A k, l, m \in Labels(matches) :
                 Precedes(matches, k, l) /\ Precedes(matches, l, m) => Precedes(matches, k, m)
<1> DEFINE i(l) == FirstSelector(matches, l)
           j(l) == FirstMatcher(matches[i(l)], l)
<1>1. \A l \in Labels(matches) : i(l) \in Nat /\ j(l) \in Nat /\ matches[i(l)][j(l)].name = l
  BY FirstNamed
<1>2. \A k, l : Precedes(matches, k, l) <=>
                   i(k) < i(l) \/ (i(k) = i(l) /\ j(k) < FirstMatcher(matches[i(k)], l))
  BY DEF Precedes
<1>3. \A k, l : Precedes(matches, k, l) <=> i(k) < i(l) \/ (i(k) = i(l) /\ j(k) < j(l))
  BY <1>2
<1> HIDE DEF i, j
<1>4. \A k, l \in Labels(matches) : i(k) = i(l) /\ j(k) = j(l) => k = l
  BY <1>1
<1>5. ASSUME NEW k \in Labels(matches) PROVE ~Precedes(matches, k, k)
  BY <1>1, <1>3
<1>6. ASSUME NEW k \in Labels(matches), NEW l \in Labels(matches), k # l
      PROVE  Precedes(matches, k, l) \/ Precedes(matches, l, k)
  <2>1. i(k) \in Nat /\ j(k) \in Nat /\ i(l) \in Nat /\ j(l) \in Nat  BY <1>1
  <2>2. i(k) # i(l) \/ j(k) # j(l)  BY <1>4, <1>6
  <2>3. i(k) < i(l) \/ i(l) < i(k) \/ (i(k) = i(l) /\ (j(k) < j(l) \/ j(l) < j(k)))
    BY <2>1, <2>2
  <2> QED  BY <1>3, <2>3
<1>7. ASSUME NEW k \in Labels(matches), NEW l \in Labels(matches), NEW m \in Labels(matches),
             Precedes(matches, k, l), Precedes(matches, l, m)
      PROVE  Precedes(matches, k, m)
  <2>1. i(k) \in Nat /\ j(k) \in Nat /\ i(l) \in Nat /\ j(l) \in Nat /\ i(m) \in Nat /\ j(m) \in Nat
    BY <1>1
  <2>2. /\ i(k) < i(l) \/ (i(k) = i(l) /\ j(k) < j(l))
        /\ i(l) < i(m) \/ (i(l) = i(m) /\ j(l) < j(m))
    BY <1>3, <1>7
  <2>3. i(k) < i(m) \/ (i(k) = i(m) /\ j(k) < j(m))
    BY <2>1, <2>2
  <2> QED  BY <1>3, <2>3
<1> QED  BY <1>5, <1>6, <1>7

\* Every label has a column of its own, and every column is the one of a label.
LEMMA Columns ==
    ASSUME NEW matches \in Seq(Seq(Matcher))
    PROVE  LET labels == sourceLabels(matches)
               n == Cardinality(Labels(matches))
           IN  /\ n \in Nat /\ DOMAIN labels = 1..n
               /\ \A p \in 1..n : labels[p] \in Labels(matches)
               /\ \A l \in Labels(matches) : \E p \in 1..n : labels[p] = l
<1> DEFINE S == Labels(matches)
           n == Cardinality(S)
           upTo(l) == {k \in S : k = l \/ Precedes(matches, k, l)}
           pos == labelPositions(matches)
<1>1. IsFiniteSet(S) /\ n \in Nat  BY LabelsAreFinite
<1>2. ASSUME NEW l \in S
      PROVE  /\ IsFiniteSet(upTo(l)) /\ upTo(l) \in SUBSET S /\ l \in upTo(l)
             /\ Cardinality(upTo(l)) \in 1..n
  <2>1. upTo(l) \in SUBSET S /\ l \in upTo(l)  OBVIOUS
  <2>2. IsFiniteSet(upTo(l)) /\ Cardinality(upTo(l)) <= n  BY <1>1, <2>1, FS_Subset
  <2>3. Cardinality(upTo(l)) \in Nat  BY <2>2, FS_CardinalityType
  <2>4. Cardinality(upTo(l)) # 0  BY <2>1, <2>2, FS_EmptySet
  <2> QED  BY <1>1, <2>1, <2>2, <2>3, <2>4
<1>3. pos = [l \in S |-> Cardinality(upTo(l))]  BY DEF labelPositions
<1>4. ASSUME NEW k \in S, NEW l \in S, Precedes(matches, k, l)
      PROVE  Cardinality(upTo(k)) # Cardinality(upTo(l))
  <2>1. upTo(k) \in SUBSET upTo(l)  BY <1>4, LabelsAreOrdered
  <2>2. l \notin upTo(k)
    <3> SUFFICES ASSUME l \in upTo(k) PROVE FALSE  OBVIOUS
    <3>1. l = k \/ Precedes(matches, l, k)  OBVIOUS
    <3>2. Precedes(matches, k, k)  BY <1>4, <3>1, LabelsAreOrdered
    <3> QED  BY <3>2, LabelsAreOrdered
  <2>3. upTo(k) # upTo(l)  BY <1>2, <2>2
  <2>4. IsFiniteSet(upTo(l))  BY <1>2
  <2> HIDE DEF upTo
  <2> QED  BY <2>1, <2>3, <2>4, FS_Subset
<1>5. \A k, l \in S : pos[k] = pos[l] => k = l
  <2> SUFFICES ASSUME NEW k \in S, NEW l \in S, k # l PROVE pos[k] # pos[l]
    OBVIOUS
  <2>1. Precedes(matches, k, l) \/ Precedes(matches, l, k)  BY LabelsAreOrdered
  <2>2. pos[k] = Cardinality(upTo(k)) /\ pos[l] = Cardinality(upTo(l))  BY <1>3
  <2> QED  BY <1>4, <2>1, <2>2
<1>6. pos \in [S -> 1..n]
  <2> HIDE DEF upTo, n
  <2> QED  BY <1>2, <1>3
<1>7. pos \in Injection(S, 1..n)
  <2> HIDE DEF pos, n, S
  <2> QED  BY <1>5, <1>6 DEF Injection, IsInjective
<1>8. IsFiniteSet(1..n) /\ Cardinality(1..n) = n  BY <1>1, FS_Interval
<1>9. pos \in Surjection(S, 1..n)  BY <1>7, <1>8, FS_Injection
<1>10. \A p \in 1..n : \E l \in S : pos[l] = p
  <2> HIDE DEF pos, n, S
  <2> QED  BY <1>9 DEF Surjection
<1>11. sourceLabels(matches) = [p \in 1..n |-> CHOOSE l \in S : pos[l] = p]
  BY DEF sourceLabels
<1> HIDE DEF pos
<1>12. \A p \in 1..n : sourceLabels(matches)[p] \in S /\ pos[sourceLabels(matches)[p]] = p
  BY <1>10, <1>11
<1>13. \A l \in S : sourceLabels(matches)[pos[l]] = l
  BY <1>5, <1>6, <1>12
<1> QED  BY <1>1, <1>6, <1>11, <1>12, <1>13

\* The value that the generator finds for a label which a selector names is the one of
\* its only matcher.
LEMMA ValueOfNamed ==
    ASSUME NEW matches, WellFormed(matches), NEW i \in DOMAIN matches,
           NEW j \in DOMAIN matches[i]
    PROVE  labelValue(matches[i], matches[i][j].name) = matches[i][j].value
<1> DEFINE named == {k \in DOMAIN matches[i] : matches[i][k].name = matches[i][j].name}
<1>1. named = {j}  BY DEF WellFormed
<1>2. j \in Nat  BY DEF WellFormed
<1>3. Max(named) = j
  <2>1. \A x \in named : x = j  BY <1>1
  <2>2. j >= j  BY <1>2
  <2> QED  BY <1>1, <2>1, <2>2 DEF Max
<1>4. named # {}  BY <1>1
<1>5. labelValue(matches[i], matches[i][j].name)
        = IF named = {} THEN "" ELSE matches[i][Max(named)].value
  BY DEF labelValue
<1> QED  BY <1>3, <1>4, <1>5

\* For a label that the selector does not name it is empty.
LEMMA ValueOfOther ==
    ASSUME NEW selector, NEW l, l \notin Names(selector)
    PROVE  labelValue(selector, l) = ""
BY DEF labelValue, Names

\* A sequence of one element.
LEMMA Singleton ==
    ASSUME NEW e
    PROVE  Len(<<e>>) = 1 /\ <<e>>[1] = e /\ DOMAIN <<e>> = {1}
OBVIOUS

\* What is between two neighbouring cuts of a text is one piece of it.
LEMMA OfLengthOne ==
    ASSUME NEW t \in Seq(STRING), NEW p \in 1..Len(t)
    PROVE  SubSeq(t, p, p) = <<t[p]>>
<1>1. /\ SubSeq(t, p, p) \in Seq(STRING) /\ Len(SubSeq(t, p, p)) = 1
      /\ SubSeq(t, p, p)[1] = t[p]
  OBVIOUS
<1>2. <<t[p]>> \in Seq(STRING) /\ Len(<<t[p]>>) = 1 /\ <<t[p]>>[1] = t[p]
  OBVIOUS
<1>3. \A i \in 1..Len(<<t[p]>>) : SubSeq(t, p, p)[i] = <<t[p]>>[i]
  BY <1>1, <1>2
<1> QED  BY <1>1, <1>2, <1>3, SeqEqual

\* The row of a selector without a "|" of its own is one branch.
LEMMA OneBranch ==
    ASSUME NEW row, NEW n \in Nat \ {0}, DOMAIN row = 1..n, Len(row) = n,
           \A p \in 1..n : Alternatives[row[p]] = <<row[p]>>
    PROVE  \E b : Branches(row) = {b} /\ Len(b) = n /\ \A p \in 1..n : b[p] = row[p]
<1>1. \A p \in 1..n : Len(Alternatives[row[p]]) = 1 /\ Alternatives[row[p]][1] = row[p]
  BY Singleton
<1>2. {q \in DOMAIN row : q > 1 /\ Len(Alternatives[row[q]]) > 1} = {}
  <2>1. \A q \in DOMAIN row : ~(Len(Alternatives[row[q]]) > 1)
    <3> SUFFICES ASSUME NEW q \in DOMAIN row PROVE ~(Len(Alternatives[row[q]]) > 1)
      OBVIOUS
    <3>1. Len(Alternatives[row[q]]) = 1  BY <1>1
    <3>2. ~(1 > 1)  OBVIOUS
    <3> QED  BY <3>1, <3>2
  <2> QED  BY <2>1
<1>3. Min({Len(row)} \cup {}) = n
  <2>1. {Len(row)} \cup {} = {n}  OBVIOUS
  <2>2. \A x \in {n} : x = n  OBVIOUS
  <2> QED  BY <2>1, <2>2 DEF Min
<1>4. 1 \in 1..n /\ ~(1 < Len(Alternatives[row[1]])) /\ n - 1 + 1 = n
  <2>1. 1 \in 1..n /\ n - 1 + 1 = n /\ ~(1 < 1)  OBVIOUS
  <2>2. Len(Alternatives[row[1]]) = 1  BY <1>1, <2>1
  <2> QED  BY <2>1, <2>2
<1>5. Branch(row, 1, 1) = [i \in 1..n |-> Alternatives[row[1 + i - 1]][IF i = 1 THEN 1 ELSE 1]]
  BY <1>2, <1>3, <1>4 DEF Branch
<1>6. \A i \in 1..n : 1 + i - 1 = i  OBVIOUS
<1>7. \A i \in 1..n : Branch(row, 1, 1)[i] = row[i]  BY <1>1, <1>5, <1>6
<1>8. Len(Branch(row, 1, 1)) = n  BY <1>5
<1>9. \A p \in DOMAIN row : {Branch(row, p, k) : k \in 2..Len(Alternatives[row[p]])} = {}
  <2>1. 2..1 = {}  OBVIOUS
  <2>2. \A p \in DOMAIN row : 2..Len(Alternatives[row[p]]) = {}
    <3> SUFFICES ASSUME NEW p \in DOMAIN row PROVE 2..Len(Alternatives[row[p]]) = {}
      OBVIOUS
    <3>1. Len(Alternatives[row[p]]) = 1  BY <1>1
    <3> QED  BY <2>1, <3>1
  <2> QED  BY <2>2
<1>10. Branches(row) = {Branch(row, 1, 1)}  BY <1>9 DEF Branches
<1> QED  BY <1>7, <1>8, <1>10

\* A cut between n parts of at least one piece each is where it must be.
LEMMA Between ==
    ASSUME NEW n \in Nat, NEW q \in 0..n, NEW x \in 0..n,
           q > 0 => q <= x, q < n => x + (n - q) <= n, q = 0 => x = 0, q = n => x = n
    PROVE  x = q
<1>1. x \in Int /\ q \in Int /\ 0 <= q /\ q <= n  OBVIOUS
<1>2. CASE q = 0  BY <1>2
<1>3. CASE q = n  BY <1>3
<1>4. CASE q > 0 /\ q < n
  <2>1. q <= x /\ x + (n - q) <= n  BY <1>4
  <2> QED  BY <1>1, <2>1
<1> QED  BY <1>1, <1>2, <1>3, <1>4

\* Expressions match as many labels if each of them matches its own.
LEMMA MatchesColumns ==
    ASSUME NEW n \in Nat, NEW b, NEW text, Len(b) = n, text \in Seq(STRING), Len(text) = n
    PROVE  Matches(b, text) <=> \A p \in 1..n : <<text[p]>> \in Language[b[p]]
<1>1. \A p \in 1..n : p - 1 + 1 = p /\ SubSeq(text, p, p) = <<text[p]>>
  BY OfLengthOne
<1>2. ASSUME Matches(b, text), NEW p \in 1..n PROVE <<text[p]>> \in Language[b[p]]
  <2>1. PICK cut \in [0..n -> 0..n] :
            /\ cut[0] = 0 /\ cut[n] = n
            /\ \A i, j \in 0..n : i < j => cut[i] + (j - i) <= cut[j]
            /\ \A i \in 1..n : SubSeq(text, cut[i - 1] + 1, cut[i]) \in Language[b[i]]
    BY <1>2 DEF Matches
  <2>2. ASSUME NEW q \in 0..n PROVE cut[q] = q
    <3>1. cut[q] \in 0..n /\ 0 \in 0..n /\ n \in 0..n  BY <2>2
    <3>2. q > 0 => q <= cut[q]  BY <2>1, <3>1
    <3>3. q < n => cut[q] + (n - q) <= n  BY <2>1, <3>1
    <3>4. q = 0 => cut[q] = 0  BY <2>1
    <3>5. q = n => cut[q] = n  BY <2>1
    <3> QED  BY <3>1, <3>2, <3>3, <3>4, <3>5, Between
  <2>3. p - 1 \in 0..n /\ p \in 0..n  OBVIOUS
  <2>4. cut[p - 1] = p - 1 /\ cut[p] = p  BY <2>2, <2>3
  <2>5. SubSeq(text, cut[p - 1] + 1, cut[p]) = <<text[p]>>
    <3>1. cut[p - 1] + 1 = p /\ SubSeq(text, p, p) = <<text[p]>>  BY <1>1, <2>4
    <3> QED  BY <2>4, <3>1
  <2>6. SubSeq(text, cut[p - 1] + 1, cut[p]) \in Language[b[p]]  BY <2>1
  <2> QED  BY <2>5, <2>6
<1>3. ASSUME \A p \in 1..n : <<text[p]>> \in Language[b[p]] PROVE Matches(b, text)
  <2> DEFINE cut == [i \in 0..n |-> i]
  <2>1. cut \in [0..n -> 0..n] /\ cut[0] = 0 /\ cut[n] = n
        /\ \A i, j \in 0..n : i < j => cut[i] + (j - i) <= cut[j]
    OBVIOUS
  <2>2. \A p \in 1..n : cut[p - 1] = p - 1 /\ cut[p] = p  OBVIOUS
  <2> HIDE DEF cut
  <2>3. ASSUME NEW p \in 1..n PROVE SubSeq(text, cut[p - 1] + 1, cut[p]) \in Language[b[p]]
    <3>1. cut[p - 1] + 1 = p /\ cut[p] = p  BY <1>1, <2>2
    <3>2. SubSeq(text, p, p) = <<text[p]>> /\ <<text[p]>> \in Language[b[p]]  BY <1>1, <1>3
    <3> QED  BY <3>1, <3>2
  <2> QED  BY <2>1, <2>3 DEF Matches
<1> QED  BY <1>2, <1>3

\* The rule keeps a series if each of its labels is matched by the value of one of the
\* selectors, for selectors without a "|" of their own.
LEMMA KeepsByLabel ==
    ASSUME NEW matches, WellFormed(matches), Grouped(matches), matches # <<>>,
           parseMetricSelectorFromArray(matches), NEW s,
           \A l \in Labels(matches) : s[l] \in STRING
    PROVE  Keeps(LabelSelectorsToRelabelConfig(matches), s) <=>
               \E i \in DOMAIN matches : \A l \in Labels(matches) :
                   <<s[l]>> \in Language[labelValue(matches[i], l)]
<1> DEFINE labels == sourceLabels(matches)
           n == Cardinality(Labels(matches))
           row(i) == Row(labels, matches[i])
           text == Text(labels, s)
           rows == {Branches(row(i)) : i \in DOMAIN matches}
<1>0. matches \in Seq(Seq(Matcher)) /\ 1 \in DOMAIN matches  BY DEF WellFormed
<1>1. /\ n \in Nat /\ DOMAIN labels = 1..n
      /\ \A p \in 1..n : labels[p] \in Labels(matches)
      /\ \A l \in Labels(matches) : \E p \in 1..n : labels[p] = l
  BY <1>0, Columns
<1>2. n # 0
  <2>1. PICK j \in DOMAIN matches[1] : matches[1][j].name = "__name__"
    BY <1>0 DEF WellFormed, parseMetricSelectorFromArray
  <2>2. "__name__" \in Labels(matches)  BY <1>0, <2>1 DEF Labels, Names
  <2>3. PICK p \in 1..n : labels[p] = "__name__"  BY <1>1, <2>2
  <2> QED  BY <1>1, <2>3
<1> HIDE DEF labels, n
<1>3. text = [p \in 1..n |-> s[labels[p]]]  BY <1>1 DEF Text
<1>4. /\ text \in Seq(STRING) /\ Len(text) = n
      /\ \A p \in 1..n : text[p] = s[labels[p]]
  BY <1>1, <1>3
<1>5. ASSUME NEW i \in DOMAIN matches
      PROVE  \E b : /\ Branches(row(i)) = {b}
                    /\ Matches(b, text) <=> \A l \in Labels(matches) :
                                               <<s[l]>> \in Language[labelValue(matches[i], l)]
  <2>1. row(i) = [p \in 1..n |-> labelValue(matches[i], labels[p])]  BY <1>1 DEF Row
  <2>2. DOMAIN row(i) = 1..n /\ Len(row(i)) = n
        /\ \A p \in 1..n : row(i)[p] = labelValue(matches[i], labels[p])
    BY <1>1, <2>1
  <2>3. ASSUME NEW p \in 1..n PROVE Alternatives[row(i)[p]] = <<row(i)[p]>>
    <3>1. CASE labels[p] \in Names(matches[i])
      <4>1. PICK j \in DOMAIN matches[i] : matches[i][j].name = labels[p]  BY <3>1 DEF Names
      <4>2. row(i)[p] = matches[i][j].value  BY <2>2, <4>1, ValueOfNamed
      <4> QED  BY <4>2 DEF Grouped
    <3>2. CASE labels[p] \notin Names(matches[i])
      <4>1. row(i)[p] = ""  BY <2>2, <3>2, ValueOfOther
      <4> QED  BY <4>1, EmptyExpression
    <3> QED  BY <3>1, <3>2
  <2> HIDE DEF row
  <2>4. PICK b : Branches(row(i)) = {b} /\ Len(b) = n /\ \A p \in 1..n : b[p] = row(i)[p]
    BY <1>1, <1>2, <2>2, <2>3, OneBranch
  <2> HIDE DEF text
  <2>5. Matches(b, text) <=> \A p \in 1..n : <<text[p]>> \in Language[b[p]]
    BY <1>1, <1>4, <2>4, MatchesColumns
  <2>6. \A p \in 1..n : <<text[p]>> \in Language[b[p]] <=>
             <<s[labels[p]]>> \in Language[labelValue(matches[i], labels[p])]
    BY <1>4, <2>2, <2>4
  <2>7. Matches(b, text) <=> \A l \in Labels(matches) :
                                <<s[l]>> \in Language[labelValue(matches[i], l)]
    BY <1>1, <2>5, <2>6
  <2> QED  BY <2>4, <2>7
<1>6. /\ LabelSelectorsToRelabelConfig(matches).sourceLabels = labels
      /\ LabelSelectorsToRelabelConfig(matches).regex = UNION rows
  BY DEF LabelSelectorsToRelabelConfig, labels
<1> HIDE DEF row, text
<1>7. UNION rows # {}  BY <1>0, <1>5
<1>8. Keeps(LabelSelectorsToRelabelConfig(matches), s) <=>
          \E branch \in UNION rows : Matches(branch, text)
  BY <1>6, <1>7 DEF Keeps, text
<1>9. (\E branch \in UNION rows : Matches(branch, text)) <=>
          \E i \in DOMAIN matches : \E branch \in Branches(row(i)) : Matches(branch, text)
  OBVIOUS
<1> QED  BY <1>5, <1>8, <1>9

\* A matcher of a well-formed selector.
LEMMA MatcherFits ==
    ASSUME NEW matches, WellFormed(matches), NEW i \in DOMAIN matches,
           NEW j \in DOMAIN matches[i], NEW s
    PROVE  Satisfies(s, matches[i][j]) <=> Fits(matches[i][j].value, s[matches[i][j].name])
<1> DEFINE m == matches[i][j]
<1>1. m.type = "=~" \/ (m.type = "=" /\ Literal(m.value))  BY DEF WellFormed
<1> HIDE DEF m
<1>2. CASE m.type = "=~"  BY <1>2 DEF Satisfies, m
<1>3. CASE m.type = "=" /\ Literal(m.value)
  <2>1. Satisfies(s, m) <=> s[m.name] = m.value  BY <1>3 DEF Satisfies
  <2>2. Fits(m.value, s[m.name]) <=> <<s[m.name]>> \in {<<m.value>>}
    BY <1>3 DEF Fits, Literal
  <2> QED  BY <2>1, <2>2 DEF m
<1> QED  BY <1>1, <1>2, <1>3

\* The relabelling rule keeps only series that one of the selectors selects
\* (LabelSelectorsToRelabelConfig).
LEMMA KeptIsSelected ==
    ASSUME NEW matches, WellFormed(matches), Grouped(matches), matches # <<>>,
           parseMetricSelectorFromArray(matches), NEW s,
           \A l \in Labels(matches) : s[l] \in STRING,
           Keeps(LabelSelectorsToRelabelConfig(matches), s)
    PROVE  Selected(matches, s)
<1>1. PICK i \in DOMAIN matches : \A l \in Labels(matches) :
          <<s[l]>> \in Language[labelValue(matches[i], l)]
  BY KeepsByLabel
<1>2. ASSUME NEW j \in DOMAIN matches[i] PROVE Satisfies(s, matches[i][j])
  <2>1. matches[i][j].name \in Labels(matches)  BY DEF Labels, Names
  <2>2. <<s[matches[i][j].name]>> \in Language[matches[i][j].value]
    BY <1>1, <2>1, ValueOfNamed
  <2>3. Alternatives[matches[i][j].value] = <<matches[i][j].value>>  BY DEF Grouped
  <2>4. Fits(matches[i][j].value, s[matches[i][j].name])  BY <2>2, <2>3 DEF Fits
  <2> QED  BY <2>4, MatcherFits
<1> QED  BY <1>2 DEF Selected, Selects

\* It keeps every series that a selector selects and that has none of the labels that
\* only the others name.
LEMMA SelectedIsKept ==
    ASSUME NEW matches, WellFormed(matches), Grouped(matches), matches # <<>>,
           parseMetricSelectorFromArray(matches), NEW s,
           \A l \in Labels(matches) : s[l] \in STRING,
           SelectedPlainly(matches, s)
    PROVE  Keeps(LabelSelectorsToRelabelConfig(matches), s)
<1>1. PICK i \in DOMAIN matches :
          /\ Selects(matches[i], s)
          /\ \A l \in Labels(matches) \ Names(matches[i]) : Lacks(s, l)
  BY DEF SelectedPlainly
<1>2. ASSUME NEW l \in Labels(matches)
      PROVE  <<s[l]>> \in Language[labelValue(matches[i], l)]
  <2>1. CASE l \in Names(matches[i])
    <3>1. PICK j \in DOMAIN matches[i] : matches[i][j].name = l  BY <2>1 DEF Names
    <3>2. labelValue(matches[i], l) = matches[i][j].value  BY <3>1, ValueOfNamed
    <3>3. Fits(matches[i][j].value, s[l])  BY <1>1, <3>1, MatcherFits DEF Selects
    <3>4. Alternatives[matches[i][j].value] = <<matches[i][j].value>>  BY DEF Grouped
    <3> QED  BY <3>2, <3>3, <3>4 DEF Fits
  <2>2. CASE l \notin Names(matches[i])
    <3>1. labelValue(matches[i], l) = ""  BY <2>2, ValueOfOther
    <3>2. s[l] = ""  BY <1>1, <2>2 DEF Lacks
    <3> QED  BY <3>1, <3>2, EmptyExpression
  <2> QED  BY <2>1, <2>2
<1> QED  BY <1>2, KeepsByLabel

\* The query counts every series that a selector selects and that has none of the labels
\* that only the others name (GroupLabelSelectors).
LEMMA SelectedIsCounted ==
    ASSUME NEW matches, WellFormed(matches), parseMetricSelectorFromArray(matches),
           NEW s, SelectedPlainly(matches, s)
    PROVE  Counts(GroupLabelSelectors(matches), s)
<1>1. PICK i \in DOMAIN matches :
          /\ Selects(matches[i], s)
          /\ \A l \in Labels(matches) \ Names(matches[i]) : Lacks(s, l)
  BY DEF SelectedPlainly
<1>2. ASSUME NEW l \in Labels(matches)
      PROVE  \E v \in GroupLabelSelectors(matches)[l] : Fits(v, s[l])
  <2>1. CASE l \in Names(matches[i])
    <3>1. PICK j \in DOMAIN matches[i] : matches[i][j].name = l  BY <2>1 DEF Names
    <3>2. matches[i][j].value \in Values(matches, l)  BY <3>1 DEF Values
    <3>3. Fits(matches[i][j].value, s[l])  BY <1>1, <3>1, MatcherFits DEF Selects
    <3> QED  BY <3>2, <3>3 DEF GroupLabelSelectors
  <2>2. CASE l \notin Names(matches[i])
    <3>1. "__name__" \in Names(matches[i])
      BY DEF WellFormed, Names, parseMetricSelectorFromArray
    <3>2. "" \in GroupLabelSelectors(matches)[l]  BY <2>2, <3>1 DEF GroupLabelSelectors
    <3>3. s[l] = ""  BY <1>1, <2>2 DEF Lacks
    <3>4. Fits("", "")
      <4>1. 1 \in DOMAIN Alternatives[""] /\ Alternatives[""][1] = ""
        BY EmptyExpression, Singleton
      <4> QED  BY <4>1, EmptyExpression DEF Fits
    <3> QED  BY <3>2, <3>3, <3>4
  <2> QED  BY <2>1, <2>2
<1> QED  BY <1>2 DEF Counts, GroupLabelSelectors

\* A series that it counts has a name that one of the selectors selects.
LEMMA CountedIsNamed ==
    ASSUME NEW matches, WellFormed(matches), matches # <<>>,
           parseMetricSelectorFromArray(matches),
           NEW s, Counts(GroupLabelSelectors(matches), s)
    PROVE  \E i \in DOMAIN matches : SelectsName(matches[i], s)
<1>1. 1 \in DOMAIN matches  BY DEF WellFormed
<1>2. PICK k \in DOMAIN matches[1] : matches[1][k].name = "__name__"
  BY <1>1 DEF WellFormed, parseMetricSelectorFromArray
<1>3. "__name__" \in Labels(matches)  BY <1>1, <1>2 DEF Labels, Names
<1>4. PICK v \in GroupLabelSelectors(matches)["__name__"] : Fits(v, s["__name__"])
  BY <1>3 DEF Counts, GroupLabelSelectors
<1>5. v \in Values(matches, "__name__")  BY <1>3, <1>4 DEF GroupLabelSelectors
<1>6. PICK i \in DOMAIN matches :
          v \in {matches[i][j].value : j \in {m \in DOMAIN matches[i] : matches[i][m].name = "__name__"}}
  BY <1>5 DEF Values
<1>7. PICK j \in DOMAIN matches[i] : matches[i][j].name = "__name__" /\ matches[i][j].value = v
  BY <1>6
<1>8. Satisfies(s, matches[i][j])  BY <1>4, <1>7, MatcherFits
<1>9. \A m \in DOMAIN matches[i] : matches[i][m].name = "__name__" => m = j
  BY <1>7 DEF WellFormed
<1> QED  BY <1>8, <1>9 DEF SelectsName

-----------------------------------------------------------------------------
(* The invariant.                                                          *)

Making == {"user", "id", "token", "proxy", "etcd", "set"}

\* The positions of the tasks, and where the facts that the tasks use come from.
Shape ==
    /\ TypeOK
    /\ at \in [Tasks -> 1..5] /\ at["grafana"] \in 1..3 /\ at["telemeter"] \in 1..3
    /\ pc \in Making => at = [t \in Tasks |-> 1]
    /\ factory.remoteWrite \in BOOLEAN
    /\ pc \in {"tasks", "failed", "ok"} => factory.matches = process.matches

\* What the document says is in the configuration, from its first step on.
Asked ==
    pc \in Making =>
        /\ doc.id # "" => c.id = doc.id
        /\ doc.token # "" => c.token = doc.token
        /\ doc.proxy # "" => c.proxy = doc.proxy
        /\ doc.url = "admin" => c.url = "admin"
        /\ c.disabled = doc.disabled /\ c.userWorkload = doc.userWorkload

\* What is mounted is there, and so is what the next steps will mount.
Mounted ==
    /\ MountsAreDefined
    /\ pc = "tasks" /\ factory.etcd =>
        /\ at["grafana"] = 2 => "dashboard" \in etcd
        /\ at["prometheus"] \in 3..4 => "secret" \in etcd

\* What the steps before position g, p and t of the tasks have left.
Left(g, p, t) ==
    /\ g = 3 => ("mountedDashboard" \in etcd <=> factory.etcd)
    /\ p > 1 => ("rules" \in etcd <=> factory.etcd)
    /\ p > 3 => /\ "mountedSecret" \in etcd <=> factory.etcd
                /\ writes = SendsItself(factory)
                /\ SendsItself(factory) =>
                      /\ keep = LabelSelectorsToRelabelConfig(factory.matches)
                      /\ parseMetricSelectorFromArray(factory.matches)
    /\ p = 5 => ("monitor" \in etcd <=> factory.etcd)
    /\ t > 1 => client = (factory.telemetry /\ ~factory.remoteWrite)
    /\ t = 3 => (factory.telemetry /\ ~factory.remoteWrite
                   /\ parseMetricSelectorFromArray(factory.matches)
                 => count = GroupLabelSelectors(factory.matches))

\* Unless a task has failed.
Agreed ==
    /\ pc = "tasks" /\ ~failing => Left(at["grafana"], at["prometheus"], at["telemeter"])
    /\ pc = "ok" => Left(3, 5, 3)

Inv == Shape /\ Asked /\ RejectedForItsDocuments /\ Mounted /\ Agreed

\* The number of steps of each task.
LEMMA Lengths ==
    /\ Len(Steps["grafana"]) = 2 /\ Len(Steps["prometheus"]) = 4 /\ Len(Steps["telemeter"]) = 2
BY DEF Steps

\* Where a task is when it takes a step.
LEMMA Positions ==
    ASSUME Shape
    PROVE  /\ Runs("grafana", "dashboards") => at["grafana"] = 1
           /\ Runs("grafana", "deployment") => at["grafana"] = 2
           /\ Runs("prometheus", "rules") => at["prometheus"] = 1
           /\ Runs("prometheus", "secret") => at["prometheus"] = 2
           /\ Runs("prometheus", "resource") => at["prometheus"] = 3
           /\ Runs("prometheus", "monitor") => at["prometheus"] = 4
           /\ Runs("telemeter", "deployment") => at["telemeter"] = 1
           /\ Runs("telemeter", "rule") => at["telemeter"] = 2
<1>1. /\ at["grafana"] \in 1..3 /\ at["prometheus"] \in 1..5 /\ at["telemeter"] \in 1..3
  BY DEF Shape, Tasks
<1>2. /\ at["grafana"] \in {1, 2, 3} /\ at["telemeter"] \in {1, 2, 3}
      /\ at["prometheus"] \in {1, 2, 3, 4, 5}
  BY <1>1
<1>3. /\ Runs("grafana", "dashboards") => at["grafana"] = 1
      /\ Runs("grafana", "deployment") => at["grafana"] = 2
  BY <1>2, Lengths DEF Runs, Steps
<1>4. /\ Runs("prometheus", "rules") => at["prometheus"] = 1
      /\ Runs("prometheus", "secret") => at["prometheus"] = 2
      /\ Runs("prometheus", "resource") => at["prometheus"] = 3
      /\ Runs("prometheus", "monitor") => at["prometheus"] = 4
  BY <1>2, Lengths DEF Runs, Steps
<1>5. /\ Runs("telemeter", "deployment") => at["telemeter"] = 1
      /\ Runs("telemeter", "rule") => at["telemeter"] = 2
  BY <1>2, Lengths DEF Runs, Steps
<1> QED  BY <1>3, <1>4, <1>5

\* The defaults are a configuration in which nothing is nil, with what the document says.
LEMMA Defaults ==
    ASSUME NEW d \in Documents \cup {Blank}
    PROVE  /\ NewConfig(d) \in Configs
           /\ NewConfig(d).id = d.id /\ NewConfig(d).token = d.token
           /\ NewConfig(d).proxy = d.proxy /\ (d.url = "admin" => NewConfig(d).url = "admin")
           /\ NewConfig(d).disabled = d.disabled /\ NewConfig(d).userWorkload = d.userWorkload
<1>1. Blank \in Document /\ Blank.url = ""
  BY DEF Blank, Document, Kinds
<1>2. d \in Document  BY <1>1, WrittenByAdministrators
<1>3. d.url = "admin" => "telemeterClient" \in d.sections
  BY <1>1, WrittenByAdministrators
<1>4. /\ applyDefaults(d).sections = AllSections
      /\ applyDefaults(d).url = (IF "telemeterClient" \in d.sections THEN d.url ELSE "default")
      /\ applyDefaults(d).userWorkload = d.userWorkload /\ applyDefaults(d).id = d.id
      /\ applyDefaults(d).token = d.token /\ applyDefaults(d).disabled = d.disabled
      /\ applyDefaults(d).proxy = d.proxy
  BY <1>2 DEF applyDefaults, Document
<1>5. NewConfig(d) =
        [sections |-> AllSections, userWorkload |-> d.userWorkload,
         id |-> d.id, token |-> d.token,
         url |-> IF "telemeterClient" \in d.sections THEN d.url ELSE "default",
         disabled |-> d.disabled, proxy |-> d.proxy,
         etcd |-> FALSE, remoteWrite |-> FALSE, matches |-> <<>>]
  BY <1>4 DEF NewConfig
<1>6. NewConfig(d) \in Configs
  <2>1. (IF "telemeterClient" \in d.sections THEN d.url ELSE "default")
           \in {"", "default", "admin"}
    BY <1>2 DEF Document
  <2>2. /\ d.userWorkload \in BOOLEAN /\ d.disabled \in BOOLEAN
        /\ d.id \in {"", "admin", "cluster"} /\ d.token \in {"", "admin", "cluster"}
        /\ d.proxy \in {"", "admin", "cluster"}
    BY <1>2 DEF Document
  <2>3. ASSUME NEW url \in {"", "default", "admin"}
        PROVE  [sections |-> AllSections, userWorkload |-> d.userWorkload,
                id |-> d.id, token |-> d.token, url |-> url,
                disabled |-> d.disabled, proxy |-> d.proxy,
                etcd |-> FALSE, remoteWrite |-> FALSE, matches |-> <<>>] \in Configs
    BY <2>2, Zenon DEF Configs
  <2> QED  BY <1>5, <2>1, <2>3, Zenon
<1> QED  BY <1>3, <1>5, <1>6

\* A blank factory.
LEMMA BlankFactory ==
    LET f == NewFactory(NewConfig(Blank))
    IN  f.etcd \in BOOLEAN /\ f.telemetry \in BOOLEAN /\ f.remoteWrite \in BOOLEAN
<1>1. NewConfig(Blank) \in Configs  BY Defaults
<1> QED  BY <1>1 DEF NewFactory, Configs, IsEnabled

-----------------------------------------------------------------------------
(* The steps that make the configuration.                                  *)

\* No part of a sync uses a section that is nil.
LEMMA NothingNil ==
    ASSUME NEW p \in Making, Goes(p), c' \in Configs
    PROVE  pc' = p
<1>1. c'.sections = AllSections  BY DEF Configs
<1>2. Uses(p) \subseteq AllSections  BY DEF Uses, AllSections, Making
<1> QED  BY <1>1, <1>2 DEF Goes

\* What is said of the cluster holds while no task runs, if it is left alone.
LEMMA NoTasks ==
    ASSUME Inv, UNCHANGED cluster, pc' \notin {"tasks", "failed", "ok"}
    PROVE  Mounted' /\ Agreed'
BY DEF Inv, Mounted, MountsAreDefined, Agreed, cluster

\* What is left of the shape when only the configuration is made.
LEMMA MakingShape ==
    ASSUME Inv, pc \in Making, UNCHANGED <<process, factory, at, failing, cluster>>,
           c' \in Configs, doc' \in Documents \cup {Blank}, user' \in UserAnswers,
           pc' \in Making \cup {"invalid", "panic"}
    PROVE  Shape'
<1>1. TypeOK'
  BY DEF Inv, Shape, TypeOK, cluster, Making, Ended
<1> QED  BY <1>1 DEF Inv, Shape, Making

\* What is left of it when the tasks are back at their first steps.
LEMMA FreshShape ==
    ASSUME Inv, process' \in Processes, UNCHANGED cluster,
           at' = [t \in Tasks |-> 1], failing' = FALSE,
           factory' = NewFactory(NewConfig(Blank)),
           c' \in Configs, doc' \in Documents \cup {Blank}, user' \in UserAnswers,
           pc' \in {"idle", "user", "invalid", "panic"}
    PROVE  Shape'
<1>1. /\ \A t \in Tasks : at'[t] = 1
      /\ at' \in [Tasks -> 1..5]
  OBVIOUS
<1>2. \A t \in Tasks : Len(Steps[t]) \in Nat /\ 1 \in 1..(Len(Steps[t]) + 1)
  BY Lengths DEF Tasks
<1>3. TypeOK'
  BY <1>1, <1>2, BlankFactory DEF Inv, Shape, TypeOK, cluster, Ended
<1>4. at'["grafana"] = 1 /\ at'["telemeter"] = 1  BY <1>1 DEF Tasks
<1> QED  BY <1>1, <1>3, <1>4, BlankFactory DEF Shape

\* Init is in the invariant.
LEMMA InitInv == Init => Inv
<1> SUFFICES ASSUME Init PROVE Inv
  OBVIOUS
<1>1. /\ \A t \in Tasks : at[t] = 1
      /\ at \in [Tasks -> 1..5]
  BY DEF Init
<1>2. \A t \in Tasks : Len(Steps[t]) \in Nat /\ 1 \in 1..(Len(Steps[t]) + 1)
  BY Lengths DEF Tasks
<1>3. c \in Configs  BY Defaults DEF Init
<1>4. TypeOK
  BY <1>1, <1>2, <1>3, BlankFactory DEF Init, TypeOK, Ended, UserAnswers
<1>5. at["grafana"] = 1 /\ at["telemeter"] = 1  BY <1>1 DEF Tasks
<1>6. Shape  BY <1>1, <1>4, <1>5, BlankFactory DEF Shape, Init
<1> QED
  BY <1>6 DEF Inv, Init, Asked, Making, RejectedForItsDocuments, Mounted, MountsAreDefined, Agreed

\* loadConfig
LEMMA LoadConfigInv ==
    ASSUME Inv, NEW d \in Documents, loadConfig(d)
    PROVE  Inv'
<1>1. c' \in Configs /\ c' = NewConfig(d)  BY Defaults DEF loadConfig
<1>2. d.kind \notin {"nokey", "malformed"} => pc' = "user"
  BY <1>1, NothingNil DEF loadConfig, Making
<1>3. d.kind \in {"nokey", "malformed"} => pc' = "invalid"  BY DEF loadConfig
<1>4. pc' \in {"user", "invalid"}  BY <1>2, <1>3
<1>5. Shape'
  BY <1>1, <1>4, FreshShape DEF loadConfig, UserAnswers, Inv, Shape, TypeOK
<1>6. Asked'  BY <1>1, Defaults DEF Asked, loadConfig
<1>7. RejectedForItsDocuments'  BY <1>2, <1>3 DEF RejectedForItsDocuments, loadConfig
<1>8. Mounted' /\ Agreed'  BY <1>4, NoTasks DEF loadConfig
<1> QED  BY <1>5, <1>6, <1>7, <1>8 DEF Inv

\* loadUserWorkloadConfig
LEMMA LoadUserWorkloadConfigInv ==
    ASSUME Inv, NEW answer \in UserAnswers, loadUserWorkloadConfig(answer)
    PROVE  Inv'
<1>1. c' \in Configs /\ c' = c  BY DEF loadUserWorkloadConfig, Inv, Shape, TypeOK
<1>2. Goes("id") => pc' = "id"  BY <1>1, NothingNil DEF Making
<1>3. pc = "user" /\ c.userWorkload = doc.userWorkload
  BY DEF loadUserWorkloadConfig, Inv, Asked, Making
<1>4. user' \in UserAnswers  BY DEF loadUserWorkloadConfig, Inv, Shape, TypeOK
<1>5. pc' \in {"id", "invalid", "panic"}  BY <1>2 DEF loadUserWorkloadConfig
<1>6. Shape'
  BY <1>1, <1>4, <1>5, MakingShape DEF loadUserWorkloadConfig, Making, Inv, Shape, TypeOK
<1>7. Asked'  BY <1>1, <1>3 DEF Inv, Asked, loadUserWorkloadConfig, Making
<1>8. RejectedForItsDocuments'
  BY <1>2, <1>3 DEF Inv, RejectedForItsDocuments, loadUserWorkloadConfig
<1>9. Mounted' /\ Agreed'  BY <1>5, NoTasks DEF loadUserWorkloadConfig
<1> QED  BY <1>6, <1>7, <1>8, <1>9 DEF Inv

\* A read that leaves what it finds given and goes on.
LEMMA ReadInv ==
    ASSUME Inv, pc \in Making \ {"user"}, Reads, NEW p \in Making, pc' = p, c' \in Configs,
           /\ c.id # "" => c'.id = c.id
           /\ c.token # "" => c'.token = c.token
           /\ c.proxy # "" => c'.proxy = c.proxy
           /\ c'.url = c.url /\ c'.disabled = c.disabled /\ c'.userWorkload = c.userWorkload
    PROVE  Inv'
<1>1. Shape'  BY MakingShape DEF Reads, Inv, Shape, TypeOK
<1>2. Asked'  BY DEF Inv, Asked, Reads
<1>3. RejectedForItsDocuments'  BY DEF Inv, RejectedForItsDocuments, Reads, Making
<1>4. Mounted' /\ Agreed'  BY NoTasks DEF Reads, Making
<1> QED  BY <1>1, <1>2, <1>3, <1>4 DEF Inv

\* LoadClusterID
LEMMA LoadClusterIDInv ==
    ASSUME Inv, NEW answer \in {"", "cluster"}, LoadClusterID(answer)
    PROVE  Inv'
<1>1. c \in Configs  BY DEF Inv, Shape, TypeOK
<1>2. /\ c' \in Configs
      /\ c.id # "" => c'.id = c.id
      /\ c'.token = c.token /\ c'.proxy = c.proxy
      /\ c'.url = c.url /\ c'.disabled = c.disabled /\ c'.userWorkload = c.userWorkload
  <2>1. [c EXCEPT !.id = answer] \in Configs  BY <1>1 DEF Configs
  <2> QED  BY <1>1, <2>1 DEF LoadClusterID, Configs
<1>3. pc' \in {"token", "proxy"}  BY <1>2, NothingNil DEF LoadClusterID, Making
<1> QED  BY <1>2, <1>3, ReadInv DEF LoadClusterID, Making

\* LoadToken
LEMMA LoadTokenInv ==
    ASSUME Inv, NEW answer \in {"", "cluster"}, LoadToken(answer)
    PROVE  Inv'
<1>1. c \in Configs  BY DEF Inv, Shape, TypeOK
<1>2. /\ c' \in Configs
      /\ c.token # "" => c'.token = c.token
      /\ c'.id = c.id /\ c'.proxy = c.proxy
      /\ c'.url = c.url /\ c'.disabled = c.disabled /\ c'.userWorkload = c.userWorkload
  <2>1. [c EXCEPT !.token = answer] \in Configs  BY <1>1 DEF Configs
  <2> QED  BY <1>1, <2>1 DEF LoadToken, Configs
<1>3. pc' = "proxy"  BY <1>2, NothingNil DEF LoadToken, Making
<1> QED  BY <1>2, <1>3, ReadInv DEF LoadToken, Making

\* LoadProxy
LEMMA LoadProxyInv ==
    ASSUME Inv, NEW answer \in {"", "cluster"}, LoadProxy(answer)
    PROVE  Inv'
<1>1. c \in Configs  BY DEF Inv, Shape, TypeOK
<1>2. /\ c' \in Configs
      /\ c.proxy # "" => c'.proxy = c.proxy
      /\ c'.id = c.id /\ c'.token = c.token
      /\ c'.url = c.url /\ c'.disabled = c.disabled /\ c'.userWorkload = c.userWorkload
  <2>1. [c EXCEPT !.proxy = answer] \in Configs  BY <1>1 DEF Configs
  <2> QED  BY <1>1, <2>1 DEF LoadProxy, Configs
<1>3. pc' = "etcd"  BY <1>2, NothingNil DEF LoadProxy, Making
<1> QED  BY <1>2, <1>3, ReadInv DEF LoadProxy, Making

\* LoadEtcd
LEMMA LoadEtcdInv ==
    ASSUME Inv, NEW complete \in BOOLEAN, LoadEtcd(complete)
    PROVE  Inv'
<1>1. c \in Configs  BY DEF Inv, Shape, TypeOK
<1>2. /\ c' \in Configs
      /\ c'.id = c.id /\ c'.token = c.token /\ c'.proxy = c.proxy
      /\ c'.url = c.url /\ c'.disabled = c.disabled /\ c'.userWorkload = c.userWorkload
  BY <1>1 DEF LoadEtcd, Configs
<1>3. pc' = "set"  BY <1>2, NothingNil DEF LoadEtcd, Making
<1> QED  BY <1>2, <1>3, ReadInv DEF LoadEtcd, Making

\* A restart.
LEMMA RestartInv ==
    ASSUME Inv, NEW p \in Processes, Restart(p)
    PROVE  Inv'
<1>1. c' \in Configs  BY Defaults DEF Restart
<1>2. Shape'  BY <1>1, FreshShape DEF Restart, UserAnswers
<1>3. Asked' /\ RejectedForItsDocuments'  BY DEF Asked, RejectedForItsDocuments, Restart, Making
<1>4. Mounted' /\ Agreed'  BY NoTasks DEF Restart
<1> QED  BY <1>2, <1>3, <1>4 DEF Inv

-----------------------------------------------------------------------------
(* The steps of the tasks.                                                 *)

\* The tasks start.
LEMMA StartTasksInv ==
    ASSUME Inv, StartTasks
    PROVE  Inv'
<1> DEFINE d == SetRemoteWrite([c EXCEPT !.matches = process.matches], process.remoteWrite)
<1>1. c \in Configs /\ process \in Processes  BY DEF Inv, Shape, TypeOK
<1>2. process.remoteWrite \in BOOLEAN  BY <1>1, StartedWith
<1>3. /\ d.etcd = c.etcd /\ d.disabled = c.disabled /\ d.id = c.id /\ d.token = c.token
      /\ d.remoteWrite = process.remoteWrite /\ d.matches = process.matches
  BY <1>1 DEF SetRemoteWrite, Configs
<1>4. c.etcd \in BOOLEAN /\ c.disabled \in BOOLEAN  BY <1>1 DEF Configs
<1>5. factory' = NewFactory(d)  BY DEF StartTasks
<1>6. /\ factory'.etcd \in BOOLEAN /\ factory'.telemetry \in BOOLEAN
      /\ factory'.remoteWrite \in BOOLEAN /\ factory'.matches = process.matches
  BY <1>2, <1>3, <1>4, <1>5 DEF NewFactory, IsEnabled
<1>7. pc' = "tasks"  BY <1>1 DEF StartTasks, Configs
<1>8. c' \in Configs  BY Defaults DEF StartTasks
<1>9. TypeOK'
  BY <1>6, <1>7, <1>8 DEF Inv, Shape, TypeOK, StartTasks, cluster, UserAnswers
<1>10. Shape'  BY <1>6, <1>7, <1>9 DEF Inv, Shape, StartTasks, Making
<1>11. at'["grafana"] = 1 /\ at'["prometheus"] = 1 /\ at'["telemeter"] = 1
  BY DEF StartTasks, Inv, Shape, Making, Tasks
<1>12. Mounted' /\ Agreed'
  BY <1>7, <1>11 DEF Inv, Mounted, MountsAreDefined, Agreed, Left, StartTasks, cluster
<1>13. Asked' /\ RejectedForItsDocuments'
  BY <1>7 DEF Asked, Making, RejectedForItsDocuments
<1> QED  BY <1>10, <1>12, <1>13 DEF Inv

\* What a step that passes does to the positions.
LEMMA PassesTo ==
    ASSUME Inv, NEW t \in Tasks, NEW step, Runs(t, step), Passes(t)
    PROVE  /\ at' \in [Tasks -> 1..5] /\ at'["grafana"] \in 1..3 /\ at'["telemeter"] \in 1..3
           /\ \A u \in Tasks : at'[u] = IF u = t THEN at[u] + 1 ELSE at[u]
           /\ \A u \in Tasks : at'[u] \in 1..(Len(Steps[u]) + 1)
<1>1. /\ at \in [Tasks -> 1..5] /\ at["grafana"] \in 1..3 /\ at["telemeter"] \in 1..3
      /\ \A u \in Tasks : at[u] \in 1..(Len(Steps[u]) + 1)
  BY DEF Inv, Shape, TypeOK
<1>2. \A u \in Tasks : at'[u] = IF u = t THEN at[u] + 1 ELSE at[u]
  BY <1>1 DEF Passes
<1>3. at[t] <= Len(Steps[t])  BY DEF Runs
<1>4. \A u \in Tasks : Len(Steps[u]) \in 2..4  BY Lengths DEF Tasks
<1>5. \A u \in Tasks : at'[u] \in 1..(Len(Steps[u]) + 1)
  BY <1>1, <1>2, <1>3, <1>4
<1>6. at'["grafana"] \in 1..3 /\ at'["prometheus"] \in 1..5 /\ at'["telemeter"] \in 1..3
  <2>1. /\ at'["grafana"] \in 1..(Len(Steps["grafana"]) + 1)
        /\ at'["prometheus"] \in 1..(Len(Steps["prometheus"]) + 1)
        /\ at'["telemeter"] \in 1..(Len(Steps["telemeter"]) + 1)
    BY <1>5, Zenon DEF Tasks
  <2> QED  BY <2>1, Lengths
<1>7. at' \in [Tasks -> 1..5]
  <2>1. at' = [at EXCEPT ![t] = at[t] + 1]  BY DEF Passes
  <2>2. at[t] \in 1..5 /\ Len(Steps[t]) \in 2..4  BY <1>1, <1>4
  <2>3. \A m \in 1..5, n \in 2..4 : m <= n => m + 1 \in 1..5  OBVIOUS
  <2>4. at[t] + 1 \in 1..5  BY <1>3, <2>2, <2>3, Zenon
  <2> QED  BY <1>1, <2>1, <2>4
<1> QED  BY <1>2, <1>5, <1>6, <1>7

\* A step that passes keeps the shape, and is not about the documents.
LEMMA PassesShape ==
    ASSUME Inv, NEW t \in Tasks, NEW step, Runs(t, step), Passes(t),
           etcd' \subseteq EtcdObjects, writes' \in BOOLEAN, client' \in BOOLEAN
    PROVE  Shape' /\ Asked' /\ RejectedForItsDocuments' /\ pc' = "tasks"
<1>1. pc' = "tasks" /\ pc = "tasks"  BY DEF Runs
<1>2. TypeOK'  BY PassesTo DEF Inv, Shape, TypeOK, Runs, Passes
<1>3. Shape'  BY <1>1, <1>2, PassesTo DEF Inv, Shape, Runs, Making
<1> QED  BY <1>1, <1>3 DEF Asked, Making, RejectedForItsDocuments

\* The steps of grafana.
LEMMA GrafanaInv ==
    ASSUME Inv, GrafanaDashboardDefinitions \/ GrafanaDeployment
    PROVE  Inv'
<1> USE DEF Tasks
<1>1. CASE GrafanaDashboardDefinitions
  <2>1. Runs("grafana", "dashboards") /\ Passes("grafana")
    BY <1>1 DEF GrafanaDashboardDefinitions
  <2>2. at["grafana"] = 1  BY <2>1, Positions DEF Inv
  <2>3. /\ at'["grafana"] = 2 /\ at'["prometheus"] = at["prometheus"]
        /\ at'["telemeter"] = at["telemeter"]
    BY <2>1, <2>2, PassesTo
  <2>4. etcd' = IF factory.etcd THEN etcd \cup {"dashboard"} ELSE etcd
    BY <1>1 DEF GrafanaDashboardDefinitions, With
  <2>5. etcd' \subseteq EtcdObjects /\ writes' \in BOOLEAN /\ client' \in BOOLEAN
    BY <1>1, <2>4 DEF Inv, Shape, TypeOK, EtcdObjects, GrafanaDashboardDefinitions
  <2>6. Shape' /\ Asked' /\ RejectedForItsDocuments' /\ pc' = "tasks"
    BY <2>1, <2>5, PassesShape
  <2>7. factory' = factory /\ pc = "tasks" /\ failing' = failing
    BY <2>1 DEF Runs, Passes
  <2>8. Mounted'
    BY <2>3, <2>4, <2>7 DEF Inv, Mounted, MountsAreDefined
  <2>9. Agreed'
    BY <1>1, <2>3, <2>4, <2>6, <2>7 DEF Inv, Agreed, Left, GrafanaDashboardDefinitions
  <2> QED  BY <2>6, <2>8, <2>9 DEF Inv
<1>2. CASE GrafanaDeployment
  <2>1. Runs("grafana", "deployment") /\ Passes("grafana")
    BY <1>2 DEF GrafanaDeployment
  <2>2. at["grafana"] = 2  BY <2>1, Positions DEF Inv
  <2>3. /\ at'["grafana"] = 3 /\ at'["prometheus"] = at["prometheus"]
        /\ at'["telemeter"] = at["telemeter"]
    BY <2>1, <2>2, PassesTo
  <2>4. etcd' = IF factory.etcd THEN etcd \cup {"mountedDashboard"}
                ELSE etcd \ {"mountedDashboard"}
    BY <1>2 DEF GrafanaDeployment, With
  <2>5. etcd' \subseteq EtcdObjects /\ writes' \in BOOLEAN /\ client' \in BOOLEAN
    BY <1>2, <2>4 DEF Inv, Shape, TypeOK, EtcdObjects, GrafanaDeployment
  <2>6. Shape' /\ Asked' /\ RejectedForItsDocuments' /\ pc' = "tasks"
    BY <2>1, <2>5, PassesShape
  <2>7. factory' = factory /\ pc = "tasks" /\ failing' = failing
    BY <2>1 DEF Runs, Passes
  <2>8. Mounted'
    BY <2>2, <2>3, <2>4, <2>7 DEF Inv, Mounted, MountsAreDefined
  <2>9. Agreed'
    BY <1>2, <2>2, <2>3, <2>4, <2>6, <2>7 DEF Inv, Agreed, Left, GrafanaDeployment
  <2> QED  BY <2>6, <2>8, <2>9 DEF Inv
<1> QED  BY <1>1, <1>2

\* The steps of prometheus.
LEMMA PrometheusInv ==
    ASSUME Inv,
           \/ PrometheusK8sRules \/ PrometheusK8s \/ PrometheusK8sEtcdServiceMonitor
           \/ \E answer \in BOOLEAN : PrometheusK8sEtcdSecret(answer)
    PROVE  Inv'
<1> USE DEF Tasks
<1>1. CASE PrometheusK8sRules
  <2>1. Runs("prometheus", "rules") /\ Passes("prometheus")
    BY <1>1 DEF PrometheusK8sRules
  <2>2. at["prometheus"] = 1  BY <2>1, Positions DEF Inv
  <2>3. /\ at'["prometheus"] = 2
        /\ at'["grafana"] = at["grafana"] /\ at'["telemeter"] = at["telemeter"]
    BY <2>1, <2>2, PassesTo
  <2>4. etcd' = IF factory.etcd THEN etcd \cup {"rules"} ELSE etcd \ {"rules"}
    BY <1>1 DEF PrometheusK8sRules, With
  <2>5. etcd' \subseteq EtcdObjects /\ writes' \in BOOLEAN /\ client' \in BOOLEAN
    BY <1>1, <2>4 DEF Inv, Shape, TypeOK, EtcdObjects, PrometheusK8sRules
  <2>6. Shape' /\ Asked' /\ RejectedForItsDocuments' /\ pc' = "tasks"
    BY <2>1, <2>5, PassesShape
  <2>7. factory' = factory /\ pc = "tasks" /\ failing' = failing
    BY <2>1 DEF Runs, Passes
  <2>8. Mounted'
    BY <2>2, <2>3, <2>4, <2>7 DEF Inv, Mounted, MountsAreDefined
  <2>9. Agreed'
    BY <1>1, <2>2, <2>3, <2>4, <2>6, <2>7 DEF Inv, Agreed, Left, PrometheusK8sRules
  <2> QED  BY <2>6, <2>8, <2>9 DEF Inv
<1>2. CASE \E answer \in BOOLEAN : PrometheusK8sEtcdSecret(answer)
  <2>1. Runs("prometheus", "secret") /\ Passes("prometheus")
    BY <1>2 DEF PrometheusK8sEtcdSecret
  <2>2. at["prometheus"] = 2  BY <2>1, Positions DEF Inv
  <2>3. /\ at'["prometheus"] = 3
        /\ at'["grafana"] = at["grafana"] /\ at'["telemeter"] = at["telemeter"]
    BY <2>1, <2>2, PassesTo
  <2>4. etcd' = IF factory.etcd THEN etcd \cup {"secret"} ELSE etcd
    BY <1>2 DEF PrometheusK8sEtcdSecret, With
  <2>5. etcd' \subseteq EtcdObjects /\ writes' \in BOOLEAN /\ client' \in BOOLEAN
    BY <1>2, <2>4 DEF Inv, Shape, TypeOK, EtcdObjects, PrometheusK8sEtcdSecret
  <2>6. Shape' /\ Asked' /\ RejectedForItsDocuments' /\ pc' = "tasks"
    BY <2>1, <2>5, PassesShape
  <2>7. factory' = factory /\ pc = "tasks" /\ failing' = failing
    BY <2>1 DEF Runs, Passes
  <2>8. Mounted'
    BY <2>2, <2>3, <2>4, <2>7 DEF Inv, Mounted, MountsAreDefined
  <2>9. Agreed'
    BY <1>2, <2>2, <2>3, <2>4, <2>6, <2>7 DEF Inv, Agreed, Left, PrometheusK8sEtcdSecret
  <2> QED  BY <2>6, <2>8, <2>9 DEF Inv
<1>3. CASE PrometheusK8s
  <2>1. Runs("prometheus", "resource") /\ Passes("prometheus")
    BY <1>3 DEF PrometheusK8s
  <2>2. at["prometheus"] = 3  BY <2>1, Positions DEF Inv
  <2>3. /\ at'["prometheus"] = 4
        /\ at'["grafana"] = at["grafana"] /\ at'["telemeter"] = at["telemeter"]
    BY <2>1, <2>2, PassesTo
  <2>4. etcd' = IF factory.etcd THEN etcd \cup {"mountedSecret"} ELSE etcd \ {"mountedSecret"}
    BY <1>3 DEF PrometheusK8s, With
  <2>5. etcd' \subseteq EtcdObjects /\ writes' \in BOOLEAN /\ client' \in BOOLEAN
    BY <1>3, <2>4 DEF Inv, Shape, TypeOK, EtcdObjects, PrometheusK8s, SendsItself
  <2>6. Shape' /\ Asked' /\ RejectedForItsDocuments' /\ pc' = "tasks"
    BY <2>1, <2>5, PassesShape
  <2>7. factory' = factory /\ pc = "tasks" /\ failing' = failing
    BY <2>1 DEF Runs, Passes
  <2>8. Mounted'
    BY <2>2, <2>3, <2>4, <2>7 DEF Inv, Mounted, MountsAreDefined
  <2>9. Agreed'
    BY <1>3, <2>2, <2>3, <2>4, <2>6, <2>7 DEF Inv, Agreed, Left, PrometheusK8s
  <2> QED  BY <2>6, <2>8, <2>9 DEF Inv
<1>4. CASE PrometheusK8sEtcdServiceMonitor
  <2>1. Runs("prometheus", "monitor") /\ Passes("prometheus")
    BY <1>4 DEF PrometheusK8sEtcdServiceMonitor
  <2>2. at["prometheus"] = 4  BY <2>1, Positions DEF Inv
  <2>3. /\ at'["prometheus"] = 5
        /\ at'["grafana"] = at["grafana"] /\ at'["telemeter"] = at["telemeter"]
    BY <2>1, <2>2, PassesTo
  <2>4. etcd' = IF factory.etcd THEN etcd \cup {"monitor"} ELSE etcd \ {"monitor"}
    BY <1>4 DEF PrometheusK8sEtcdServiceMonitor, With
  <2>5. etcd' \subseteq EtcdObjects /\ writes' \in BOOLEAN /\ client' \in BOOLEAN
    BY <1>4, <2>4 DEF Inv, Shape, TypeOK, EtcdObjects, PrometheusK8sEtcdServiceMonitor
  <2>6. Shape' /\ Asked' /\ RejectedForItsDocuments' /\ pc' = "tasks"
    BY <2>1, <2>5, PassesShape
  <2>7. factory' = factory /\ pc = "tasks" /\ failing' = failing
    BY <2>1 DEF Runs, Passes
  <2>8. Mounted'
    BY <2>2, <2>3, <2>4, <2>7 DEF Inv, Mounted, MountsAreDefined
  <2>9. Agreed'
    BY <1>4, <2>2, <2>3, <2>4, <2>6, <2>7 DEF Inv, Agreed, Left, PrometheusK8sEtcdServiceMonitor
  <2> QED  BY <2>6, <2>8, <2>9 DEF Inv
<1> QED  BY <1>1, <1>2, <1>3, <1>4

\* The steps of telemeter.
LEMMA TelemeterInv ==
    ASSUME Inv, TelemeterClient \/ generateTelemeterWhitelistRec
    PROVE  Inv'
<1> USE DEF Tasks
<1>1. CASE TelemeterClient
  <2>1. Runs("telemeter", "deployment") /\ Passes("telemeter")
    BY <1>1 DEF TelemeterClient
  <2>2. at["telemeter"] = 1  BY <2>1, Positions DEF Inv
  <2>3. /\ at'["telemeter"] = 2
        /\ at'["grafana"] = at["grafana"] /\ at'["prometheus"] = at["prometheus"]
    BY <2>1, <2>2, PassesTo
  <2>4. etcd' = etcd
    BY <1>1 DEF TelemeterClient
  <2>5. etcd' \subseteq EtcdObjects /\ writes' \in BOOLEAN /\ client' \in BOOLEAN
    BY <1>1, <2>4 DEF Inv, Shape, TypeOK, EtcdObjects, TelemeterClient
  <2>6. Shape' /\ Asked' /\ RejectedForItsDocuments' /\ pc' = "tasks"
    BY <2>1, <2>5, PassesShape
  <2>7. factory' = factory /\ pc = "tasks" /\ failing' = failing
    BY <2>1 DEF Runs, Passes
  <2>8. Mounted'
    BY <2>2, <2>3, <2>4, <2>7 DEF Inv, Mounted, MountsAreDefined
  <2>9. Agreed'
    BY <1>1, <2>2, <2>3, <2>4, <2>6, <2>7 DEF Inv, Agreed, Left, TelemeterClient
  <2> QED  BY <2>6, <2>8, <2>9 DEF Inv
<1>2. CASE generateTelemeterWhitelistRec
  <2>1. Runs("telemeter", "rule") /\ Passes("telemeter")
    BY <1>2 DEF generateTelemeterWhitelistRec
  <2>2. at["telemeter"] = 2  BY <2>1, Positions DEF Inv
  <2>3. /\ at'["telemeter"] = 3
        /\ at'["grafana"] = at["grafana"] /\ at'["prometheus"] = at["prometheus"]
    BY <2>1, <2>2, PassesTo
  <2>4. etcd' = etcd
    BY <1>2 DEF generateTelemeterWhitelistRec
  <2>5. etcd' \subseteq EtcdObjects /\ writes' \in BOOLEAN /\ client' \in BOOLEAN
    BY <1>2, <2>4 DEF Inv, Shape, TypeOK, EtcdObjects, generateTelemeterWhitelistRec
  <2>6. Shape' /\ Asked' /\ RejectedForItsDocuments' /\ pc' = "tasks"
    BY <2>1, <2>5, PassesShape
  <2>7. factory' = factory /\ pc = "tasks" /\ failing' = failing
    BY <2>1 DEF Runs, Passes
  <2>8. Mounted'
    BY <2>2, <2>3, <2>4, <2>7 DEF Inv, Mounted, MountsAreDefined
  <2>9. Agreed'
    BY <1>2, <2>2, <2>3, <2>4, <2>6, <2>7 DEF Inv, Agreed, Left, generateTelemeterWhitelistRec
  <2> QED  BY <2>6, <2>8, <2>9 DEF Inv
<1> QED  BY <1>1, <1>2

\* A task fails: its next steps, which would have mounted something, are not taken.
LEMMA TaskFailsInv ==
    ASSUME Inv, NEW t \in Tasks, TaskFails(t)
    PROVE  Inv'
<1>1. /\ at \in [Tasks -> 1..5] /\ at["grafana"] \in 1..3 /\ at["telemeter"] \in 1..3
      /\ \A u \in Tasks : at[u] \in 1..(Len(Steps[u]) + 1)
  BY DEF Inv, Shape, TypeOK
<1>2. \A u \in Tasks : Len(Steps[u]) \in 2..4  BY Lengths DEF Tasks
<1>3. Len(Steps[t]) + 1 \in 1..5 /\ Len(Steps[t]) + 1 \in 1..(Len(Steps[t]) + 1)
  <2>1. \A n \in 2..4 : n + 1 \in 1..5 /\ n + 1 \in 1..(n + 1)  OBVIOUS
  <2> QED  BY <1>2, <2>1, Zenon
<1>4. /\ at' \in [Tasks -> 1..5]
      /\ \A u \in Tasks : at'[u] = IF u = t THEN Len(Steps[u]) + 1 ELSE at[u]
  BY <1>1, <1>3 DEF TaskFails
<1>5. \A u \in Tasks : at'[u] \in 1..(Len(Steps[u]) + 1)  BY <1>1, <1>3, <1>4
<1>6. /\ at'["grafana"] \in {at["grafana"], 3} /\ at'["telemeter"] \in {at["telemeter"], 3}
      /\ at'["prometheus"] \in {at["prometheus"], 5}
  <2>1. /\ at'["grafana"] \in {at["grafana"], Len(Steps["grafana"]) + 1}
        /\ at'["telemeter"] \in {at["telemeter"], Len(Steps["telemeter"]) + 1}
        /\ at'["prometheus"] \in {at["prometheus"], Len(Steps["prometheus"]) + 1}
    <3>1. ASSUME NEW u \in Tasks PROVE at'[u] \in {at[u], Len(Steps[u]) + 1}
      BY <1>4, Zenon
    <3> QED  BY <3>1, Zenon DEF Tasks
  <2> QED  BY <2>1, Lengths
<1>7. pc = "tasks" /\ pc' = "tasks" /\ failing' = TRUE  BY DEF TaskFails
<1>8. TypeOK'  BY <1>5, <1>7 DEF Inv, Shape, TypeOK, TaskFails, cluster
<1>9. Shape'  BY <1>1, <1>4, <1>6, <1>7, <1>8 DEF Inv, Shape, TaskFails, Making
<1>10. Asked' /\ RejectedForItsDocuments' /\ Agreed'
  BY <1>7 DEF Asked, Making, RejectedForItsDocuments, Agreed
<1>11. Mounted'
  BY <1>6, <1>7 DEF Inv, Mounted, MountsAreDefined, TaskFails, cluster
<1> QED  BY <1>9, <1>10, <1>11 DEF Inv

\* All the tasks have ended.
LEMMA RunAllReturnsInv ==
    ASSUME Inv, RunAllReturns
    PROVE  Inv'
<1>1. at["grafana"] = 3 /\ at["prometheus"] = 5 /\ at["telemeter"] = 3
  <2>1. /\ at["grafana"] = Len(Steps["grafana"]) + 1
        /\ at["prometheus"] = Len(Steps["prometheus"]) + 1
        /\ at["telemeter"] = Len(Steps["telemeter"]) + 1
    BY Zenon DEF RunAllReturns, Tasks
  <2> QED  BY <2>1, Lengths
<1>2. pc = "tasks" /\ pc' = IF failing THEN "failed" ELSE "ok"  BY DEF RunAllReturns
<1>3. TypeOK'  BY <1>2 DEF Inv, Shape, TypeOK, RunAllReturns, cluster, Ended
<1>4. Shape'  BY <1>2, <1>3 DEF Inv, Shape, RunAllReturns, Making
<1>5. Asked' /\ RejectedForItsDocuments'  BY <1>2 DEF Asked, Making, RejectedForItsDocuments
<1>6. Mounted'
  BY <1>2 DEF Inv, Mounted, MountsAreDefined, RunAllReturns, cluster
<1>7. failing \in BOOLEAN  BY DEF Inv, Shape, TypeOK
<1>8. Agreed'
  BY <1>1, <1>2, <1>7 DEF Inv, Agreed, Left, RunAllReturns, cluster
<1> QED  BY <1>4, <1>5, <1>6, <1>8 DEF Inv

-----------------------------------------------------------------------------
(* The theorems.                                                           *)

\* The invariant is inductive: Spec is in it.
THEOREM Invariance == Spec => []Inv
<1>1. Inv /\ [Next]_vars => Inv'
  <2> SUFFICES ASSUME Inv, [Next]_vars PROVE Inv'
    OBVIOUS
  <2>1. CASE \E d \in Documents : loadConfig(d)
    BY <2>1, LoadConfigInv
  <2>2. CASE \E answer \in UserAnswers : loadUserWorkloadConfig(answer)
    BY <2>2, LoadUserWorkloadConfigInv
  <2>3. CASE \E answer \in {"", "cluster"} :
                LoadClusterID(answer) \/ LoadToken(answer) \/ LoadProxy(answer)
    BY <2>3, LoadClusterIDInv, LoadTokenInv, LoadProxyInv
  <2>4. CASE \E answer \in BOOLEAN : LoadEtcd(answer)
    BY <2>4, LoadEtcdInv
  <2>5. CASE StartTasks
    BY <2>5, StartTasksInv
  <2>6. CASE GrafanaDashboardDefinitions \/ GrafanaDeployment
    BY <2>6, GrafanaInv
  <2>7. CASE \/ PrometheusK8sRules \/ PrometheusK8s \/ PrometheusK8sEtcdServiceMonitor
             \/ \E answer \in BOOLEAN : PrometheusK8sEtcdSecret(answer)
    BY <2>7, PrometheusInv
  <2>8. CASE TelemeterClient \/ generateTelemeterWhitelistRec
    BY <2>8, TelemeterInv
  <2>9. CASE \E t \in Tasks : TaskFails(t)
    BY <2>9, TaskFailsInv
  <2>10. CASE RunAllReturns
    BY <2>10, RunAllReturnsInv
  <2>11. CASE \E p \in Processes : Restart(p)
    BY <2>11, RestartInv
  <2>12. CASE UNCHANGED vars
    <3>1. TypeOK'  BY <2>12 DEF vars, Inv, Shape, TypeOK
    <3>2. Shape'  BY <2>12, <3>1 DEF vars, Inv, Shape
    <3>3. Asked' /\ RejectedForItsDocuments' /\ Mounted'
      BY <2>12 DEF vars, Inv, Asked, RejectedForItsDocuments, Mounted, MountsAreDefined
    <3>4. Agreed'  BY <2>12 DEF vars, Inv, Agreed, Left
    <3> QED  BY <3>2, <3>3, <3>4 DEF Inv
  <2> QED
    BY <2>1, <2>2, <2>3, <2>4, <2>5, <2>6, <2>7, <2>8, <2>9, <2>10, <2>11, <2>12 DEF Next
<1> QED  BY <1>1, InitInv, PTL DEF Spec

\* Type correctness: no section of a configuration that is used is nil.
THEOREM TypeCorrect == Spec => []TypeOK
<1>1. Inv => TypeOK  BY DEF Inv, Shape
<1> QED  BY <1>1, Invariance, PTL

\* What administrators write wins over what the cluster answers, for any documents.
THEOREM AdministratorsAreHeard == Spec => []AdministratorWins
<1>1. Inv => AdministratorWins
  <2> SUFFICES ASSUME Inv, pc = "set" PROVE AdministratorWins
    BY DEF AdministratorWins
  <2>1. c \in Configs /\ Asked  BY DEF Inv, Shape, TypeOK
  <2>2. /\ doc.id # "" => c.id = doc.id
        /\ doc.token # "" => c.token = doc.token
        /\ doc.proxy # "" => c.proxy = doc.proxy
        /\ doc.url = "admin" => c.url = "admin"
        /\ c.disabled = doc.disabled
    BY <2>1 DEF Asked, Making
  <2>3. c.url = "admin" => SetRemoteWrite(c, process.remoteWrite).url = "admin"
    BY <2>1 DEF SetRemoteWrite, Configs
  <2> QED  BY <2>2, <2>3 DEF AdministratorWins, IsEnabled
<1> QED  BY <1>1, Invariance, PTL

\* A configuration is rejected for the content of its two ConfigMaps, or because the user's
\* could not be read, and for nothing else, and what cannot be used never passes for the
\* defaults, for any documents and answers (Config in operator.go, NewConfigFromString).
THEOREM RejectsWhatItCannotUse == Spec => []RejectedForItsDocuments
<1>1. Inv => RejectedForItsDocuments  BY DEF Inv
<1> QED  BY <1>1, Invariance, PTL

\* Telemetry is sent once, by the client or by Prometheus.
THEOREM TelemetryIsSentOnce == Spec => []TelemetryOnce
<1>1. Inv => TelemetryOnce
  <2> SUFFICES ASSUME Inv, pc = "ok" PROVE TelemetryOnce
    BY DEF TelemetryOnce
  <2>1. /\ writes = SendsItself(factory)
        /\ client = (factory.telemetry /\ ~factory.remoteWrite)
    BY DEF Inv, Agreed, Left
  <2>2. factory.telemetry \in BOOLEAN /\ factory.remoteWrite \in BOOLEAN
    BY DEF Inv, Shape, TypeOK
  <2> QED  BY <2>1, <2>2 DEF TelemetryOnce, SendsItself
<1> QED  BY <1>1, Invariance, PTL

\* What the pods of Prometheus and Grafana mount for etcd is there.
THEOREM MountsAreThere == Spec => []MountsAreDefined
<1>1. Inv => MountsAreDefined  BY DEF Inv, Mounted
<1> QED  BY <1>1, Invariance, PTL

\* The five manifests about etcd agree after a sync that succeeded.
THEOREM EtcdAsAWhole == Spec => []EtcdAllOrNothing
<1>1. Inv => EtcdAllOrNothing
  <2> SUFFICES ASSUME Inv, pc = "ok" PROVE EtcdAllOrNothing
    BY DEF EtcdAllOrNothing
  <2>1. \A o \in {"mountedDashboard", "rules", "mountedSecret", "monitor"} :
            o \in etcd <=> factory.etcd
    BY DEF Inv, Agreed, Left
  <2>2. EtcdObjects \ {"secret", "dashboard"}
           = {"mountedDashboard", "rules", "mountedSecret", "monitor"}
    BY DEF EtcdObjects
  <2> QED  BY <2>1, <2>2 DEF EtcdAllOrNothing
<1> QED  BY <1>1, Invariance, PTL

\* The relabelling rule that Prometheus has keeps what the selectors select, for any
\* well-formed selectors without a "|" of their own and any series
\* (LabelSelectorsToRelabelConfig, which joins values and rows without parentheses).
THEOREM KeepsTheSelected == Spec => []KeepsWhatIsSelected
<1>1. Inv => KeepsWhatIsSelected
  <2> SUFFICES ASSUME Inv, pc = "ok", SendsItself(factory), factory.matches # <<>>,
                      WellFormed(factory.matches), Grouped(factory.matches),
                      NEW s \in Series
               PROVE  /\ Keeps(keep, s) => Selected(factory.matches, s)
                      /\ SelectedPlainly(factory.matches, s) => Keeps(keep, s)
    BY DEF KeepsWhatIsSelected
  <2>1. /\ keep = LabelSelectorsToRelabelConfig(factory.matches)
        /\ parseMetricSelectorFromArray(factory.matches)
    BY DEF Inv, Agreed, Left
  <2>2. \A l \in Labels(factory.matches) : s[l] \in STRING
    BY SeriesHaveLabels DEF Inv, Shape, TypeOK
  <2> QED  BY <2>1, <2>2, KeptIsSelected, SelectedIsKept
<1> QED  BY <1>1, Invariance, PTL

\* The rule of the client counts what the client sends, but for series with labels of other
\* selectors, and nothing whose metric no selector names, for any well-formed selectors and
\* any series (GroupLabelSelectors).
THEOREM CountsTheSent == Spec => []CountsWhatIsSent
<1>1. Inv => CountsWhatIsSent
  <2> SUFFICES ASSUME Inv, pc = "ok", client, factory.matches # <<>>,
                      WellFormed(factory.matches),
                      parseMetricSelectorFromArray(factory.matches), NEW s \in Series
               PROVE  /\ SelectedPlainly(factory.matches, s) => Counts(count, s)
                      /\ Counts(count, s) =>
                            \E i \in DOMAIN factory.matches : SelectsName(factory.matches[i], s)
    BY DEF CountsWhatIsSent
  <2>1. /\ client = (factory.telemetry /\ ~factory.remoteWrite)
        /\ factory.telemetry /\ ~factory.remoteWrite
             => count = GroupLabelSelectors(factory.matches)
    <3>1. Left(3, 5, 3)  BY DEF Inv, Agreed
    <3>2. 3 > 1  OBVIOUS
    <3> QED  BY <3>1, <3>2, Zenon DEF Left
  <2>2. count = GroupLabelSelectors(factory.matches)  BY <2>1
  <2> QED  BY <2>2, SelectedIsCounted, CountedIsNamed
<1> QED  BY <1>1, Invariance, PTL
=============================================================================
