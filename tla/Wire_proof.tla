----------------------------- MODULE Wire_proof -----------------------------
(***************************************************************************)
(* Proofs about the classification of info blocks, for every block and     *)
(* every configuration: which message identifier an alert is broadcast on, *)
(* and that tests and alerts in earnest are kept apart on the air.         *)
(*                                                                         *)
(* About what is on the air: what handleRestart leaves of a target means   *)
(* the cells that restarted and no others, and as long as each end         *)
(* understands the other, every alert is broadcast where it should be.     *)
(*                                                                         *)
(* And that each end does understand the other: whatever is encoded by one *)
(* is decoded by the other to what was meant, for every message, area and  *)
(* eNB, by the lemmas of Sbcap_proof on what is written and read.          *)
(***************************************************************************)
EXTENDS Wire, Sbcap_proof, FiniteSetTheorems, FunctionTheorems

\* The labels of tests, of the classes that are never a test, and of the grid.
TestLabels == {<<"test">>, <<"exercise">>}
StateTest == {<<"state-local-test">>}
Words == {<<"presidential">>, <<"amber">>, <<"public-safety">>}
Grid == {"Extreme", "Severe"} \X {"Immediate", "Expected"} \X {"Observed", "Likely"}

\* What a part of an info block may say if it does not say test, and if it may.
Earnest == {<<>>} \cup Words \cup Grid
Labels == Earnest \cup TestLabels \cup StateTest

-----------------------------------------------------------------------------
(* Which label comes first *)

\* The first label that says something, if one does; none if none does.
LEMMA FirstLabelIs ==
    ASSUME NEW S, NEW labels \in Seq(S)
    PROVE  \/ FirstLabel(labels) = <<>> /\ \A i \in DOMAIN labels : labels[i] = <<>>
           \/ \E i \in DOMAIN labels : /\ labels[i] # <<>> /\ FirstLabel(labels) = labels[i]
                                       /\ \A j \in DOMAIN labels : j < i => labels[j] = <<>>
  <1> DEFINE found == {i \in DOMAIN labels : labels[i] # <<>>}
  <1>1. found \in SUBSET Nat /\ DOMAIN labels \subseteq Nat
    OBVIOUS
  <1>2. CASE found = {}
    BY <1>2 DEF FirstLabel
  <1>3. CASE found # {}
    <2>1. Min(found) \in found /\ \A x \in found : Min(found) <= x
      BY <1>1, <1>3, MinIsLeast
    <2>2. FirstLabel(labels) = labels[Min(found)]
      BY <1>3 DEF FirstLabel
    <2>3. ASSUME NEW j \in DOMAIN labels, j < Min(found) PROVE labels[j] = <<>>
      <3>1. j \in Nat /\ Min(found) \in Nat
        BY <1>1, <2>1
      <3>2. ~(Min(found) <= j)
        BY <2>3, <3>1
      <3>3. QED
        BY <2>1, <3>2
    <2>4. QED
      BY <2>1, <2>2, <2>3
  <1>4. QED
    BY <1>2, <1>3

-----------------------------------------------------------------------------
(* What the parts of a block say *)

\* A block whose status is Test or Exercise says so; no other status says anything.
LEMMA StatusLabels ==
    ASSUME NEW status
    PROVE  /\ StatusLabel(status) \in Labels
           /\ status \in {"Test", "Exercise"} => StatusLabel(status) \in TestLabels
           /\ status \notin {"Test", "Exercise"} => StatusLabel(status) \in Earnest
  BY Zenon DEF StatusLabel, Labels, Earnest, TestLabels

\* An event code is the class of a test only as the SAME code RMT.
LEMMA EventLabels ==
    ASSUME NEW code
    PROVE  /\ EventLabel(code) \in Labels
           /\ code # [valueName |-> "SAME", value |-> "RMT"] => EventLabel(code) \in Earnest
  BY Zenon DEF EventLabel, Labels, Earnest, TestLabels, Words

\* A parameter is the class of a test only if it says test.
LEMMA HandlingLabels ==
    ASSUME NEW p
    PROVE  /\ HandlingLabel(p) \in Labels
           /\ "test" \notin p.value => HandlingLabel(p) \in Earnest
  BY Zenon DEF HandlingLabel, Labels, Earnest, Words, TestLabels, StateTest

\* The grid never says test.
LEMMA GridLabels ==
    ASSUME NEW info
    PROVE  GridLabel(info) \in Earnest
  BY DEF GridLabel, Earnest, Grid

-----------------------------------------------------------------------------
(* The class of a block *)

\* What the parts of a block say, in the order they are looked at.
SaidBy(info) ==
    <<StatusLabel(info.status)>>
    \o [i \in 1..Len(info.eventCodes) |-> EventLabel(info.eventCodes[i])]
    \o [i \in 1..Len(info.parameters) |-> HandlingLabel(info.parameters[i])]
    \o <<GridLabel(info)>>

\* Four lists put together are a list, and begin as the first begins.
LEMMA FourTogether ==
    ASSUME NEW S, NEW x \in S, NEW a \in Seq(S), NEW b \in Seq(S), NEW y \in S
    PROVE  /\ <<x>> \o a \o b \o <<y>> \in Seq(S)
           /\ 1 \in DOMAIN (<<x>> \o a \o b \o <<y>>)
           /\ (<<x>> \o a \o b \o <<y>>)[1] = x
  <1>1. <<x>> \in Seq(S) /\ Len(<<x>>) = 1 /\ <<x>>[1] = x /\ <<y>> \in Seq(S)
    OBVIOUS
  <1>2. <<x>> \o a \in Seq(S) /\ Len(<<x>> \o a) >= 1 /\ (<<x>> \o a)[1] = x
    BY <1>1
  <1>3. <<x>> \o a \o b \in Seq(S) /\ Len(<<x>> \o a \o b) >= 1 /\ (<<x>> \o a \o b)[1] = x
    BY <1>2
  <1>4. QED
    BY <1>1, <1>3

\* What a list of members of S has is in S.
LEMMA MemberOf ==
    ASSUME NEW S, NEW s \in Seq(S), NEW i \in 1..Len(s)
    PROVE  s[i] \in S
  OBVIOUS

\* The class of a test or an exercise is that of its status, whatever else it says.
LEMMA ClassOfTest ==
    ASSUME NEW info \in InfoBlocks, info.status \in {"Test", "Exercise"}
    PROVE  Classify(info) \in TestLabels
  <1>1. Len(info.eventCodes) \in Nat /\ Len(info.parameters) \in Nat
    BY DEF InfoBlocks
  <1>2. [i \in 1..Len(info.eventCodes) |-> EventLabel(info.eventCodes[i])] \in Seq(Labels)
    <2>1. \A i \in 1..Len(info.eventCodes) : EventLabel(info.eventCodes[i]) \in Labels
      BY EventLabels
    <2>2. QED
      BY <1>1, <2>1
  <1>3. [i \in 1..Len(info.parameters) |-> HandlingLabel(info.parameters[i])] \in Seq(Labels)
    <2>1. \A i \in 1..Len(info.parameters) : HandlingLabel(info.parameters[i]) \in Labels
      BY HandlingLabels
    <2>2. QED
      BY <1>1, <2>1
  <1>4. StatusLabel(info.status) \in TestLabels /\ StatusLabel(info.status) \in Labels
    BY StatusLabels
  <1>5. GridLabel(info) \in Labels
    BY GridLabels DEF Labels
  <1>6. /\ SaidBy(info) \in Seq(Labels) /\ 1 \in DOMAIN SaidBy(info)
        /\ SaidBy(info)[1] = StatusLabel(info.status)
    BY <1>2, <1>3, <1>4, <1>5, FourTogether DEF SaidBy
  <1>7. SaidBy(info)[1] # <<>>
    <2>1. <<"test">> # <<>> /\ <<"exercise">> # <<>>
      OBVIOUS
    <2>2. QED
      BY <1>4, <1>6, <2>1, Zenon DEF TestLabels
  <1>8. FirstLabel(SaidBy(info)) = SaidBy(info)[1]
    <2>1. PICK i \in DOMAIN SaidBy(info) :
             /\ FirstLabel(SaidBy(info)) = SaidBy(info)[i]
             /\ \A j \in DOMAIN SaidBy(info) : j < i => SaidBy(info)[j] = <<>>
      BY <1>6, <1>7, FirstLabelIs
    <2>2. i \in Nat /\ i >= 1
      BY <1>6
    <2>3. ~(1 < i)
      BY <1>6, <1>7, <2>1
    <2>4. i = 1
      BY <2>2, <2>3
    <2>5. QED
      BY <2>1, <2>4
  <1>9. QED
    BY <1>4, <1>6, <1>8 DEF Classify, SaidBy

\* An actual alert that nowhere says test is not of the class of a test.
LEMMA ClassInEarnest ==
    ASSUME NEW info \in InfoBlocks, info.status = "Actual", ~SaysTest(info)
    PROVE  Classify(info) \in Earnest
  <1>1. /\ info.eventCodes \in Seq([valueName : STRING, value : STRING])
        /\ Len(info.eventCodes) \in Nat /\ Len(info.parameters) \in Nat
    BY DEF InfoBlocks
  <1>2. [i \in 1..Len(info.eventCodes) |-> EventLabel(info.eventCodes[i])] \in Seq(Earnest)
    <2>1. ASSUME NEW i \in 1..Len(info.eventCodes)
          PROVE  EventLabel(info.eventCodes[i]) \in Earnest
      <3>1. info.eventCodes[i] \in [valueName : STRING, value : STRING]
        BY <1>1, MemberOf
      <3>2. info.eventCodes[i] # [valueName |-> "SAME", value |-> "RMT"]
        BY DEF SaysTest
      <3>3. QED
        BY <3>1, <3>2, EventLabels
    <2>2. QED
      BY <1>1, <2>1
  <1>3. [i \in 1..Len(info.parameters) |-> HandlingLabel(info.parameters[i])] \in Seq(Earnest)
    <2>1. \A i \in 1..Len(info.parameters) : HandlingLabel(info.parameters[i]) \in Earnest
      BY HandlingLabels DEF SaysTest
    <2>2. QED
      BY <1>1, <2>1
  <1>4. StatusLabel(info.status) \in Earnest
    BY StatusLabels
  <1>5. GridLabel(info) \in Earnest
    BY GridLabels
  <1>6. SaidBy(info) \in Seq(Earnest)
    BY <1>2, <1>3, <1>4, <1>5, FourTogether DEF SaidBy
  <1>7. FirstLabel(SaidBy(info)) \in Earnest
    <2>1. CASE FirstLabel(SaidBy(info)) = <<>>
      BY <2>1 DEF Earnest
    <2>2. CASE \E i \in DOMAIN SaidBy(info) : FirstLabel(SaidBy(info)) = SaidBy(info)[i]
      BY <1>6, <2>2
    <2>3. QED
      BY <1>6, <2>1, <2>2, FirstLabelIs
  <1>8. QED
    BY <1>7 DEF Classify, SaidBy

-----------------------------------------------------------------------------
(* The identifier *)

\* The built-in identifiers of the classes.
LEMMA BuiltIn ==
    ASSUME NEW label
    PROVE  /\ label \in TestLabels => Atis(label) \in {4380, 4381}
           /\ label \in Words \cup Grid => Atis(label) \notin {4380, 4381, 4398}
  <1>1. label \in TestLabels => Atis(label) \in {4380, 4381}
    BY DEF Atis, TestLabels
  <1>2. label \in Words => Atis(label) \in {4370, 4379, 4396}
    BY DEF Atis, Words
  <1>3. ASSUME label \in Grid PROVE Atis(label) \in 4371..4378
    <2>1. /\ label # <<"test">> /\ label # <<"exercise">> /\ label # <<"presidential">>
          /\ label # <<"amber">> /\ label # <<"public-safety">> /\ label # <<"state-local-test">>
      BY <1>3 DEF Grid
    <2>2. Atis(label) = 4371 + (IF label[1] = "Severe" THEN 4 ELSE 0)
                          + (IF label[2] = "Expected" THEN 2 ELSE 0)
                          + (IF label[3] = "Likely" THEN 1 ELSE 0)
      BY <2>1 DEF Atis
    <2>3. QED
      BY <2>2
  <1>4. QED
    BY <1>1, <1>2, <1>3

\* The identifier of a test or an exercise is a test's.
LEMMA IdentifierOfTest ==
    ASSUME NEW info \in InfoBlocks, info.status \in {"Test", "Exercise"}, ConfigurationKeepsTests
    PROVE  MessageIdentifierOf(info) \in {4380, 4381}
  <1> DEFINE label == Classify(info)
  <1>1. label \in TestLabels
    BY ClassOfTest
  <1>2. label # <<>>
    <2>1. <<"test">> # <<>> /\ <<"exercise">> # <<>>
      OBVIOUS
    <2>2. QED
      BY <1>1, <2>1, Zenon DEF TestLabels
  <1>3. label \in DOMAIN Overrides => Overrides[label] \in {4380, 4381}
    <2>1. \A l \in DOMAIN Overrides : l \in TestLabels => Overrides[l] \in {4380, 4381}
      BY DEF ConfigurationKeepsTests, TestLabels
    <2>2. QED
      BY <1>1, <2>1
  <1>4. Atis(label) \in {4380, 4381}
    BY <1>1, BuiltIn
  <1>5. QED
    BY <1>2, <1>3, <1>4 DEF MessageIdentifierOf

\* The identifier of an actual alert that nowhere says test is not a test's.
LEMMA IdentifierInEarnest ==
    ASSUME NEW info \in InfoBlocks, info.status = "Actual", ~SaysTest(info), ConfigurationKeepsTests
    PROVE  MessageIdentifierOf(info) \notin {4380, 4381, 4398}
  <1> DEFINE label == Classify(info)
  <1>1. label \in Earnest
    BY ClassInEarnest
  <1>2. label \notin TestLabels \cup StateTest
    BY <1>1 DEF Earnest, Words, Grid, TestLabels, StateTest
  <1>3. label \in DOMAIN Overrides => Overrides[label] \notin {4380, 4381, 4398}
    <2>1. \A l \in DOMAIN Overrides :
            l \notin TestLabels \cup StateTest => Overrides[l] \notin {4380, 4381, 4398}
      <3> SUFFICES ASSUME NEW l \in DOMAIN Overrides, l \notin TestLabels \cup StateTest
                   PROVE  Overrides[l] \notin {4380, 4381, 4398}
        OBVIOUS
      <3>1. l \notin {<<"test">>, <<"exercise">>, <<"state-local-test">>}
        BY Zenon DEF TestLabels, StateTest
      <3>2. QED
        BY <3>1 DEF ConfigurationKeepsTests
    <2>2. QED
      BY <1>2, <2>1
  <1>4. label # <<>> => Atis(label) \notin {4380, 4381, 4398}
    BY <1>1, BuiltIn DEF Earnest
  <1>5. DefaultMessageIdentifier \notin {4380, 4381, 4398}
    BY DEF ConfigurationKeepsTests
  <1>6. QED
    BY <1>3, <1>4, <1>5 DEF MessageIdentifierOf

-----------------------------------------------------------------------------
(* What is on the air *)

\* Whatever happens, one of the given scenarios is played.
LEMMA ScenarioStays == Spec => [](scenario \in Scenarios)
  <1>1. Init => scenario \in Scenarios
    BY DEF Init
  <1>2. scenario \in Scenarios /\ [Next]_vars => (scenario \in Scenarios)'
    BY DEF Next, vars, Publish, Cancel, Rebroadcast, ReadLoop, Timeout, MmeAccepts, MmeRefuses,
           EnbRestarts, EnbFails
  <1>3. QED
    BY <1>1, <1>2, PTL DEF Spec

\* Under a configuration that keeps tests apart, a test or an exercise is on the
\* air under a test's identifier and an alert in earnest never is, for every
\* block: Classify looks at the status first, and no other part of a block that
\* does not say test makes it one.
THEOREM TestsStayTestsHolds == ConfigurationKeepsTests => (Spec => []TestsStayTests)
  <1> SUFFICES ASSUME ConfigurationKeepsTests
               PROVE  Spec => []TestsStayTests
    OBVIOUS
  <1>1. scenario \in Scenarios => TestsStayTests
    <2> SUFFICES ASSUME scenario \in Scenarios,
                        NEW c \in Cells, NEW b \in air[c], NEW d \in scenario.drafts, b.ids = Ids(d)
                 PROVE  /\ d.info.status \in {"Test", "Exercise"} => b.ids[1] \in {4380, 4381}
                        /\ d.info.status = "Actual" /\ ~SaysTest(d.info) =>
                             b.ids[1] \notin {4380, 4381, 4398}
      BY DEF TestsStayTests
    <2>1. b.ids[1] = MessageIdentifierOf(d.info)
      BY DEF Ids
    <2>2. d.info \in InfoBlocks
      BY ScenariosAssumption
    <2>3. QED
      BY <2>1, <2>2, IdentifierOfTest, IdentifierInEarnest
  <1>2. QED
    BY <1>1, ScenarioStays, PTL

-----------------------------------------------------------------------------
(* Induction, and lists that are built step by step *)

\* f begins with x and goes on by the steps of g, k of them.
Follows(f, x, g, k) == f[0] = x /\ \A i \in 1..k : f[i] = g[i, f[i - 1]]

\* A function on 0..n can be defined by its first value and its steps.
LEMMA StepByStep ==
    ASSUME NEW n \in Nat, NEW X, NEW x \in X, NEW g \in [(1..n) \X X -> X]
    PROVE  \E f \in [0..n -> X] : Follows(f, x, g, n)
  <1> DEFINE S == {k \in 0..n : \E f \in [0..n -> X] : Follows(f, x, g, k)}
  <1>1. 0 \in S
    <2> DEFINE f == [i \in 0..n |-> x]
    <2>1. f \in [0..n -> X] /\ f[0] = x
      OBVIOUS
    <2>2. Follows(f, x, g, 0)
      BY <2>1 DEF Follows
    <2> HIDE DEF f
    <2>3. QED
      BY <2>1, <2>2
  <1>2. ASSUME NEW k \in 1..n, k - 1 \in S PROVE k \in S
    <2>1. k \in Nat /\ k - 1 \in 0..n /\ k \in 0..n /\ k # 0
      OBVIOUS
    <2>2. PICK f \in [0..n -> X] : Follows(f, x, g, k - 1)
      BY <1>2
    <2>3. f[k - 1] \in X
      BY <2>1
    <2>4. g[k, f[k - 1]] \in X
      BY <2>3
    <2> DEFINE h == [f EXCEPT ![k] = g[k, f[k - 1]]]
    <2>5. h \in [0..n -> X] /\ h[k] = g[k, f[k - 1]]
      BY <2>1, <2>4
    <2>6. \A i \in 0..n : i # k => h[i] = f[i]
      OBVIOUS
    <2> HIDE DEF h
    <2>7. h[0] = x
      <3>1. 0 \in 0..n /\ 0 # k
        BY <2>1
      <3>2. QED
        BY <2>2, <2>6, <3>1 DEF Follows
    <2>8. ASSUME NEW i \in 1..k PROVE h[i] = g[i, h[i - 1]]
      <3>1. i - 1 \in 0..n /\ i - 1 # k /\ i \in 0..n
        OBVIOUS
      <3>2. h[i - 1] = f[i - 1]
        BY <2>6, <3>1
      <3>3. CASE i = k
        BY <2>5, <3>2, <3>3
      <3>4. CASE i # k
        <4>1. i \in 1..(k - 1)
          BY <3>4
        <4>2. f[i] = g[i, f[i - 1]] /\ h[i] = f[i]
          BY <2>2, <2>6, <3>1, <3>4, <4>1 DEF Follows
        <4>3. QED
          BY <3>2, <4>2
      <3>5. QED
        BY <3>3, <3>4
    <2>9. Follows(h, x, g, k)
      BY <2>7, <2>8 DEF Follows
    <2>10. QED
      BY <2>1, <2>5, <2>9
  <1>3. n \in S
    <2> HIDE DEF S
    <2>1. QED
      BY <1>1, <1>2, CountingUp
  <1>4. QED
    BY <1>3

\* y, and s[i] behind it if it is in S.
With(s, S, i, y) == IF s[i] \in S THEN Append(y, s[i]) ELSE y

\* x is one of the first i of s.
Among(x, s, i) == \E j \in 1..i : s[j] = x

\* Those of s that are in S, as they are after each element of s.
Keeps(kept, s, S) ==
    /\ Those(s, S) = kept[Len(s)] /\ kept[0] = <<>>
    /\ \A i \in 1..Len(s) : kept[i] = With(s, S, i, kept[i - 1])

\* What is left of a list is built up as the list is gone through.
LEMMA ThoseStepByStep ==
    ASSUME NEW T, NEW s \in Seq(T), NEW S
    PROVE  \E kept \in [0..Len(s) -> Seq(T)] : Keeps(kept, s, S)
  <1> DEFINE n == Len(s)
             Along(f) == [i \in 0..n |-> IF i = 0 THEN <<>>
                                         ELSE IF s[i] \in S THEN Append(f[i - 1], s[i]) ELSE f[i - 1]]
             kept == CHOOSE f : f = Along(f)
             g == [p \in (1..n) \X Seq(T) |-> With(s, S, p[1], p[2])]
  <1>1. n \in Nat /\ <<>> \in Seq(T)
    OBVIOUS
  <1>2. \A i \in 1..n, y \in Seq(T) : With(s, S, i, y) \in Seq(T)
    BY DEF With
  <1>3. g \in [(1..n) \X Seq(T) -> Seq(T)]
    BY <1>2
  <1>4. PICK f \in [0..n -> Seq(T)] : Follows(f, <<>>, g, n)
    <2> HIDE DEF g, n
    <2>1. QED
      BY <1>1, <1>3, StepByStep
  <1>5. f[0] = <<>> /\ \A i \in 1..n : f[i] = With(s, S, i, f[i - 1])
    <2>1. ASSUME NEW i \in 1..n PROVE f[i] = With(s, S, i, f[i - 1])
      <3>1. i - 1 \in 0..n
        BY <1>1
      <3>2. f[i - 1] \in Seq(T)
        BY <3>1
      <3>3. g[i, f[i - 1]] = With(s, S, i, f[i - 1])
        BY <3>2
      <3>4. QED
        BY <1>4, <3>3 DEF Follows
    <2>2. QED
      BY <1>4, <2>1 DEF Follows
  <1>6. f = Along(f)
    <2>1. \A i \in 0..n : f[i] = IF i = 0 THEN <<>>
                                 ELSE IF s[i] \in S THEN Append(f[i - 1], s[i]) ELSE f[i - 1]
      <3>1. \A i \in 0..n : i = 0 \/ i \in 1..n
        BY <1>1
      <3>2. QED
        BY <1>5, <3>1 DEF With
    <2>2. QED
      BY <2>1
  <1>7. kept = Along(kept)
    BY <1>6
  <1>8. Those(s, S) = kept[n]
    BY DEF Those
  <1>9. \A i \in 0..n : kept[i] = IF i = 0 THEN <<>>
                                  ELSE IF s[i] \in S THEN Append(kept[i - 1], s[i]) ELSE kept[i - 1]
    <2> HIDE DEF kept
    <2>1. QED
      BY <1>7
  <1>10. DOMAIN kept = 0..n
    <2> HIDE DEF kept
    <2>1. QED
      BY <1>7
  <1> HIDE DEF kept
  <1>11. kept[0] = <<>> /\ \A i \in 1..n : kept[i] = With(s, S, i, kept[i - 1])
    <2>1. 0 \in 0..n /\ \A i \in 1..n : i \in 0..n /\ i # 0
      BY <1>1
    <2>2. QED
      BY <1>9, <2>1 DEF With
  <1>12. \A i \in 0..n : kept[i] \in Seq(T)
    <2> DEFINE lists == {i \in 0..n : kept[i] \in Seq(T)}
    <2>1. 0 \in lists
      <3>1. 0 \in 0..n
        BY <1>1
      <3>2. QED
        BY <1>1, <1>11, <3>1
    <2>2. \A i \in 1..n : i - 1 \in lists => i \in lists
      BY <1>2, <1>11
    <2> HIDE DEF lists
    <2>3. \A i \in 0..n : i \in lists
      <3> HIDE DEF n
      <3>1. QED
        BY <1>1, <2>1, <2>2, CountingUp
    <2>4. QED
      BY <2>3 DEF lists
  <1>13. kept \in [0..n -> Seq(T)]
    <2>1. kept = [i \in 0..n |-> kept[i]]
      BY <1>7
    <2>2. QED
      BY <1>12, <2>1
  <1>14. QED
    BY <1>8, <1>11, <1>13 DEF Keeps

\* What is left of a list is a list, of what is in the set.
LEMMA ThoseAre ==
    ASSUME NEW T, NEW s \in Seq(T), NEW S
    PROVE  /\ Those(s, S) \in Seq(T)
           /\ \A x : Among(x, Those(s, S), Len(Those(s, S))) <=> x \in S /\ Among(x, s, Len(s))
  <1> DEFINE n == Len(s)
  <1>1. n \in Nat
    OBVIOUS
  <1>0. PICK kept \in [0..n -> Seq(T)] : Keeps(kept, s, S)
    BY ThoseStepByStep
  <1>2. /\ Those(s, S) = kept[n] /\ kept[0] = <<>>
         /\ \A i \in 1..n : kept[i] = With(s, S, i, kept[i - 1])
    BY <1>0 DEF Keeps
  <1> DEFINE Good(i) == \A x : Among(x, kept[i], Len(kept[i])) <=> x \in S /\ Among(x, s, i)
             good == {i \in 0..n : Good(i)}
  <1>3. 0 \in good
    BY <1>1, <1>2 DEF Among
  <1>4. ASSUME NEW i \in 1..n, i - 1 \in good PROVE i \in good
    <2>1. Good(i - 1) /\ kept[i - 1] \in Seq(T) /\ s[i] \in T
      BY <1>4
    <2>2. ASSUME NEW x PROVE Among(x, s, i) <=> x = s[i] \/ Among(x, s, i - 1)
      BY DEF Among
    <2>3. CASE s[i] \in S
      <3>1. kept[i] = Append(kept[i - 1], s[i])
        BY <1>2, <2>3 DEF With
      <3>2. ASSUME NEW x
            PROVE  Among(x, kept[i], Len(kept[i])) <=> x = s[i] \/ Among(x, kept[i - 1], Len(kept[i - 1]))
        <4> DEFINE k == kept[i - 1]
        <4>1. k \in Seq(T) /\ kept[i] = Append(k, s[i])
          BY <2>1, <3>1
        <4> HIDE DEF k
        <4>2. /\ Len(kept[i]) = Len(k) + 1 /\ Len(k) \in Nat /\ kept[i][Len(k) + 1] = s[i]
              /\ \A j \in 1..Len(k) : kept[i][j] = k[j]
          BY <2>1, <4>1
        <4>3. \A j \in 1..Len(kept[i]) : j = Len(k) + 1 \/ j \in 1..Len(k)
          BY <4>2
        <4>4. \A j \in 1..Len(k) : j \in 1..Len(kept[i])
          BY <4>2
        <4>5. Len(k) + 1 \in 1..Len(kept[i])
          BY <4>2
        <4>6. Among(x, kept[i], Len(kept[i])) <=> x = s[i] \/ Among(x, k, Len(k))
          BY <4>2, <4>3, <4>4, <4>5, Zenon DEF Among
        <4>7. QED
          BY <4>6 DEF k
      <3>3. \A x : Among(x, kept[i], Len(kept[i])) <=> x \in S /\ Among(x, s, i)
        BY <2>1, <2>2, <2>3, <3>2
      <3>4. QED
        BY <1>1, <3>3
    <2>4. CASE s[i] \notin S
      <3>1. kept[i] = kept[i - 1]
        BY <1>2, <2>4 DEF With
      <3>2. \A x : Among(x, kept[i], Len(kept[i])) <=> x \in S /\ Among(x, s, i)
        BY <2>1, <2>2, <2>4, <3>1
      <3>3. QED
        BY <1>1, <3>2
    <2>5. QED
      BY <2>3, <2>4
  <1>5. n \in good
    <2>1. \A i \in 1..n : i - 1 \in good => i \in good
      BY <1>4
    <2> HIDE DEF good, n
    <2>2. \A i \in 0..n : i \in good
      BY <1>1, <1>3, <2>1, CountingUp
    <2>3. QED
      BY <1>1, <2>2
  <1>6. QED
    <2>1. Good(n)
      BY <1>5
    <2>2. kept[n] \in Seq(T)
      BY <1>1
    <2>3. QED
      BY <1>2, <2>1, <2>2

\* A finite set as a list has the elements of the set.
LEMMA SetAsList ==
    ASSUME NEW S, IsFiniteSet(S)
    PROVE  /\ SetToSeq(S) \in Seq(S) /\ Len(SetToSeq(S)) = Cardinality(S)
           /\ \A x \in S : \E i \in 1..Len(SetToSeq(S)) : SetToSeq(S)[i] = x
  <1> DEFINE D == 1..Cardinality(S)
  <1>1. Cardinality(S) \in Nat /\ ExistsBijection(D, S)
    BY FS_CardinalityType
  <1>2. PICK f : f \in Bijection(D, S)
    BY <1>1 DEF ExistsBijection
  <1>3. f \in [D -> S] /\ \A a, b \in DOMAIN f : f[a] = f[b] => a = b
    BY <1>2 DEF Bijection, Injection, IsInjective
  <1>4. SetToSeq(S) \in [D -> S] /\ \A a, b \in DOMAIN SetToSeq(S) : SetToSeq(S)[a] = SetToSeq(S)[b] => a = b
    BY <1>3, ZenonT(60) DEF SetToSeq, IsInjective
  <1>5. SetToSeq(S) \in Injection(D, S)
    BY <1>4 DEF Injection, IsInjective
  <1>6. Cardinality(D) = Cardinality(S)
    BY <1>1, FS_Interval
  <1>7. SetToSeq(S) \in Surjection(D, S)
    BY <1>5, <1>6, FS_Injection
  <1>8. \A x \in S : \E i \in D : SetToSeq(S)[i] = x
    BY <1>7 DEF Surjection
  <1>9. Len(SetToSeq(S)) = Cardinality(S) /\ SetToSeq(S) \in Seq(S)
    BY <1>1, <1>4
  <1>10. QED
    BY <1>8, <1>9

\* Two lists, one after the other, are a list.
LEMMA ConcatIs ==
    ASSUME NEW S, NEW T, NEW s \in Seq(S), NEW t \in Seq(T)
    PROVE  s \o t \in Seq(S \cup T)
  OBVIOUS

\* A list is a list of its own elements.
LEMMA OwnElements ==
    ASSUME NEW S, NEW s \in Seq(S)
    PROVE  s \in Seq(ToSet(s)) /\ Len(s) \in Nat
  BY DEF ToSet

\* What a function makes of a finite set is finite.
LEMMA FiniteImage ==
    ASSUME NEW S, IsFiniteSet(S), NEW f, DOMAIN f = S
    PROVE  IsFiniteSet({f[x] : x \in S})
  <1> DEFINE T == {f[x] : x \in S}
             h == [x \in S |-> f[x]]
  <1>1. h \in Surjection(S, T)
    BY DEF Surjection
  <1> HIDE DEF T, h
  <1>2. IsFiniteSet(T)
    BY <1>1, FS_Surjection
  <1>3. QED
    BY <1>2 DEF T

-----------------------------------------------------------------------------
(* Targets *)

\* What is or may be named in a target of a draft.
Texts(rows, d) == {FormatUint(r.cell.eci) : r \in rows} \cup ToSet(d.cells) \cup ToSet(d.tais)

\* The cells inside the polygons of a draft are finitely many, and stored.
LEMMA ShapeCellsAreAList ==
    ASSUME NEW rows, IsFiniteSet(rows), NEW polygons, polygons \in Seq(ToSet(polygons))
    PROVE  ShapeCells(rows, polygons) \in Seq({FormatUint(r.cell.eci) : r \in rows})
  <1> DEFINE Selected(p) == SelectionPreview(rows, PolygonToGeoJSON(p), PLMN)
             all == UNION {Selected(p) : p \in ToSet(polygons)}
  <1>1. IsFiniteSet(ToSet(polygons))
    <2>1. Len(polygons) \in Nat
      OBVIOUS
    <2>2. IsFiniteSet(1..Len(polygons))
      BY <2>1, FS_Interval
    <2>3. DOMAIN polygons = 1..Len(polygons)
      OBVIOUS
    <2>4. IsFiniteSet({polygons[i] : i \in DOMAIN polygons})
      BY <2>2, <2>3, FiniteImage
    <2>5. QED
      BY <2>4 DEF ToSet
  <1>2. ASSUME NEW p \in ToSet(polygons) PROVE IsFiniteSet(Selected(p))
    <2> DEFINE area == ParseGeometry(PolygonToGeoJSON(p))
               found == {c \in FindBoundingBoxCandidates(rows, Bounds(area), PLMN) : Evaluate(area, c.cell)}
    <2>1. found \in SUBSET rows
      BY DEF FindBoundingBoxCandidates
    <2>2. IsFiniteSet(found)
      BY <2>1, FS_Subset
    <2>3. Selected(p) = {r.cell.eci : r \in found}
      BY DEF SelectionPreview
    <2> HIDE DEF found, Selected
    <2> DEFINE f == [r \in found |-> r.cell.eci]
    <2>4. DOMAIN f = found /\ {f[r] : r \in found} = Selected(p)
      BY <2>3
    <2> HIDE DEF f
    <2>5. QED
      BY <2>2, <2>4, FiniteImage
  <1>3. IsFiniteSet(all)
    <2> DEFINE f == [p \in ToSet(polygons) |-> Selected(p)]
    <2>a. DOMAIN f = ToSet(polygons) /\ {f[p] : p \in ToSet(polygons)} = {Selected(p) : p \in ToSet(polygons)}
      <3> HIDE DEF Selected
      <3>1. QED
        OBVIOUS
    <2>1. IsFiniteSet({Selected(p) : p \in ToSet(polygons)})
      <3> HIDE DEF f, Selected
      <3>1. QED
        BY <1>1, <2>a, FiniteImage
    <2>2. \A s \in {Selected(p) : p \in ToSet(polygons)} : IsFiniteSet(s)
      BY <1>2
    <2> HIDE DEF Selected
    <2>3. QED
      BY <2>1, <2>2, FS_UNION
  <1>4. IsFiniteSet({FormatUint(eci) : eci \in all})
    <2> HIDE DEF all
    <2> DEFINE f == [eci \in all |-> FormatUint(eci)]
    <2>1. DOMAIN f = all /\ {f[eci] : eci \in all} = {FormatUint(eci) : eci \in all}
      OBVIOUS
    <2> HIDE DEF f
    <2>2. IsFiniteSet({f[eci] : eci \in all})
      BY <1>3, <2>1, FiniteImage
    <2>3. QED
      BY <2>1, <2>2
  <1>5. ShapeCells(rows, polygons) = SetToSeq({FormatUint(eci) : eci \in all})
    BY DEF ShapeCells
  <1>6. \A eci \in all : \E r \in rows : eci = r.cell.eci
    BY DEF SelectionPreview, FindBoundingBoxCandidates
  <1> HIDE DEF all
  <1> DEFINE names == {FormatUint(eci) : eci \in all}
             texts == {FormatUint(r.cell.eci) : r \in rows}
  <1>7. names \subseteq texts
    BY <1>6
  <1> HIDE DEF names, texts
  <1>8. ShapeCells(rows, polygons) \in Seq(names)
    BY <1>4, <1>5, SetAsList DEF names
  <1>9. ShapeCells(rows, polygons) \in Seq(texts)
    BY <1>7, <1>8
  <1>10. QED
    BY <1>9 DEF texts

\* Alternatives of a target, and a list to be sent.
Targeted(t) == t.scope \in {PLMNWide, TrackingAreaWide, CellWide} /\ t.ids \in Seq(ToSet(t.ids))

\* A draft is given a target, unless it is refused.
LEMMA TargetOfIs ==
    ASSUME NEW rows, IsFiniteSet(rows), NEW d,
           \A list \in {d.cells, d.tais, d.polygons} : list \in Seq(ToSet(list)),
           TargetOf(rows, d) # None
    PROVE  Targeted(TargetOf(rows, d)) /\ TargetOf(rows, d).ids \in Seq(Texts(rows, d))
  <1> DEFINE cells == MergeUnique(d.cells, ShapeCells(rows, d.polygons))
             S == {FormatUint(r.cell.eci) : r \in rows}
  <1>1. ShapeCells(rows, d.polygons) \in Seq(S)
    <2>1. d.polygons \in Seq(ToSet(d.polygons))
      OBVIOUS
    <2>2. QED
      BY <2>1, ShapeCellsAreAList
  <1> HIDE DEF S
  <1>2. cells \in Seq(ToSet(cells)) /\ cells \in Seq(ToSet(d.cells) \cup S)
    <2>1. Those(ShapeCells(rows, d.polygons), ToSet(ShapeCells(rows, d.polygons)) \ ToSet(d.cells)) \in Seq(S)
      BY <1>1, ThoseAre
    <2>2. d.cells \in Seq(ToSet(d.cells))
      OBVIOUS
    <2>3. cells \in Seq(ToSet(d.cells) \cup S)
      BY <2>1, <2>2, ConcatIs DEF MergeUnique
    <2>4. cells \in Seq(ToSet(d.cells) \cup S)
      BY <2>3
    <2> HIDE DEF cells
    <2>5. QED
      BY <2>4, OwnElements
  <1>3. d.tais \in Seq(ToSet(d.tais)) /\ <<>> \in Seq(ToSet(<<>>))
    OBVIOUS
  <1> HIDE DEF cells
  <1> DEFINE t == TargetOf(rows, d)
  <1>4. \/ t = [scope |-> CellWide, ids |-> cells]
        \/ t = [scope |-> TrackingAreaWide, ids |-> d.tais]
        \/ t = [scope |-> PLMNWide, ids |-> <<>>]
    <2>1. CASE \E p \in ToSet(d.polygons) : ~PolygonAccepted(p)
      BY <2>1 DEF TargetOf
    <2>2. CASE ~\E p \in ToSet(d.polygons) : ~PolygonAccepted(p)
      <3>1. t = CASE cells # <<>> /\ d.tais # <<>> -> None
                  [] cells # <<>> /\ d.tais = <<>> -> [scope |-> CellWide, ids |-> cells]
                  [] cells = <<>> /\ d.tais # <<>> -> [scope |-> TrackingAreaWide, ids |-> d.tais]
                  [] OTHER -> IF AllowPLMNWide THEN [scope |-> PLMNWide, ids |-> <<>>] ELSE None
        BY <2>2 DEF TargetOf, cells
      <3>2. t # None
        OBVIOUS
      <3> HIDE DEF t
      <3>3. QED
        BY <3>1, <3>2
    <2>3. QED
      BY <2>1, <2>2
  <1> HIDE DEF t
  <1>5. Targeted(t)
    <2>1. CASE t = [scope |-> CellWide, ids |-> cells]
      BY <1>2, <2>1 DEF Targeted
    <2>2. CASE t = [scope |-> TrackingAreaWide, ids |-> d.tais]
      BY <1>3, <2>2 DEF Targeted
    <2>3. CASE t = [scope |-> PLMNWide, ids |-> <<>>]
      BY <1>3, <2>3 DEF Targeted
    <2>4. QED
      BY <1>4, <2>1, <2>2, <2>3
  <1>6. t.ids \in Seq(Texts(rows, d))
    <2>1. Texts(rows, d) = S \cup ToSet(d.cells) \cup ToSet(d.tais)
      BY DEF Texts, S
    <2>2. cells \in Seq(Texts(rows, d)) /\ d.tais \in Seq(Texts(rows, d)) /\ <<>> \in Seq(Texts(rows, d))
      BY <1>2, <1>3, <2>1
    <2>3. t.ids = cells \/ t.ids = d.tais \/ t.ids = <<>>
      BY <1>4
    <2>4. QED
      BY <2>2, <2>3
  <1>7. QED
    BY <1>5, <1>6 DEF t

-----------------------------------------------------------------------------
(* What a restart names, and what is left of a target *)

\* The identities and tracking areas a restart of e names.
Ecis(e) == {c.eci : c \in ToSet(e.cells)}
Tacs(e) == {c.tac : c \in ToSet(e.cells)}

\* What a restart indication of e means.
RestartOfEnb(e) == [enb |-> EnbOf(e), cells |-> CellList(e), tais |-> TaiList(e)]

\* A restart names the cells of the eNB.
LEMMA RestartNames ==
    ASSUME scenario \in Scenarios, NEW e \in scenario.enbs
    PROVE  /\ {RestartOfEnb(e).cells[i].id : i \in 1..Len(RestartOfEnb(e).cells)} = Ecis(e)
           /\ {RestartOfEnb(e).tais[i].id : i \in 1..Len(RestartOfEnb(e).tais)} = Tacs(e)
           /\ RestartOfEnb(e).enb.plmn = e.plmn
           /\ \A c \in ToSet(e.cells) : c.plmn = e.plmn /\ c.eci \in Nat /\ c.tac \in TACs
  <1>1. e.cells \in Seq([plmn : {e.plmn}, eci : Nat, tac : TACs])
    BY ScenariosAssumption
  <1>2. \A c \in ToSet(e.cells) : c \in [plmn : {e.plmn}, eci : Nat, tac : TACs]
    <2> DEFINE R == [plmn : {e.plmn}, eci : Nat, tac : TACs]
    <2> HIDE DEF R
    <2>1. \A i \in DOMAIN e.cells : e.cells[i] \in R
      <3>1. e.cells \in Seq(R)
        BY <1>1 DEF R
      <3>2. QED
        BY <3>1
    <2>2. \A c \in ToSet(e.cells) : c \in R
      BY <2>1 DEF ToSet
    <2>3. QED
      BY <2>2 DEF R
  <1>3. {RestartOfEnb(e).cells[i].id : i \in 1..Len(RestartOfEnb(e).cells)} = Ecis(e)
    <2>1. Len(e.cells) \in Nat
      BY <1>1
    <2>2. Len(CellList(e)) = Len(e.cells) /\ \A i \in 1..Len(e.cells) : CellList(e)[i].id = e.cells[i].eci
      BY <2>1 DEF CellList, Identity
    <2>3. {CellList(e)[i].id : i \in 1..Len(CellList(e))} = Ecis(e)
      BY <2>2 DEF Ecis, ToSet
    <2>4. QED
      BY <2>3 DEF RestartOfEnb
  <1>4. {RestartOfEnb(e).tais[i].id : i \in 1..Len(RestartOfEnb(e).tais)} = Tacs(e)
    <2> DEFINE T == {[plmn |-> c.plmn, id |-> c.tac] : c \in ToSet(e.cells)}
    <2>1. IsFiniteSet(T)
      <3>1. Len(e.cells) \in Nat /\ DOMAIN e.cells = 1..Len(e.cells)
        BY <1>1
      <3>2. IsFiniteSet(DOMAIN e.cells)
        BY <3>1, FS_Interval
      <3>3. IsFiniteSet(ToSet(e.cells))
        BY <3>2, FiniteImage DEF ToSet
      <3> DEFINE f == [c \in ToSet(e.cells) |-> [plmn |-> c.plmn, id |-> c.tac]]
      <3>4. DOMAIN f = ToSet(e.cells) /\ {f[c] : c \in ToSet(e.cells)} = T
        OBVIOUS
      <3> HIDE DEF f, T
      <3>5. QED
        BY <3>3, <3>4, FiniteImage
    <2>2. TaiList(e) = SetToSeq(T)
      BY DEF TaiList, Identity
    <2>3. TaiList(e) \in Seq(T) /\ \A x \in T : \E i \in 1..Len(TaiList(e)) : TaiList(e)[i] = x
      <3> HIDE DEF T
      <3>1. QED
        BY <2>1, <2>2, SetAsList
    <2>4. \A i \in 1..Len(TaiList(e)) : TaiList(e)[i] \in T
      BY <2>3
    <2>5. {TaiList(e)[i].id : i \in 1..Len(TaiList(e))} = {x.id : x \in T}
      BY <2>3, <2>4
    <2>6. {x.id : x \in T} = Tacs(e)
      <3>1. \A x \in T : x.id \in Tacs(e)
        BY DEF Tacs
      <3>2. \A v \in Tacs(e) : \E x \in T : v = x.id
        <4>1. ASSUME NEW c \in ToSet(e.cells) PROVE [plmn |-> c.plmn, id |-> c.tac] \in T
          OBVIOUS
        <4>2. \A c \in ToSet(e.cells) : [plmn |-> c.plmn, id |-> c.tac].id = c.tac
          OBVIOUS
        <4> HIDE DEF T
        <4>3. QED
          BY <4>1, <4>2 DEF Tacs
      <3> HIDE DEF T
      <3>3. QED
        BY <3>1, <3>2
    <2> HIDE DEF T
    <2>7. QED
      BY <2>5, <2>6 DEF RestartOfEnb
  <1>5. RestartOfEnb(e).enb.plmn = e.plmn
    BY DEF RestartOfEnb, EnbOf
  <1>6. QED
    BY <1>2, <1>3, <1>4, <1>5

\* A tracking area code is a number of sixteen bits.
LEMMA TacIs ==
    ASSUME NEW v \in TACs
    PROVE  v \in Nat /\ v <= 65535
  <1>1. MaxTAC \in Nat
    BY SMT DEF MaxTAC
  <1>2. v \in Nat /\ v <= MaxTAC
    BY <1>1, SMT DEF TACs
  <1>3. QED
    BY <1>2, SMT DEF MaxTAC

\* Cut to sixteen bits, it is what it was.
LEMMA TacFits ==
    ASSUME NEW v \in TACs
    PROVE  Uint16(v) = v /\ v \in Nat
  <1>1. v \in Nat /\ v <= 65535
    BY TacIs
  <1>2. QED
    BY <1>1, SMT DEF Uint16

\* A target narrowed to what restarted means a part of it, and of it every
\* cell that restarted: a tracking area code fits into sixteen bits.
LEMMA NarrowedMeans ==
    ASSUME scenario \in Scenarios, NEW e \in scenario.enbs, NEW t, Targeted(t)
    PROVE  LET n == NarrowTargetToRestart(t, Ecis(e), Tacs(e))
           IN  /\ Meant(n) \subseteq Meant(t)
               /\ t.scope # PLMNWide => \A c \in Meant(t) \cap ToSet(e.cells) :
                    e.plmn = PlmnTBCD(PLMN) /\ c \in Meant(n) /\ n.ids # <<>>
  <1> DEFINE n == NarrowTargetToRestart(t, Ecis(e), Tacs(e))
             Restarted(v) == IF t.scope = CellWide THEN v \in Ecis(e) ELSE Uint16(v) \in Tacs(e)
             overlap == {x \in ToSet(t.ids) : ParseUint[x] # None /\ Restarted(ParseUint[x])}
  <1>1. n = [scope |-> t.scope, ids |-> IF t.scope = PLMNWide THEN <<>> ELSE Those(t.ids, overlap)]
    BY DEF NarrowTargetToRestart
  <1> HIDE DEF n
  <1>2. CASE t.scope = PLMNWide
    <2>1. n.scope = PLMNWide
      BY <1>1, <1>2
    <2>2. Meant(n) = Cells /\ Meant(t) = Cells
      BY <1>2, <2>1 DEF Meant
    <2>3. QED
      BY <1>2, <2>2 DEF n
  <1>3. CASE t.scope # PLMNWide
    <2>1. t.ids \in Seq(ToSet(t.ids)) /\ t.scope \in {TrackingAreaWide, CellWide}
      BY <1>3 DEF Targeted
    <2>2. n.ids = Those(t.ids, overlap) /\ n.scope = t.scope
      BY <1>1, <1>3
    <2> DEFINE left == Those(t.ids, overlap)
    <2>3. left \in Seq(ToSet(t.ids)) /\ \A x : x \in ToSet(left) <=> x \in overlap
      <3> HIDE DEF overlap
      <3>1. /\ left \in Seq(ToSet(t.ids))
            /\ \A x : Among(x, left, Len(left)) <=> x \in overlap /\ Among(x, t.ids, Len(t.ids))
        BY <2>1, ThoseAre
      <3>2. \A x : x \in ToSet(left) <=> Among(x, left, Len(left))
        <4>1. DOMAIN left = 1..Len(left)
          BY <3>1
        <4> HIDE DEF left
        <4>2. QED
          BY <4>1 DEF ToSet, Among
      <3>3. \A x \in ToSet(t.ids) : Among(x, t.ids, Len(t.ids))
        BY <2>1 DEF ToSet, Among
      <3>4. overlap \subseteq ToSet(t.ids)
        BY DEF overlap
      <3>5. QED
        BY <3>1, <3>2, <3>3, <3>4
    <2>4. Targeted(n)
      BY <2>1, <2>2, <2>3, OwnElements DEF Targeted
    <2> HIDE DEF left
    <2>5. ToSet(n.ids) = overlap
      BY <2>2, <2>3 DEF left
    <2>6. Meant(n) \subseteq Meant(t)
      <3>1. CASE t.scope = TrackingAreaWide
        BY <2>2, <2>4, <2>5, <3>1 DEF Meant
      <3>2. CASE t.scope = CellWide
        BY <2>2, <2>4, <2>5, <3>2 DEF Meant
      <3>3. QED
        BY <2>1, <3>1, <3>2
    <2>7. ASSUME NEW c \in Meant(t) \cap ToSet(e.cells)
          PROVE  e.plmn = PlmnTBCD(PLMN) /\ c \in Meant(n) /\ n.ids # <<>>
      <3>1. c.plmn = e.plmn /\ c.eci \in Nat /\ c.tac \in TACs /\ c.eci \in Ecis(e) /\ c.tac \in Tacs(e)
        BY RestartNames DEF Ecis, Tacs
      <3>2. None \notin Nat
        BY ScenariosAssumption
      <3>3. CASE t.scope = TrackingAreaWide
        <4>1. /\ c \in Cells /\ c.plmn = PlmnTBCD(PLMN)
              /\ \E x \in ToSet(t.ids) : ParseUint[x] = c.tac
          BY <3>3 DEF Meant, PLMNWide, TrackingAreaWide, CellWide
        <4>2. PICK x \in ToSet(t.ids) : ParseUint[x] = c.tac
          BY <4>1
        <4>3. Uint16(c.tac) = c.tac /\ c.tac # None
          BY <3>1, <3>2, TacFits
        <4>4. x \in overlap
          BY <3>1, <3>3, <4>2, <4>3 DEF TrackingAreaWide, CellWide
        <4>5. c \in Meant(n)
          BY <2>2, <2>4, <2>5, <3>3, <4>1, <4>2, <4>4 DEF Meant, PLMNWide, TrackingAreaWide, CellWide
        <4>6. n.ids # <<>>
          BY <2>5, <4>4 DEF ToSet
        <4>7. QED
          BY <3>1, <4>1, <4>5, <4>6
      <3>4. CASE t.scope = CellWide
        <4>1. /\ c \in Cells /\ c.plmn = PlmnTBCD(PLMN)
              /\ \E x \in ToSet(t.ids) : ParseUint[x] = c.eci
          BY <3>4 DEF Meant, PLMNWide, TrackingAreaWide, CellWide
        <4>2. PICK x \in ToSet(t.ids) : ParseUint[x] = c.eci
          BY <4>1
        <4>3. c.eci # None
          BY <3>1, <3>2
        <4>4. x \in overlap
          BY <3>1, <3>4, <4>2, <4>3
        <4>5. c \in Meant(n)
          BY <2>2, <2>4, <2>5, <3>4, <4>1, <4>2, <4>4 DEF Meant, PLMNWide, TrackingAreaWide, CellWide
        <4>6. n.ids # <<>>
          BY <2>5, <4>4 DEF ToSet
        <4>7. QED
          BY <3>1, <4>1, <4>5, <4>6
      <3>5. QED
        BY <2>1, <3>3, <3>4
    <2>8. QED
      BY <2>6, <2>7 DEF n
  <1>4. QED
    BY <1>2, <1>3

-----------------------------------------------------------------------------
(* What is on the air, and what has yet to be sent again *)

\* Every active message was prepared for a draft of the scenario.
ActiveInv == \A m \in active : Targeted(m.target) /\ \E d \in scenario.drafts : m = Prepared(d)

\* t is m, or what is left of it when its target is narrowed.
PartOf(t, m) ==
    /\ <<t.messageID, t.serial>> = Ids(m.draft) /\ t.draft = m.draft
    /\ Meant(t.target) \subseteq Meant(m.target)

\* What waits to be sent again is part of an active message.
TodoInv == \A t \in todo : \E m \in active : PartOf(t, m)

\* The job at hand is a new message, an active one, or part of an active one.
JobInv ==
    /\ request # None => job # NoJob
    /\ job # NoJob => /\ job.origin \in {"publish", "cancel", "restart"}
                      /\ job.procedure = IF job.origin = "cancel" THEN StopProcedure ELSE WriteReplaceProcedure
                      /\ job.origin # "restart" => todo = {}
    /\ job.origin = "publish" =>
         /\ Targeted(job.message.target)
         /\ \E d \in scenario.drafts : job.message = Prepared(d) /\ \A m \in active : m.draft # d
    /\ job.origin = "cancel" => job.message \in active
    /\ job.origin = "restart" => \E m \in active : PartOf(job.message, m)

\* What the CBC acts on.
Telling == {"accepted", "rejected", "restart"}

\* An answer on its way is to the job at hand, whose request has arrived; a
\* restart is reported while nothing else goes on; and only one of them is.
InboxInv ==
    /\ inbox \in Seq(ToSet(inbox))
    /\ \A i \in 1..Len(inbox) :
         /\ inbox[i].kind \in {"accepted", "rejected"} =>
              job # NoJob /\ request = None /\ inbox[i].procedure = job.procedure
         /\ inbox[i].kind = "accepted" => inbox[i].what = <<job.message.messageID, job.message.serial>>
         /\ inbox[i].kind = "restart" =>
              job = NoJob /\ todo = {} /\ events # 0 /\ \E e \in scenario.enbs : inbox[i].what = RestartOfEnb(e)
    /\ \A i, j \in 1..Len(inbox) :
         {inbox[i].kind, inbox[j].kind} \subseteq Telling => i = j

\* The MME has carried out the job, and its answer is on the way.
CarriedOut == \E i \in 1..Len(inbox) : inbox[i].kind = "accepted"

\* The messages that will be active once that answer is read.
Broadcasting ==
    IF ~CarriedOut THEN active
    ELSE IF job.origin = "publish" THEN active \cup {job.message}
    ELSE IF job.origin = "cancel" THEN active \ {job.message} ELSE active

Carries(c, d) == \E b \in air[c] : b.ids = Ids(d)

\* What is on the air is meant to be.
MeantInv ==
    \A c \in Cells : \A d \in scenario.drafts :
        Carries(c, d) => \E m \in Broadcasting : m.draft = d /\ c \in Meant(m.target)

\* Cell c broadcasts nothing since it restarted, but m will be sent to it
\* again: the CBC has yet to read of the restart, or it has not come to m yet,
\* or m is being sent.
ToBeServed(c, m) ==
    \/ \E i \in 1..Len(inbox) : \E e \in scenario.enbs :
          inbox[i].kind = "restart" /\ inbox[i].what = RestartOfEnb(e) /\ c \in ToSet(e.cells)
    \/ \E t \in todo : t.draft = m.draft /\ c \in Meant(t.target)
    \/ /\ job.origin = "restart" /\ ~CarriedOut
       /\ job.message.draft = m.draft /\ c \in Meant(job.message.target)

\* What is meant to be on the air is, or will be.
ServedInv ==
    ~unserved => \A m \in Broadcasting : (m.target.scope = PLMNWide => events = 0) =>
        \A c \in Meant(m.target) : Carries(c, m.draft) \/ ToBeServed(c, m)

\* The inductive invariant.
IInv ==
    /\ scenario \in Scenarios /\ events \in Nat
    /\ ActiveInv /\ TodoInv /\ JobInv /\ InboxInv /\ MeantInv /\ ServedInv

-----------------------------------------------------------------------------
(* Lists of what is on the way *)

\* One more at the end.
LEMMA OneMore ==
    ASSUME NEW s, s \in Seq(ToSet(s)), NEW x
    PROVE  LET t == Append(s, x)
           IN  /\ t \in Seq(ToSet(t)) /\ Len(s) \in Nat /\ Len(t) = Len(s) + 1
               /\ t[Len(s) + 1] = x /\ \A i \in 1..Len(s) : t[i] = s[i]
  <1>1. Append(s, x) \in Seq(ToSet(s) \cup {x}) /\ Len(s) \in Nat
    OBVIOUS
  <1>2. Len(Append(s, x)) = Len(s) + 1 /\ \A i \in 1..Len(s) : Append(s, x)[i] = s[i]
    OBVIOUS
  <1>3. Append(s, x)[Len(s) + 1] = x
    OBVIOUS
  <1>4. Append(s, x) \in Seq(ToSet(Append(s, x)))
    BY <1>1, OwnElements
  <1>5. QED
    BY <1>1, <1>2, <1>3, <1>4

\* Two more at the end.
LEMMA TwoMore ==
    ASSUME NEW s, s \in Seq(ToSet(s)), NEW x, NEW y
    PROVE  LET t == s \o <<x, y>>
           IN  /\ t \in Seq(ToSet(t)) /\ Len(s) \in Nat /\ Len(t) = Len(s) + 2
               /\ t[Len(s) + 1] = x /\ t[Len(s) + 2] = y /\ \A i \in 1..Len(s) : t[i] = s[i]
  <1>1. <<x, y>> \in Seq({x, y}) /\ Len(<<x, y>>) = 2 /\ <<x, y>>[1] = x /\ <<x, y>>[2] = y
    OBVIOUS
  <1>2. s \o <<x, y>> \in Seq(ToSet(s) \cup {x, y}) /\ Len(s) \in Nat
    BY <1>1
  <1>3. Len(s \o <<x, y>>) = Len(s) + 2 /\ \A i \in 1..Len(s) : (s \o <<x, y>>)[i] = s[i]
    BY <1>1
  <1>4. (s \o <<x, y>>)[Len(s) + 1] = x /\ (s \o <<x, y>>)[Len(s) + 2] = y
    BY <1>1
  <1>5. QED
    BY <1>2, <1>3, <1>4, OwnElements

\* The first taken away.
LEMMA OneLess ==
    ASSUME NEW s, s \in Seq(ToSet(s)), s # <<>>
    PROVE  LET t == Tail(s)
           IN  /\ t \in Seq(ToSet(t)) /\ Len(s) \in Nat \ {0} /\ Len(t) = Len(s) - 1
               /\ \A i \in 1..Len(t) : t[i] = s[i + 1]
  <1>1. Tail(s) \in Seq(ToSet(s)) /\ Len(s) \in Nat \ {0} /\ Len(Tail(s)) = Len(s) - 1
    OBVIOUS
  <1>2. \A i \in 1..Len(Tail(s)) : Tail(s)[i] = s[i + 1]
    OBVIOUS
  <1>3. Tail(s) \in Seq(ToSet(Tail(s)))
    BY <1>1, OwnElements
  <1>4. QED
    BY <1>1, <1>2, <1>3

-----------------------------------------------------------------------------
(* Steps *)

\* A message that is prepared names its draft.
LEMMA PreparedNames ==
    ASSUME NEW d
    PROVE  Prepared(d).draft = d /\ <<Prepared(d).messageID, Prepared(d).serial>> = Ids(d)
  BY DEF Prepared, Ids

\* No two active messages are for one draft, and each is part of itself.
LEMMA ActiveNames ==
    ASSUME ActiveInv
    PROVE  /\ \A m \in active : m.draft \in scenario.drafts /\ PartOf(m, m)
           /\ \A m, n \in active : m.draft = n.draft => m = n
  BY PreparedNames DEF ActiveInv, PartOf

\* The scenario stays, and with it what a target means.
LEMMA ScenarioKept ==
    ASSUME scenario' = scenario
    PROVE  /\ Cells' = Cells
           /\ \A t : Meant(t)' = Meant(t)
           /\ \A d : Prepared(d)' = Prepared(d)
           /\ \A t, m : PartOf(t, m)' <=> PartOf(t, m)
  <1>1. Cells' = Cells
    BY DEF Cells
  <1>2. \A t : Meant(t)' = Meant(t)
    BY <1>1 DEF Meant
  <1>3. \A d : Prepared(d)' = Prepared(d)
    BY DEF Prepared, Inventory
  <1>4. \A t, m : PartOf(t, m)' <=> PartOf(t, m)
    BY <1>2 DEF PartOf
  <1>5. QED
    BY <1>1, <1>2, <1>3, <1>4

\* It holds at the start, when there is nothing.
LEMMA Start == Init => IInv
  <1> SUFFICES ASSUME Init PROVE IInv
    OBVIOUS
  <1> USE DEF Init
  <1>1. job.origin = "none" /\ inbox \in Seq(ToSet(inbox)) /\ Len(inbox) = 0
    BY DEF NoJob
  <1>2. ~CarriedOut /\ Broadcasting = {}
    BY <1>1 DEF CarriedOut, Broadcasting
  <1>3. MeantInv
    BY DEF MeantInv, Carries
  <1>4. ServedInv
    BY <1>2 DEF ServedInv
  <1>5. JobInv
    BY <1>1 DEF JobInv
  <1>6. InboxInv
    BY <1>1 DEF InboxInv
  <1>7. QED
    BY <1>3, <1>4, <1>5, <1>6 DEF IInv, ActiveInv, TodoInv

\* handleRestart sends again parts of active messages, and for every cell that
\* restarted a part of each that is meant for it.
LEMMA RestartServes ==
    ASSUME IInv, NEW e \in scenario.enbs
    PROVE  /\ \A t \in HandleRestart(RestartOfEnb(e)) : \E m \in active : PartOf(t, m)
           /\ \A m \in active : m.target.scope # PLMNWide =>
                \A c \in Meant(m.target) \cap ToSet(e.cells) :
                    \E t \in HandleRestart(RestartOfEnb(e)) : t.draft = m.draft /\ c \in Meant(t.target)
  <1> DEFINE n(m) == NarrowTargetToRestart(m.target, Ecis(e), Tacs(e))
             part(m) == [m EXCEPT !.target = n(m)]
  <1>1. HandleRestart(RestartOfEnb(e)) =
           IF e.plmn # PlmnTBCD(PLMN) THEN {} ELSE {t \in {part(m) : m \in active} : t.target.ids # <<>>}
    <2>1. /\ {RestartOfEnb(e).cells[i].id : i \in 1..Len(RestartOfEnb(e).cells)} = Ecis(e)
          /\ {RestartOfEnb(e).tais[i].id : i \in 1..Len(RestartOfEnb(e).tais)} = Tacs(e)
          /\ RestartOfEnb(e).enb.plmn = e.plmn
      BY RestartNames DEF IInv
    <2>2. QED
      BY <2>1 DEF HandleRestart
  <1>2. ASSUME NEW m \in active
        PROVE  /\ part(m).target = n(m) /\ part(m).draft = m.draft
               /\ part(m).messageID = m.messageID /\ part(m).serial = m.serial
    <2>1. PICK d \in scenario.drafts : m = Prepared(d)
      BY DEF IInv, ActiveInv
    <2> HIDE DEF n
    <2>2. QED
      BY <2>1 DEF Prepared
  <1>3. ASSUME NEW m \in active
        PROVE  /\ PartOf(part(m), m)
               /\ m.target.scope # PLMNWide => \A c \in Meant(m.target) \cap ToSet(e.cells) :
                    e.plmn = PlmnTBCD(PLMN) /\ c \in Meant(n(m)) /\ n(m).ids # <<>>
    <2>1. /\ Meant(n(m)) \subseteq Meant(m.target)
          /\ m.target.scope # PLMNWide => \A c \in Meant(m.target) \cap ToSet(e.cells) :
                e.plmn = PlmnTBCD(PLMN) /\ c \in Meant(n(m)) /\ n(m).ids # <<>>
      BY NarrowedMeans DEF IInv, ActiveInv
    <2>2. PartOf(m, m)
      BY ActiveNames DEF IInv
    <2> HIDE DEF n, part
    <2>3. QED
      BY <1>2, <2>1, <2>2 DEF PartOf
  <1> HIDE DEF n, part
  <1>4. \A t \in HandleRestart(RestartOfEnb(e)) : \E m \in active : PartOf(t, m)
    BY <1>1, <1>3
  <1>5. ASSUME NEW m \in active, m.target.scope # PLMNWide, NEW c \in Meant(m.target) \cap ToSet(e.cells)
        PROVE  \E t \in HandleRestart(RestartOfEnb(e)) : t.draft = m.draft /\ c \in Meant(t.target)
    <2>1. e.plmn = PlmnTBCD(PLMN) /\ c \in Meant(n(m)) /\ n(m).ids # <<>>
      BY <1>3, <1>5
    <2>2. part(m) \in HandleRestart(RestartOfEnb(e))
      BY <1>1, <1>2, <2>1
    <2>3. part(m).draft = m.draft /\ c \in Meant(part(m).target)
      BY <1>2, <2>1
    <2>4. QED
      BY <2>2, <2>3
  <1>6. QED
    BY <1>4, <1>5

\* What a step leaves alone stays as it should be.
LEMMA RestKept ==
    ASSUME IInv, UNCHANGED <<scenario, active, job, todo>>, request' \in {None, request}
    PROVE  scenario' \in Scenarios /\ ActiveInv' /\ TodoInv' /\ JobInv'
  <1>1. scenario' = scenario
    OBVIOUS
  <1>2. scenario' \in Scenarios /\ ActiveInv'
    BY <1>1, ScenarioKept DEF IInv, ActiveInv
  <1>3. TodoInv'
    BY <1>1, ScenarioKept DEF IInv, TodoInv
  <1>4. JobInv'
    BY <1>1, ScenarioKept DEF IInv, JobInv
  <1>5. QED
    BY <1>2, <1>3, <1>4

\* A step after which the air and what the CBC has to send are the same.
LEMMA AirKept ==
    ASSUME IInv, UNCHANGED <<scenario, active, job, todo, air, unserved>>,
           events' = 0 => events = 0, CarriedOut' <=> CarriedOut,
           \A i \in 1..Len(inbox) : inbox[i].kind = "restart" =>
               \E j \in 1..Len(inbox') : inbox'[j] = inbox[i]
    PROVE  MeantInv' /\ ServedInv'
  <1>1. scenario' = scenario
    OBVIOUS
  <1>2. Broadcasting' = Broadcasting
    BY DEF Broadcasting
  <1>3. \A c, d : Carries(c, d)' <=> Carries(c, d)
    BY DEF Carries
  <1>4. MeantInv'
    BY <1>1, <1>2, <1>3, ScenarioKept DEF IInv, MeantInv
  <1>5. \A c, m : ToBeServed(c, m) => ToBeServed(c, m)'
    <2> SUFFICES ASSUME NEW c, NEW m, ToBeServed(c, m)
                 PROVE  ToBeServed(c, m)'
      OBVIOUS
    <2>1. CASE \E i \in 1..Len(inbox) : \E e \in scenario.enbs :
                  inbox[i].kind = "restart" /\ inbox[i].what = RestartOfEnb(e) /\ c \in ToSet(e.cells)
      BY <2>1, <1>1 DEF ToBeServed
    <2>2. CASE \E t \in todo : t.draft = m.draft /\ c \in Meant(t.target)
      BY <2>2, <1>1, ScenarioKept DEF ToBeServed
    <2>3. CASE /\ job.origin = "restart" /\ ~CarriedOut
               /\ job.message.draft = m.draft /\ c \in Meant(job.message.target)
      BY <2>3, <1>1, ScenarioKept DEF ToBeServed
    <2>4. QED
      BY <2>1, <2>2, <2>3 DEF ToBeServed
  <1>6. ServedInv'
    BY <1>1, <1>2, <1>3, <1>5, ScenarioKept DEF IInv, ServedInv
  <1>7. QED
    BY <1>4, <1>6

\* The MME has just received the request: nothing in the inbox is about it.
LEMMA OnRequest ==
    ASSUME IInv, Understood, request # None
    PROVE  LET r == Understand(request)
           IN  /\ r.procedure = job.procedure /\ r.cells = Meant(job.message.target)
               /\ r.ids = <<job.message.messageID, job.message.serial>>
               /\ job # NoJob
               /\ \A i \in 1..Len(inbox) : inbox[i].kind \notin Telling
               /\ ~CarriedOut /\ Broadcasting = active
  <1> DEFINE r == Understand(request)
  <1>1. /\ r.procedure = job.procedure /\ r.cells = Meant(job.message.target)
        /\ r.ids = <<job.message.messageID, job.message.serial>>
    BY DEF Understood
  <1> HIDE DEF r
  <1>2. job # NoJob
    BY DEF IInv, JobInv
  <1>3. \A i \in 1..Len(inbox) : inbox[i].kind \notin Telling
    BY <1>2 DEF IInv, InboxInv, Telling
  <1>4. ~CarriedOut /\ Broadcasting = active
    BY <1>3 DEF CarriedOut, Broadcasting, Telling
  <1>5. QED
    BY <1>1, <1>2, <1>3, <1>4 DEF r

\* The message of the job at hand is for a draft of the scenario.
LEMMA JobNames ==
    ASSUME IInv, job # NoJob
    PROVE  /\ job.message.draft \in scenario.drafts
           /\ <<job.message.messageID, job.message.serial>> = Ids(job.message.draft)
  <1>1. CASE job.origin = "publish"
    BY <1>1, PreparedNames DEF IInv, JobInv
  <1>2. CASE job.origin = "cancel"
    BY <1>2, ActiveNames DEF IInv, JobInv, PartOf
  <1>3. CASE job.origin = "restart"
    BY <1>3, ActiveNames DEF IInv, JobInv, PartOf
  <1>4. QED
    BY <1>1, <1>2, <1>3 DEF IInv, JobInv

\* The MME refuses the request.
LEMMA Refusing ==
    ASSUME IInv, Understood, MmeRefuses
    PROVE  IInv'
  <1>1. request # None /\ request' = None /\ UNCHANGED <<scenario, active, job, todo, air, events, unserved>>
    BY DEF MmeRefuses
  <1>2. PICK x : /\ inbox' = Append(inbox, x) /\ x.kind \in {"rejected", "unhandled"}
                 /\ x.kind = "rejected" => x.procedure = job.procedure
    <2> DEFINE r == Understand(request)
    <2>1. r.procedure = job.procedure
      BY <1>1, OnRequest
    <2>2. inbox' = Append(inbox, Rejected(r)) \/ inbox' = Append(inbox, Answer(ErrorIndication(12), "unhandled", ErrorProcedure, None))
      BY DEF MmeRefuses
    <2> HIDE DEF r
    <2>3. Rejected(r).kind = "rejected" /\ Rejected(r).procedure = r.procedure
      BY DEF Rejected, Answer
    <2>4. Answer(ErrorIndication(12), "unhandled", ErrorProcedure, None).kind = "unhandled"
      BY DEF Answer
    <2>5. QED
      BY <2>1, <2>2, <2>3, <2>4
  <1>3. /\ inbox' \in Seq(ToSet(inbox')) /\ Len(inbox) \in Nat /\ Len(inbox') = Len(inbox) + 1
        /\ inbox'[Len(inbox) + 1] = x /\ \A i \in 1..Len(inbox) : inbox'[i] = inbox[i]
    BY <1>2, OneMore DEF IInv, InboxInv
  <1>4. job # NoJob /\ ~CarriedOut /\ \A i \in 1..Len(inbox) : inbox[i].kind \notin Telling
    BY <1>1, OnRequest
  <1>5. \A i \in 1..Len(inbox') : IF i = Len(inbox) + 1 THEN inbox'[i] = x ELSE inbox'[i].kind \notin Telling
    BY <1>3, <1>4
  <1>6. ~CarriedOut'
    BY <1>2, <1>5 DEF CarriedOut, Telling
  <1>7. InboxInv'
    BY <1>1, <1>2, <1>3, <1>4, <1>5 DEF InboxInv, Telling
  <1>8. MeantInv' /\ ServedInv'
    BY <1>1, <1>4, <1>6, AirKept DEF Telling
  <1>9. scenario' \in Scenarios /\ ActiveInv' /\ TodoInv' /\ JobInv'
    BY <1>1, RestKept
  <1>10. QED
    BY <1>1, <1>7, <1>8, <1>9 DEF IInv

\* An eNB fails, which changes nothing.
LEMMA Failing ==
    ASSUME IInv, NEW e \in scenario.enbs, EnbFails(e)
    PROVE  IInv'
  <1>1. events' = events + 1 /\ UNCHANGED <<scenario, active, job, todo, request, air, unserved>>
    BY DEF EnbFails
  <1>2. inbox' = Append(inbox, FailureIndication(e)) /\ FailureIndication(e).kind = "failure"
    BY DEF EnbFails, FailureIndication, Answer
  <1>3. /\ inbox' \in Seq(ToSet(inbox')) /\ Len(inbox) \in Nat /\ Len(inbox') = Len(inbox) + 1
        /\ inbox'[Len(inbox) + 1] = FailureIndication(e) /\ \A i \in 1..Len(inbox) : inbox'[i] = inbox[i]
    BY <1>2, OneMore DEF IInv, InboxInv
  <1>4. \A i \in 1..Len(inbox') : IF i = Len(inbox) + 1 THEN inbox'[i].kind = "failure"
                                  ELSE i \in 1..Len(inbox) /\ inbox'[i] = inbox[i]
    BY <1>2, <1>3
  <1>5. events \in Nat /\ events' \in Nat /\ events' # 0
    BY <1>1 DEF IInv
  <1>6. CarriedOut' <=> CarriedOut
    BY <1>3, <1>4 DEF CarriedOut
  <1>7. InboxInv'
    <2>1. \A i \in 1..Len(inbox') : inbox'[i].kind \in Telling => i \in 1..Len(inbox) /\ inbox'[i] = inbox[i]
      BY <1>4 DEF Telling
    <2>2. \A i, j \in 1..Len(inbox') : {inbox'[i].kind, inbox'[j].kind} \subseteq Telling => i = j
      BY <2>1 DEF IInv, InboxInv, Telling
    <2>3. \A i \in 1..Len(inbox') :
             /\ inbox'[i].kind \in {"accepted", "rejected"} =>
                  job # NoJob /\ request = None /\ inbox'[i].procedure = job.procedure
             /\ inbox'[i].kind = "accepted" => inbox'[i].what = <<job.message.messageID, job.message.serial>>
             /\ inbox'[i].kind = "restart" =>
                  job = NoJob /\ todo = {} /\ \E f \in scenario.enbs : inbox'[i].what = RestartOfEnb(f)
      BY <2>1 DEF IInv, InboxInv, Telling
    <2>4. job' = job /\ request' = request /\ todo' = todo /\ scenario' = scenario
      BY <1>1
    <2>5. QED
      BY <1>3, <1>5, <2>2, <2>3, <2>4 DEF InboxInv, Telling
  <1>8. MeantInv' /\ ServedInv'
    <2>1. \A i \in 1..Len(inbox) : i \in 1..Len(inbox') /\ inbox'[i] = inbox[i]
      BY <1>3
    <2>2. QED
      BY <1>1, <1>5, <1>6, <2>1, AirKept
  <1>9. scenario' \in Scenarios /\ ActiveInv' /\ TodoInv' /\ JobInv'
    BY <1>1, RestKept
  <1>10. QED
    BY <1>5, <1>7, <1>8, <1>9 DEF IInv

\* An eNB restarts: its cells lose everything, and the inbox tells.
LEMMA Restarting ==
    ASSUME IInv, NEW e \in scenario.enbs, EnbRestarts(e)
    PROVE  IInv'
  <1>1. /\ Idle /\ events' = events + 1 /\ UNCHANGED <<scenario, active, job, todo, request, unserved>>
        /\ air' = [c \in Cells |-> IF c \in ToSet(e.cells) THEN {} ELSE air[c]]
        /\ inbox' = Append(inbox, RestartIndication(e))
    BY DEF EnbRestarts
  <1>2. RestartIndication(e).kind = "restart" /\ RestartIndication(e).what = RestartOfEnb(e)
    BY DEF RestartIndication, Answer, RestartOfEnb
  <1>3. /\ inbox' \in Seq(ToSet(inbox')) /\ Len(inbox') = 1 /\ inbox'[1] = RestartIndication(e)
        /\ Len(inbox) = 0
    <2>1. Len(inbox) = 0 /\ inbox \in Seq(ToSet(inbox))
      BY <1>1 DEF Idle, IInv, InboxInv
    <2>2. inbox' \in Seq(ToSet(inbox')) /\ Len(inbox') = Len(inbox) + 1 /\ inbox'[Len(inbox) + 1] = RestartIndication(e)
      BY <1>1, <2>1, OneMore
    <2>3. QED
      BY <2>1, <2>2
  <1>4. events' \in Nat /\ events' # 0
    BY <1>1 DEF IInv
  <1>5. job = NoJob /\ todo = {} /\ job.origin = "none"
    BY <1>1 DEF Idle, NoJob
  <1>6. ~CarriedOut /\ ~CarriedOut' /\ Broadcasting = active /\ Broadcasting' = active
    BY <1>1, <1>2, <1>3 DEF CarriedOut, Broadcasting
  <1>7. InboxInv'
    <2>1. e \in scenario'.enbs
      BY <1>1
    <2>2. QED
      BY <1>1, <1>2, <1>3, <1>4, <1>5, <2>1 DEF InboxInv
  <1>8. \A c \in Cells : \A d : /\ Carries(c, d)' => Carries(c, d)
                                /\ Carries(c, d) => Carries(c, d)' \/ c \in ToSet(e.cells)
    BY <1>1 DEF Carries
  <1>9. MeantInv'
    BY <1>1, <1>6, <1>8, ScenarioKept DEF IInv, MeantInv
  <1>10. ServedInv'
    <2> SUFFICES ASSUME ~unserved', NEW m \in Broadcasting', m.target.scope = PLMNWide => events' = 0,
                        NEW c \in Meant(m.target)'
                 PROVE  Carries(c, m.draft)' \/ ToBeServed(c, m)'
      BY DEF ServedInv
    <2>1. ~unserved /\ m \in active /\ m.target.scope # PLMNWide /\ c \in Meant(m.target) /\ c \in Cells
      BY <1>1, <1>4, <1>6, ScenarioKept DEF Meant
    <2>2. ~ToBeServed(c, m)
      BY <1>3, <1>5 DEF ToBeServed
    <2>3. Carries(c, m.draft)
      BY <1>6, <2>1, <2>2 DEF IInv, ServedInv
    <2>4. CASE c \in ToSet(e.cells)
      <3>1. e \in scenario'.enbs
        BY <1>1
      <3>2. QED
        BY <1>2, <1>3, <2>4, <3>1 DEF ToBeServed
    <2>5. QED
      BY <1>8, <2>1, <2>3, <2>4
  <1>11. scenario' \in Scenarios /\ ActiveInv' /\ TodoInv' /\ JobInv'
    BY <1>1, RestKept
  <1>12. QED
    BY <1>4, <1>7, <1>9, <1>10, <1>11 DEF IInv

\* What is on the air once the MME has carried out a request of the job.
LEMMA OnTheAir ==
    ASSUME IInv, NEW r, r.ids = Ids(job.message.draft), job.message.draft \in scenario.drafts,
           CarryOut(r)
    PROVE  \A c \in Cells, d \in scenario.drafts :
              Carries(c, d)' <=> IF d = job.message.draft /\ c \in r.cells
                                 THEN r.procedure # StopProcedure ELSE Carries(c, d)
  <1> DEFINE without == [c \in Cells |-> {b \in air[c] : b.ids # r.ids}]
  <1>1. air' = [c \in Cells |->
                  IF c \notin r.cells THEN air[c]
                  ELSE IF r.procedure = StopProcedure THEN without[c]
                  ELSE without[c] \cup {[ids |-> r.ids, text |-> r.text]}]
    BY DEF CarryOut
  <1> SUFFICES ASSUME NEW c \in Cells, NEW d \in scenario.drafts
               PROVE  Carries(c, d)' <=> IF d = job.message.draft /\ c \in r.cells
                                         THEN r.procedure # StopProcedure ELSE Carries(c, d)
    OBVIOUS
  <1>2. Ids(d) = r.ids <=> d = job.message.draft
    BY ScenariosAssumption DEF IInv
  <1>3. Carries(c, d)' <=> \E b \in air'[c] : b.ids = Ids(d)
    BY DEF Carries
  <1>4. without[c] = {b \in air[c] : b.ids # r.ids}
    OBVIOUS
  <1> HIDE DEF without
  <1>5. CASE c \notin r.cells
    BY <1>1, <1>3, <1>5 DEF Carries
  <1>6. CASE c \in r.cells /\ r.procedure = StopProcedure
    <2>1. air'[c] = without[c]
      BY <1>1, <1>6
    <2>2. QED
      BY <1>2, <1>3, <1>4, <1>6, <2>1 DEF Carries
  <1>7. CASE c \in r.cells /\ r.procedure # StopProcedure
    <2> DEFINE new == [ids |-> r.ids, text |-> r.text]
    <2>1. air'[c] = without[c] \cup {new} /\ new.ids = r.ids
      BY <1>1, <1>7
    <2> HIDE DEF new
    <2>2. QED
      BY <1>2, <1>3, <1>4, <1>7, <2>1 DEF Carries
  <1>8. QED
    BY <1>5, <1>6, <1>7

\* The MME carries out the request: the answer tells so, and the air is as the
\* CBC meant it.
LEMMA Accepting ==
    ASSUME IInv, Understood, MmeAccepts
    PROVE  IInv'
  <1> DEFINE r == Understand(request)
             m == job.message
  <1>1. /\ request # None /\ request' = None /\ UNCHANGED <<scenario, active, job, todo, events, unserved>>
        /\ CarryOut(r)
    BY DEF MmeAccepts
  <1>2. /\ r.procedure = job.procedure /\ r.cells = Meant(m.target) /\ r.ids = <<m.messageID, m.serial>>
        /\ job # NoJob /\ ~CarriedOut /\ Broadcasting = active
        /\ \A i \in 1..Len(inbox) : inbox[i].kind \notin Telling
    BY <1>1, OnRequest
  <1> HIDE DEF r
  <1>3. m.draft \in scenario.drafts /\ r.ids = Ids(m.draft)
    BY <1>2, JobNames
  <1>4. \A c \in Cells, d \in scenario.drafts :
           Carries(c, d)' <=> IF d = m.draft /\ c \in r.cells
                              THEN r.procedure # StopProcedure ELSE Carries(c, d)
    BY <1>1, <1>3, OnTheAir
  <1>5. /\ inbox' \in Seq(ToSet(inbox'))
        /\ \E k \in 1..Len(inbox') :
              /\ inbox'[k] = Accepted(r)
              /\ \A i \in 1..Len(inbox') : i # k => inbox'[i].kind \notin Telling
    <2>1. inbox \in Seq(ToSet(inbox)) /\ Scheduled(r).kind \notin Telling
      BY DEF IInv, InboxInv, Scheduled, Answer, Telling
    <2>2. CASE inbox' = Append(inbox, Accepted(r))
      <3>1. /\ inbox' \in Seq(ToSet(inbox')) /\ Len(inbox) \in Nat /\ Len(inbox') = Len(inbox) + 1
            /\ inbox'[Len(inbox) + 1] = Accepted(r) /\ \A i \in 1..Len(inbox) : inbox'[i] = inbox[i]
        BY <2>1, <2>2, OneMore
      <3>2. \A i \in 1..Len(inbox') : i # Len(inbox) + 1 => inbox'[i].kind \notin Telling
        BY <1>2, <3>1
      <3>3. QED
        BY <3>1, <3>2
    <2>3. CASE inbox' = inbox \o <<Accepted(r), Scheduled(r)>>
      <3>1. /\ inbox' \in Seq(ToSet(inbox')) /\ Len(inbox) \in Nat /\ Len(inbox') = Len(inbox) + 2
            /\ inbox'[Len(inbox) + 1] = Accepted(r) /\ inbox'[Len(inbox) + 2] = Scheduled(r)
            /\ \A i \in 1..Len(inbox) : inbox'[i] = inbox[i]
        BY <2>1, <2>3, TwoMore
      <3>2. \A i \in 1..Len(inbox') : i # Len(inbox) + 1 => inbox'[i].kind \notin Telling
        BY <1>2, <2>1, <3>1
      <3>3. QED
        BY <3>1, <3>2
    <2>4. CASE inbox' = inbox \o <<Scheduled(r), Accepted(r)>>
      <3>1. /\ inbox' \in Seq(ToSet(inbox')) /\ Len(inbox) \in Nat /\ Len(inbox') = Len(inbox) + 2
            /\ inbox'[Len(inbox) + 1] = Scheduled(r) /\ inbox'[Len(inbox) + 2] = Accepted(r)
            /\ \A i \in 1..Len(inbox) : inbox'[i] = inbox[i]
        BY <2>1, <2>4, TwoMore
      <3>2. \A i \in 1..Len(inbox') : i # Len(inbox) + 2 => inbox'[i].kind \notin Telling
        BY <1>2, <2>1, <3>1
      <3>3. QED
        BY <3>1, <3>2
    <2>5. QED
      BY <1>1, <2>2, <2>3, <2>4 DEF CarryOut
  <1>6. Accepted(r).kind = "accepted" /\ Accepted(r).procedure = r.procedure /\ Accepted(r).what = r.ids
    BY DEF Accepted, Answer
  <1>7. InboxInv'
    BY <1>1, <1>2, <1>5, <1>6 DEF InboxInv, Telling
  <1>8. CarriedOut'
    BY <1>5, <1>6 DEF CarriedOut
  <1>9. Broadcasting' = IF job.origin = "publish" THEN active \cup {m}
                        ELSE IF job.origin = "cancel" THEN active \ {m} ELSE active
    BY <1>1, <1>8 DEF Broadcasting
  <1>10. /\ Cells' = Cells /\ \A t : Meant(t)' = Meant(t)
         /\ \A t : Meant(t) \subseteq Cells
         /\ StopProcedure # WriteReplaceProcedure
    BY <1>1, ScenarioKept DEF Meant, StopProcedure, WriteReplaceProcedure
  <1>11. /\ \A n \in active : n.draft \in scenario.drafts
         /\ \A n, o \in active : n.draft = o.draft => n = o
    BY ActiveNames DEF IInv
  <1>12. /\ \A c \in Cells : \A d \in scenario.drafts :
               Carries(c, d) => \E n \in active : n.draft = d /\ c \in Meant(n.target)
         /\ ~unserved => \A n \in active : (n.target.scope = PLMNWide => events = 0) =>
               \A c \in Meant(n.target) : Carries(c, n.draft) \/ ToBeServed(c, n)
    BY <1>2 DEF IInv, MeantInv, ServedInv
  <1>13. \A c, n : ToBeServed(c, n) =>
            /\ job.origin = "restart"
            /\ \/ \E t \in todo : t.draft = n.draft /\ c \in Meant(t.target)
               \/ m.draft = n.draft /\ c \in Meant(m.target)
    BY <1>2 DEF ToBeServed, Telling, IInv, JobInv
  <1>14. MeantInv'
    <2> SUFFICES ASSUME NEW c \in Cells, NEW d \in scenario.drafts, Carries(c, d)'
                 PROVE  \E n \in Broadcasting' : n.draft = d /\ c \in Meant(n.target)
      BY <1>1, <1>10 DEF MeantInv
    <2>1. CASE job.origin = "publish"
      BY <1>2, <1>4, <1>9, <1>11, <1>12, <2>1 DEF IInv, JobInv
    <2>2. CASE job.origin = "cancel"
      <3>1. m \in active /\ r.procedure = StopProcedure
        BY <1>2, <2>2 DEF IInv, JobInv
      <3>2. Carries(c, d) /\ ~(d = m.draft /\ c \in Meant(m.target))
        BY <1>2, <1>4, <3>1
      <3>3. PICK n \in active : n.draft = d /\ c \in Meant(n.target)
        BY <1>12, <3>2
      <3>4. QED
        BY <1>9, <1>11, <2>2, <3>1, <3>2, <3>3
    <2>3. CASE job.origin = "restart"
      <3>1. PICK n \in active : PartOf(m, n)
        BY <2>3 DEF IInv, JobInv
      <3>2. n.draft = m.draft /\ r.cells \subseteq Meant(n.target)
        BY <1>2, <3>1 DEF PartOf
      <3>3. QED
        BY <1>4, <1>9, <1>12, <2>3, <3>2
    <2>4. QED
      BY <1>2, <2>1, <2>2, <2>3 DEF IInv, JobInv
  <1>15. ServedInv'
    <2> SUFFICES ASSUME ~unserved, NEW n \in Broadcasting', n.target.scope = PLMNWide => events = 0,
                        NEW c \in Meant(n.target)
                 PROVE  Carries(c, n.draft)' \/ ToBeServed(c, n)'
      BY <1>1, <1>10 DEF ServedInv
    <2>0. c \in Cells
      BY <1>10
    <2>1. CASE job.origin = "publish"
      <3>1. r.procedure # StopProcedure
        BY <1>2, <1>10, <2>1 DEF IInv, JobInv
      <3>2. CASE n = m
        BY <1>2, <1>3, <1>4, <2>0, <3>1, <3>2
      <3>3. CASE n \in active
        BY <1>4, <1>11, <1>12, <1>13, <2>0, <2>1, <3>1, <3>3
      <3>4. QED
        BY <1>9, <2>1, <3>2, <3>3
    <2>2. CASE job.origin = "cancel"
      <3>1. m \in active /\ n \in active /\ n # m
        BY <1>9, <2>2 DEF IInv, JobInv
      <3>2. Carries(c, n.draft)
        BY <1>12, <1>13, <2>2, <3>1
      <3>3. QED
        BY <1>4, <1>11, <2>0, <3>1, <3>2
    <2>3. CASE job.origin = "restart"
      <3>1. r.procedure # StopProcedure /\ n \in active
        BY <1>2, <1>9, <1>10, <2>3 DEF IInv, JobInv
      <3>2. CASE Carries(c, n.draft) \/ (m.draft = n.draft /\ c \in Meant(m.target))
        BY <1>2, <1>4, <1>11, <2>0, <3>1, <3>2
      <3>3. CASE \E t \in todo : t.draft = n.draft /\ c \in Meant(t.target)
        BY <1>1, <1>10, <3>3 DEF ToBeServed
      <3>4. QED
        BY <1>12, <1>13, <3>1, <3>2, <3>3
    <2>4. QED
      BY <1>2, <2>1, <2>2, <2>3 DEF IInv, JobInv
  <1>16. scenario' \in Scenarios /\ ActiveInv' /\ TodoInv' /\ JobInv'
    BY <1>1, RestKept
  <1>17. QED
    BY <1>1, <1>7, <1>14, <1>15, <1>16 DEF IInv

\* The job at hand ends: its answer is read, or there will be none.
LEMMA JobEnds ==
    ASSUME IInv, job # NoJob, request = None, job' = NoJob, active' = Broadcasting,
           ~unserved' => ~unserved /\ (job.origin = "restart" => CarriedOut),
           UNCHANGED <<scenario, todo, request, air, events>>,
           inbox' \in Seq(ToSet(inbox')),
           \A i \in 1..Len(inbox) : inbox[i].kind # "restart",
           \A i \in 1..Len(inbox') : inbox'[i].kind \notin Telling
    PROVE  IInv'
  <1>1. /\ scenario' = scenario /\ Cells' = Cells /\ \A t : Meant(t)' = Meant(t)
        /\ (\A d : Prepared(d)' = Prepared(d)) /\ \A t, m : PartOf(t, m)' <=> PartOf(t, m)
    BY ScenarioKept
  <1>2. job.origin \in {"publish", "cancel", "restart"} /\ (job.origin # "restart" => todo = {})
    BY DEF IInv, JobInv
  <1>3. job'.origin = "none"
    BY DEF NoJob
  <1>4. ~CarriedOut' /\ Broadcasting' = Broadcasting
    BY DEF CarriedOut, Broadcasting, Telling
  <1>5. ActiveInv'
    <2>1. \A m \in active' : Targeted(m.target) /\ \E d \in scenario.drafts : m = Prepared(d)
      <3>1. \A m \in active' : m \in active \/ (job.origin = "publish" /\ m = job.message)
        BY DEF Broadcasting
      <3>2. QED
        BY <3>1 DEF IInv, ActiveInv, JobInv
    <2>2. QED
      BY <1>1, <2>1 DEF ActiveInv
  <1>6. TodoInv'
    <2>1. todo = {} \/ active' = active
      BY <1>2 DEF Broadcasting
    <2>2. QED
      BY <1>1, <2>1 DEF IInv, TodoInv
  <1>7. JobInv'
    BY <1>3 DEF JobInv
  <1>8. InboxInv'
    BY DEF InboxInv, Telling
  <1>9. \A c, d : Carries(c, d)' <=> Carries(c, d)
    BY DEF Carries
  <1>10. MeantInv'
    BY <1>1, <1>4, <1>9 DEF IInv, MeantInv
  <1>11. ServedInv'
    <2> SUFFICES ASSUME ~unserved', NEW c, NEW m, ToBeServed(c, m)
                 PROVE  ToBeServed(c, m)'
      BY <1>1, <1>4, <1>9 DEF IInv, ServedInv
    <2>1. \E t \in todo : t.draft = m.draft /\ c \in Meant(t.target)
      BY DEF ToBeServed
    <2>2. QED
      BY <1>1, <2>1 DEF ToBeServed
  <1>12. QED
    BY <1>1, <1>5, <1>6, <1>7, <1>8, <1>10, <1>11 DEF IInv

\* sendAndAwait gives up.
LEMMA GivingUp == ASSUME IInv, Timeout PROVE IInv'
  <1>1. /\ job # NoJob /\ request = None /\ inbox = <<>> /\ Len(inbox) = 0
        /\ job' = NoJob /\ active' = active /\ unserved' = (unserved \/ job.origin = "restart")
        /\ UNCHANGED <<scenario, todo, request, inbox, air, events>>
    BY DEF Timeout, Fails
  <1>2. ~CarriedOut /\ Broadcasting = active
    BY <1>1 DEF CarriedOut, Broadcasting
  <1>3. inbox' \in Seq(ToSet(inbox')) /\ Len(inbox') = 0
    BY <1>1 DEF IInv, InboxInv
  <1>4. /\ ~unserved' => ~unserved /\ (job.origin = "restart" => CarriedOut)
        /\ \A i \in 1..Len(inbox) : inbox[i].kind # "restart"
        /\ \A i \in 1..Len(inbox') : inbox'[i].kind \notin Telling
    <2>1. ~unserved' => ~unserved /\ job.origin # "restart"
      BY <1>1
    <2>2. (\A i \in 1..Len(inbox) : FALSE) /\ \A i \in 1..Len(inbox') : FALSE
      BY <1>1, <1>3
    <2>3. QED
      BY <2>1, <2>2
  <1>5. active' = Broadcasting /\ UNCHANGED <<scenario, todo, request, air, events>>
    BY <1>1, <1>2
  <1>6. job # NoJob /\ request = None /\ job' = NoJob /\ inbox' \in Seq(ToSet(inbox'))
    BY <1>1, <1>3
  <1>7. QED
    BY <1>4, <1>5, <1>6, JobEnds

\* readLoop reads the next PDU for what it is.
LEMMA Reading == ASSUME IInv, Understood, ReadLoop PROVE IInv'
  <1> DEFINE h == inbox[1]
             d == Read(h.kind, h.procedure, h.what)
  <1>1. inbox # <<>> /\ inbox' = Tail(inbox) /\ UNCHANGED <<scenario, request, air, events>>
    BY DEF ReadLoop
  <1>2. /\ inbox' \in Seq(ToSet(inbox')) /\ Len(inbox) \in Nat \ {0} /\ Len(inbox') = Len(inbox) - 1
        /\ \A i \in 1..Len(inbox') : inbox'[i] = inbox[i + 1]
    BY <1>1, OneLess DEF IInv, InboxInv
  <1>3. TakeIn(d)
    <2>1. Dispatch(inbox[1].pdu) = d
      BY <1>2 DEF Understood
    <2>2. QED
      BY <2>1 DEF ReadLoop
  <1>4. d.kind = h.kind /\ d.procedure = h.procedure /\ d.what = h.what
    BY DEF Read
  <1> HIDE DEF d
  <1>5. 1 \in 1..Len(inbox) /\ \A i \in 1..Len(inbox') : i + 1 \in 1..Len(inbox) /\ i + 1 # 1
    BY <1>2
  <1>6. \A i \in 1..Len(inbox) : i = 1 \/ \E j \in 1..Len(inbox') : i = j + 1 /\ inbox'[j] = inbox[i]
    <2> SUFFICES ASSUME NEW i \in 1..Len(inbox), i # 1
                 PROVE  \E j \in 1..Len(inbox') : i = j + 1 /\ inbox'[j] = inbox[i]
      OBVIOUS
    <2>1. i - 1 \in 1..Len(inbox') /\ i = (i - 1) + 1
      BY <1>2
    <2>2. QED
      BY <1>2, <2>1
  <1>7. CASE h.kind \in Telling
    <2>1. \A i \in 1..Len(inbox) : inbox[i].kind \in Telling => i = 1
      BY <1>5, <1>7 DEF IInv, InboxInv, Telling
    <2>2. \A i \in 1..Len(inbox') : inbox'[i].kind \notin Telling
      BY <1>2, <1>5, <2>1
    <2>3. CASE h.kind \in {"accepted", "rejected"}
      <3>1. job # NoJob /\ request = None /\ IsAnswer(d)
        BY <1>4, <1>5, <2>3 DEF IInv, InboxInv, IsAnswer
      <3>2. todo' = todo /\ IF h.kind = "accepted" THEN Succeeds ELSE Fails
        BY <1>3, <1>4, <2>3, <3>1 DEF TakeIn
      <3>3. job.origin \in {"publish", "cancel", "restart"}
        BY <3>1 DEF IInv, JobInv
      <3>4. \A i \in 1..Len(inbox) : inbox[i].kind # "restart"
        BY <2>1, <2>3 DEF Telling
      <3>5. CASE h.kind = "accepted"
        <4>1. CarriedOut
          BY <1>5, <3>5 DEF CarriedOut
        <4>2. job' = NoJob /\ active' = Broadcasting /\ unserved' = unserved
          BY <3>2, <3>3, <3>5, <4>1 DEF Succeeds, Broadcasting
        <4>3. QED
          BY <1>1, <1>2, <2>2, <3>1, <3>2, <3>4, <4>1, <4>2, JobEnds
      <3>6. CASE h.kind = "rejected"
        <4>1. ~CarriedOut
          BY <2>1, <3>6 DEF CarriedOut, Telling
        <4>2. job' = NoJob /\ active' = Broadcasting /\ unserved' = (unserved \/ job.origin = "restart")
          BY <3>2, <3>6, <4>1 DEF Fails, Broadcasting
        <4>3. QED
          BY <1>1, <1>2, <2>2, <3>1, <3>2, <3>4, <4>1, <4>2, JobEnds
      <3>7. QED
        BY <2>3, <3>5, <3>6
    <2>4. CASE h.kind = "restart"
      <3>1. job = NoJob /\ todo = {} /\ events # 0
        BY <1>5, <2>4 DEF IInv, InboxInv
      <3>2. PICK e \in scenario.enbs : h.what = RestartOfEnb(e)
        BY <1>5, <2>4 DEF IInv, InboxInv
      <3>3. UNCHANGED <<job, active, unserved>> /\ todo' = HandleRestart(RestartOfEnb(e))
        BY <1>3, <1>4, <2>4, <3>1, <3>2 DEF TakeIn, IsAnswer
      <3>4. /\ \A t \in todo' : \E m \in active : PartOf(t, m)
            /\ \A m \in active : m.target.scope # PLMNWide =>
                 \A c \in Meant(m.target) \cap ToSet(e.cells) :
                    \E t \in todo' : t.draft = m.draft /\ c \in Meant(t.target)
        BY <3>3, RestartServes
      <3>5. /\ scenario' = scenario /\ Cells' = Cells /\ \A t : Meant(t)' = Meant(t)
            /\ (\A x : Prepared(x)' = Prepared(x)) /\ \A t, m : PartOf(t, m)' <=> PartOf(t, m)
        BY <1>1, ScenarioKept
      <3>6. job.origin = "none" /\ request = None
        BY <3>1 DEF NoJob, IInv, JobInv
      <3>7. ~CarriedOut /\ ~CarriedOut' /\ Broadcasting = active /\ Broadcasting' = active
        BY <2>1, <2>2, <2>4, <3>3 DEF CarriedOut, Broadcasting, Telling
      <3>8. \A c, x : Carries(c, x)' <=> Carries(c, x)
        BY <1>1 DEF Carries
      <3>9. ActiveInv' /\ TodoInv' /\ JobInv' /\ InboxInv' /\ MeantInv'
        <4>1. ActiveInv'
          BY <3>3, <3>5 DEF IInv, ActiveInv
        <4>2. TodoInv'
          BY <3>3, <3>4, <3>5 DEF TodoInv
        <4>3. JobInv'
          BY <1>1, <3>1, <3>3, <3>6 DEF JobInv
        <4>4. InboxInv'
          BY <1>2, <2>2 DEF InboxInv, Telling
        <4>5. MeantInv'
          BY <3>5, <3>7, <3>8 DEF IInv, MeantInv
        <4>6. QED
          BY <4>1, <4>2, <4>3, <4>4, <4>5
      <3>10. ServedInv'
        <4> SUFFICES ASSUME ~unserved, NEW m \in active, m.target.scope = PLMNWide => events = 0,
                            NEW c \in Meant(m.target)
                     PROVE  Carries(c, m.draft) \/ ToBeServed(c, m)'
          BY <1>1, <3>3, <3>5, <3>7, <3>8 DEF ServedInv
        <4>1. CASE ToBeServed(c, m)
          <5>1. PICK i \in 1..Len(inbox), f \in scenario.enbs :
                   inbox[i].kind = "restart" /\ inbox[i].what = RestartOfEnb(f) /\ c \in ToSet(f.cells)
            BY <3>1, <3>6, <4>1 DEF ToBeServed
          <5>2. h.what = RestartOfEnb(f)
            BY <2>1, <5>1 DEF Telling
          <5>3. \E t \in todo' : t.draft = m.draft /\ c \in Meant(t.target)
            <6>1. todo' = HandleRestart(RestartOfEnb(f))
              BY <3>2, <3>3, <5>2
            <6>2. QED
              BY <3>1, <5>1, <6>1, RestartServes
          <5>4. QED
            BY <3>5, <5>3 DEF ToBeServed
        <4>2. QED
          BY <3>7, <4>1 DEF IInv, ServedInv
      <3>11. QED
        BY <1>1, <3>5, <3>9, <3>10 DEF IInv
    <2>5. QED
      BY <1>7, <2>3, <2>4 DEF Telling
  <1>8. CASE h.kind \notin Telling
    <2>1. ~IsAnswer(d) /\ d.kind # "restart"
      BY <1>4, <1>8 DEF IsAnswer, Telling
    <2>2. UNCHANGED <<job, active, unserved, todo>>
      BY <1>3, <2>1 DEF TakeIn
    <2>3. \A i \in 1..Len(inbox) : inbox[i].kind \in Telling =>
             \E j \in 1..Len(inbox') : inbox'[j] = inbox[i]
      BY <1>6, <1>8
    <2>4. CarriedOut' <=> CarriedOut
      <3>1. CarriedOut => CarriedOut'
        BY <2>3 DEF CarriedOut, Telling
      <3>2. CarriedOut' => CarriedOut
        BY <1>2, <1>5 DEF CarriedOut
      <3>3. QED
        BY <3>1, <3>2
    <2>5. MeantInv' /\ ServedInv'
      BY <1>1, <2>2, <2>3, <2>4, AirKept DEF Telling
    <2>6. InboxInv'
      <3>1. \A i, j \in 1..Len(inbox') : {inbox'[i].kind, inbox'[j].kind} \subseteq Telling => i = j
        <4> SUFFICES ASSUME NEW i \in 1..Len(inbox'), NEW j \in 1..Len(inbox'),
                            {inbox'[i].kind, inbox'[j].kind} \subseteq Telling
                     PROVE  i = j
          OBVIOUS
        <4>1. i + 1 = j + 1
          BY <1>2, <1>5, SMTT(30) DEF IInv, InboxInv, Telling
        <4>2. QED
          BY <4>1
      <3>2. \A i \in 1..Len(inbox') :
             /\ inbox'[i].kind \in {"accepted", "rejected"} =>
                  job # NoJob /\ request = None /\ inbox'[i].procedure = job.procedure
             /\ inbox'[i].kind = "accepted" => inbox'[i].what = <<job.message.messageID, job.message.serial>>
             /\ inbox'[i].kind = "restart" =>
                  job = NoJob /\ todo = {} /\ events # 0 /\ \E f \in scenario.enbs : inbox'[i].what = RestartOfEnb(f)
        <4> TAKE i \in 1..Len(inbox')
        <4>1. i + 1 \in 1..Len(inbox) /\ inbox'[i] = inbox[i + 1]
          BY <1>2, <1>5
        <4>2. QED
          BY <4>1 DEF IInv, InboxInv
      <3>3. QED
        BY <1>1, <1>2, <2>2, <3>1, <3>2 DEF InboxInv, Telling
    <2>7. scenario' \in Scenarios /\ ActiveInv' /\ TodoInv' /\ JobInv'
      BY <1>1, <2>2, RestKept
    <2>8. QED
      BY <1>1, <2>5, <2>6, <2>7 DEF IInv
  <1>9. QED
    BY <1>7, <1>8

\* The rows stored are as finite as the inventory.
LEMMA InventoryIsFinite ==
    ASSUME scenario \in Scenarios
    PROVE  IsFiniteSet(Inventory)
  <1> DEFINE rows == {r \in scenario.inventory : CoverageAccepted(r)}
             f == [r \in rows |-> Stored(r)]
  <1>1. IsFiniteSet(rows)
    BY ScenariosAssumption, FS_Subset
  <1>2. Inventory = {f[r] : r \in rows}
    BY DEF Inventory
  <1> HIDE DEF rows
  <1>3. IsFiniteSet({f[r] : r \in rows})
    BY <1>1, FiniteImage
  <1>4. QED
    BY <1>2, <1>3

\* A request is sent while nothing is on the way and no job is at hand.
LEMMA Sending ==
    ASSUME IInv, job = NoJob, UNCHANGED <<scenario, active, inbox, air, events, unserved>>,
           \A i \in 1..Len(inbox) : inbox[i].kind \notin Telling,
           JobInv', TodoInv',
           \A t \in todo : \/ t \in todo'
                           \/ job'.origin = "restart" /\ job'.message = t
    PROVE  IInv'
  <1>1. /\ scenario' = scenario /\ Cells' = Cells /\ \A t : Meant(t)' = Meant(t)
        /\ (\A x : Prepared(x)' = Prepared(x))
    BY ScenarioKept
  <1>2. job.origin = "none"
    BY DEF NoJob
  <1>3. ~CarriedOut /\ ~CarriedOut' /\ Broadcasting = active /\ Broadcasting' = active
    BY DEF CarriedOut, Broadcasting, Telling
  <1>4. ActiveInv'
    BY <1>1 DEF IInv, ActiveInv
  <1>5. InboxInv'
    BY DEF IInv, InboxInv, Telling
  <1>6. \A c, d : Carries(c, d)' <=> Carries(c, d)
    BY DEF Carries
  <1>7. MeantInv'
    BY <1>1, <1>3, <1>6 DEF IInv, MeantInv
  <1>8. \A c, m : ToBeServed(c, m) => ToBeServed(c, m)'
    <2> SUFFICES ASSUME NEW c, NEW m, ToBeServed(c, m)
                 PROVE  ToBeServed(c, m)'
      OBVIOUS
    <2>1. PICK t \in todo : t.draft = m.draft /\ c \in Meant(t.target)
      BY <1>2 DEF ToBeServed, Telling
    <2>2. CASE t \in todo'
      BY <1>1, <2>1, <2>2 DEF ToBeServed
    <2>3. CASE job'.origin = "restart" /\ job'.message = t
      BY <1>1, <1>3, <2>1, <2>3 DEF ToBeServed
    <2>4. QED
      BY <2>1, <2>2, <2>3
  <1>9. ServedInv'
    BY <1>1, <1>3, <1>6, <1>8 DEF IInv, ServedInv
  <1>10. QED
    BY <1>1, <1>4, <1>5, <1>7, <1>9 DEF IInv

\* An alert is broadcast.
LEMMA Publishing ==
    ASSUME IInv, NEW d \in scenario.drafts, Publish(d)
    PROVE  IInv'
  <1>1. /\ Idle /\ (\A m \in active : m.draft # d) /\ Prepared(d).target # None
        /\ job' = [procedure |-> WriteReplaceProcedure, message |-> Prepared(d), origin |-> "publish"]
        /\ UNCHANGED <<scenario, active, todo, inbox, air, events, unserved>>
    BY DEF Publish, Submit, Send
  <1>2. job = NoJob /\ todo = {} /\ Len(inbox) = 0 /\ job'.origin = "publish"
    BY <1>1 DEF Idle
  <1>3. Targeted(Prepared(d).target)
    <2>1. Prepared(d).target = TargetOf(Inventory, d)
      BY DEF Prepared
    <2>2. \A list \in {d.cells, d.tais, d.polygons} : list \in Seq(ToSet(list))
      BY ScenariosAssumption DEF IInv
    <2>3. IsFiniteSet(Inventory)
      BY InventoryIsFinite DEF IInv
    <2>4. QED
      BY <1>1, <2>1, <2>2, <2>3, TargetOfIs
  <1>4. job' # NoJob
    BY <1>2 DEF NoJob
  <1>5. scenario' = scenario /\ \A x : Prepared(x)' = Prepared(x)
    BY <1>1, ScenarioKept
  <1>6. JobInv'
    <2>1. job'.message = Prepared(d) /\ job'.procedure = WriteReplaceProcedure
      BY <1>1
    <2>2. todo' = {} /\ active' = active
      BY <1>1, <1>2
    <2>3. QED
      BY <1>1, <1>2, <1>3, <1>4, <1>5, <2>1, <2>2 DEF JobInv
  <1>7. TodoInv'
    BY <1>1, <1>2 DEF TodoInv
  <1>8. QED
    BY <1>1, <1>2, <1>6, <1>7, Sending

\* An alert is cancelled.
LEMMA Cancelling ==
    ASSUME IInv, NEW m \in active, Cancel(m)
    PROVE  IInv'
  <1>1. /\ Idle
        /\ job' = [procedure |-> StopProcedure, message |-> m, origin |-> "cancel"]
        /\ UNCHANGED <<scenario, active, todo, inbox, air, events, unserved>>
    BY DEF Cancel, Send
  <1>2. /\ job = NoJob /\ todo = {} /\ Len(inbox) = 0
        /\ job'.origin = "cancel" /\ job'.message = m /\ job'.procedure = StopProcedure
    BY <1>1 DEF Idle
  <1>3. JobInv'
    <2>1. job' # NoJob
      BY <1>2 DEF NoJob
    <2>2. QED
      BY <1>1, <1>2, <2>1 DEF JobInv
  <1>4. TodoInv'
    BY <1>1, <1>2 DEF TodoInv
  <1>5. QED
    BY <1>1, <1>2, <1>3, <1>4, Sending

\* A message is sent again to what restarted.
LEMMA Rebroadcasting ==
    ASSUME IInv, NEW t \in todo, Rebroadcast(t)
    PROVE  IInv'
  <1>1. /\ job = NoJob /\ todo' = todo \ {t}
        /\ job' = [procedure |-> WriteReplaceProcedure, message |-> t, origin |-> "restart"]
        /\ UNCHANGED <<scenario, active, inbox, air, events, unserved>>
    BY DEF Rebroadcast, Send
  <1>2. job'.origin = "restart" /\ job'.message = t /\ job'.procedure = WriteReplaceProcedure
    BY <1>1
  <1>3. \A i \in 1..Len(inbox) : inbox[i].kind \notin Telling
    BY <1>1 DEF IInv, InboxInv, Telling
  <1>4. scenario' = scenario /\ \A x, m : PartOf(x, m)' <=> PartOf(x, m)
    BY <1>1, ScenarioKept
  <1>5. JobInv'
    <2>1. job' # NoJob
      BY <1>2 DEF NoJob
    <2>2. \E m \in active' : PartOf(t, m)
      BY <1>1 DEF IInv, TodoInv
    <2>3. QED
      BY <1>2, <1>4, <2>1, <2>2 DEF JobInv
  <1>6. TodoInv'
    BY <1>1, <1>4 DEF IInv, TodoInv
  <1>7. QED
    BY <1>1, <1>2, <1>3, <1>5, <1>6, Sending

\* Every step keeps the invariant as long as what is sent is understood.
LEMMA EveryStep ==
    ASSUME IInv, Understood, [Next]_vars
    PROVE  IInv'
  <1>1. CASE UNCHANGED vars
    <2>1. /\ UNCHANGED <<scenario, active, job, todo, air, unserved>>
          /\ request' = request /\ inbox' = inbox /\ events' = events
      BY <1>1 DEF vars
    <2>2. CarriedOut' <=> CarriedOut
      BY <2>1 DEF CarriedOut
    <2>3. MeantInv' /\ ServedInv'
      BY <2>1, <2>2, AirKept
    <2>4. InboxInv'
      BY <2>1 DEF IInv, InboxInv
    <2>5. scenario' \in Scenarios /\ ActiveInv' /\ TodoInv' /\ JobInv'
      BY <2>1, RestKept
    <2>6. QED
      BY <2>1, <2>3, <2>4, <2>5 DEF IInv
  <1>2. CASE \E d \in scenario.drafts : Publish(d)
    BY <1>2, Publishing
  <1>3. CASE \E m \in active : Cancel(m)
    BY <1>3, Cancelling
  <1>4. CASE \E t \in todo : Rebroadcast(t)
    BY <1>4, Rebroadcasting
  <1>5. CASE ReadLoop
    BY <1>5, Reading
  <1>6. CASE Timeout
    BY <1>6, GivingUp
  <1>7. CASE MmeAccepts
    BY <1>7, Accepting
  <1>8. CASE MmeRefuses
    BY <1>8, Refusing
  <1>9. CASE \E e \in scenario.enbs : EnbRestarts(e)
    BY <1>9, Restarting
  <1>10. CASE \E e \in scenario.enbs : EnbFails(e)
    BY <1>10, Failing
  <1>11. QED
    BY <1>1, <1>2, <1>3, <1>4, <1>5, <1>6, <1>7, <1>8, <1>9, <1>10 DEF Next

\* When nothing is on the way, the invariant is the property.
LEMMA InvIsEnough == IInv => OnAirIsTarget
  <1> SUFFICES ASSUME IInv, Idle, ~unserved, NEW d \in scenario.drafts
               PROVE  LET carrying == {c \in Cells : \E b \in air[c] : b.ids = Ids(d)}
                          targets == {m.target : m \in {n \in active : n.draft = d}}
                          meant == UNION {Meant(t) : t \in targets}
                      IN  IF events > 0 /\ \E t \in targets : t.scope = PLMNWide
                          THEN carrying \subseteq meant ELSE carrying = meant
    BY DEF OnAirIsTarget
  <1> DEFINE carrying == {c \in Cells : \E b \in air[c] : b.ids = Ids(d)}
             targets == {m.target : m \in {n \in active : n.draft = d}}
             meant == UNION {Meant(t) : t \in targets}
  <1>1. job.origin = "none" /\ todo = {} /\ Len(inbox) = 0
    BY DEF Idle, NoJob
  <1>2. ~CarriedOut /\ Broadcasting = active
    BY <1>1 DEF CarriedOut, Broadcasting
  <1>3. carrying = {c \in Cells : Carries(c, d)}
    BY DEF Carries
  <1>4. \A c : c \in meant <=> \E m \in active : m.draft = d /\ c \in Meant(m.target)
    OBVIOUS
  <1>5. \A t : Meant(t) \subseteq Cells
    BY DEF Meant
  <1>6. \A c, m : ~ToBeServed(c, m)
    BY <1>1 DEF ToBeServed
  <1>7. carrying \subseteq meant
    <2>1. \A c \in carrying : c \in Cells /\ Carries(c, d)
      BY <1>3
    <2> HIDE DEF carrying, meant
    <2>2. QED
      BY <1>2, <1>4, <2>1 DEF IInv, MeantInv
  <1>8. ASSUME ~(events > 0 /\ \E t \in targets : t.scope = PLMNWide)
        PROVE  meant \subseteq carrying
    <2>1. ASSUME NEW m \in active, m.draft = d
          PROVE  m.target.scope = PLMNWide => events = 0
      <3>1. m.target \in targets
        BY <2>1
      <3>2. m.target.scope = PLMNWide => ~(events > 0)
        BY <1>8, <3>1
      <3>3. QED
        BY <3>2 DEF IInv
    <2> HIDE DEF carrying, meant, targets
    <2>2. \A m \in active : m.draft = d => \A c \in Meant(m.target) : Carries(c, d) /\ c \in Cells
      BY <1>2, <1>5, <1>6, <2>1 DEF IInv, ServedInv
    <2>3. QED
      BY <1>3, <1>4, <2>2
  <1>9. QED
    BY <1>7, <1>8

\* For any scenario, any number of restarts and failures, and whatever is
\* refused or times out: while each end understands the other, an alert is on
\* the air in the cells its target means.  (OnAirIsTarget)
THEOREM OnAirIsTargetHolds == Spec /\ []Understood => []OnAirIsTarget
  <1>1. Init => IInv
    BY Start
  <1>2. IInv /\ Understood /\ [Next]_vars => IInv'
    BY EveryStep
  <1>3. IInv => OnAirIsTarget
    BY InvIsEnough
  <1>4. QED
    BY <1>1, <1>2, <1>3, PTL DEF Spec

-----------------------------------------------------------------------------
(* The identity of an eNB *)

\* The second of two things got is made an identity of the kind.
LEMMA AsENBIDOfTwo ==
    ASSUME NEW buf, NEW at, NEW got, Listed(got), NEW a, NEW b, NEW kind
    PROVE  AsENBID(At(buf, at, Append(Append(got, a), b)), 2, kind) =
             At(buf, at, Append(got, [kind |-> kind, value |-> b]))
  <1> DEFINE p == <<a, b>>
             g == got \o p
  <1>1. Append(Append(got, a), b) = g /\ Listed(p) /\ Len(p) = 2 /\ p[1] = a /\ p[2] = b
    BY TwoAppended, SMTT(30)
  <1> HIDE DEF p
  <1>2. /\ SubSeq(g, 1, Len(g) - Len(p)) = got
        /\ SubSeq(g, Len(g) - Len(p) + 1, Len(g)) = p
    BY <1>1, TailIs
  <1> HIDE DEF g
  <1>3. SubSeq(g, 1, Len(g) - 2) = got /\ SubSeq(g, Len(g) - 2 + 1, Len(g)) = p
    BY <1>1, <1>2, Zenon
  <1>4. AsENBID(At(buf, at, g), 2, kind) = At(buf, at, Append(got, [kind |-> kind, value |-> b]))
    BY <1>1, <1>3 DEF AsENBID, Combine, At
  <1>5. QED
    BY <1>1, <1>4

\* The third of three is.
LEMMA AsENBIDOfThree ==
    ASSUME NEW buf, NEW at, NEW got, Listed(got), NEW a, NEW b, NEW c, NEW kind
    PROVE  AsENBID(At(buf, at, Append(Append(Append(got, a), b), c)), 3, kind) =
             At(buf, at, Append(got, [kind |-> kind, value |-> c]))
  <1> DEFINE p == <<a, b, c>>
             g == got \o p
  <1>1. Append(Append(Append(got, a), b), c) = g /\ Listed(p) /\ Len(p) = 3 /\ p[3] = c
    BY ThreeAppended, SMTT(30)
  <1> HIDE DEF p
  <1>2. /\ SubSeq(g, 1, Len(g) - Len(p)) = got
        /\ SubSeq(g, Len(g) - Len(p) + 1, Len(g)) = p
    BY <1>1, TailIs
  <1> HIDE DEF g
  <1>3. SubSeq(g, 1, Len(g) - 3) = got /\ SubSeq(g, Len(g) - 3 + 1, Len(g)) = p
    BY <1>1, <1>2, Zenon
  <1>4. AsENBID(At(buf, at, g), 3, kind) = At(buf, at, Append(got, [kind |-> kind, value |-> c]))
    BY <1>1, <1>3 DEF AsENBID, Combine, At
  <1>5. QED
    BY <1>1, <1>4

\* A PLMN and an identity are made an eNB.
LEMMA AsGlobalENBIDIs ==
    ASSUME NEW buf, NEW at, NEW got, Listed(got), NEW p0, NEW kind, NEW value
    PROVE  AsGlobalENBID(At(buf, at, Append(Append(got, p0), [kind |-> kind, value |-> value]))) =
             At(buf, at, Append(got, [plmn |-> p0, kind |-> kind, value |-> value]))
  <1> DEFINE b == [kind |-> kind, value |-> value]
             p == <<p0, b>>
             g == got \o p
  <1>1. b.kind = kind /\ b.value = value
    OBVIOUS
  <1> HIDE DEF b
  <1>2. Append(Append(got, p0), b) = g /\ Listed(p) /\ Len(p) = 2 /\ p[1] = p0 /\ p[2] = b
    BY TwoAppended, SMTT(30)
  <1> HIDE DEF p
  <1>3. /\ SubSeq(g, 1, Len(g) - Len(p)) = got
        /\ SubSeq(g, Len(g) - Len(p) + 1, Len(g)) = p
    BY <1>2, TailIs
  <1> HIDE DEF g
  <1>4. SubSeq(g, 1, Len(g) - 2) = got /\ SubSeq(g, Len(g) - 2 + 1, Len(g)) = p
    BY <1>2, <1>3, Zenon
  <1>5. AsGlobalENBID(At(buf, at, g)) = At(buf, at, Append(got, [plmn |-> p0, kind |-> kind, value |-> value]))
    BY <1>1, <1>2, <1>4, ZenonT(60) DEF AsGlobalENBID, Combine, At
  <1>6. QED
    BY <1>2, <1>5 DEF b

\* A bit.
LEMMA BitIs ==
    /\ Bits(0, 1) = <<0>> /\ Bits(1, 1) = <<1>> /\ <<1>> # <<0>>
  <1>1. (0 \div 2^(1 - 1)) % 2 = 0 /\ (1 \div 2^(1 - 1)) % 2 = 1
    <2>1. 2^0 = 1 /\ 1 - 1 = 0 /\ (0 \div 1) % 2 = 0 /\ (1 \div 1) % 2 = 1
      OBVIOUS
    <2>2. QED
      BY <2>1
  <1>2. \A i \in 1..1 : i = 1
    OBVIOUS
  <1>3. Bits(0, 1) = <<0>>
    BY <1>1, <1>2 DEF Bits
  <1>4. Bits(1, 1) = <<1>>
    BY <1>1, <1>2 DEF Bits
  <1>5. <<1>> # <<0>>
    OBVIOUS
  <1>6. QED
    BY <1>3, <1>4, <1>5

\* Two of them.
LEMMA TwoBits ==
    ASSUME NEW y, NEW x
    PROVE  <<y>> \o <<x>> = <<y, x>> /\ Listed(<<y>>) /\ Listed(<<x>>)
  <1> DEFINE s == <<y>>
             t == <<x>>
             p == <<y, x>>
  <1>1. /\ s \in Seq({y}) /\ Len(s) = 1 /\ s[1] = y
        /\ t \in Seq({x}) /\ Len(t) = 1 /\ t[1] = x
        /\ p \in Seq({y, x}) /\ Len(p) = 2 /\ p[1] = y /\ p[2] = x
    OBVIOUS
  <1> HIDE DEF s, t, p
  <1>2. Listed(s) /\ Listed(t) /\ Listed(p)
    BY <1>1, ListsAre
  <1> DEFINE j == s \o t
  <1>3. /\ Listed(j) /\ Len(j) = Len(s) + Len(t)
        /\ \A i \in 1..Len(s) : j[i] = s[i]
        /\ \A i \in 1..Len(t) : j[Len(s) + i] = t[i]
    BY <1>2, Joined
  <1> HIDE DEF j
  <1>4. Len(j) = 2 /\ j[1] = y /\ j[2] = x
    <2>1. 1 \in 1..1 /\ 1 + 1 = 2
      OBVIOUS
    <2>2. QED
      BY <1>1, <1>3, <2>1
  <1>5. j = p
    <2>1. \A i \in 1..2 : i = 1 \/ i = 2
      OBVIOUS
    <2>2. Len(j) = Len(p) /\ \A i \in 1..Len(j) : j[i] = p[i]
      BY <1>1, <1>4, <2>1
    <2>3. Listed(j)
      BY <1>3
    <2>4. QED
      BY <1>2, <2>2, <2>3, SameList
  <1>6. QED
    BY <1>2, <1>5 DEF s, t, p, j

\* It is seen ahead.
LEMMA BitAhead ==
    ASSUME NEW w, Listed(w), NEW x \in 0..1
    PROVE  /\ GoesOn(w, w \o Bits(x, 1)) /\ Len(w \o Bits(x, 1)) = Len(w) + 1
           /\ \A buf, got : Listed(buf) /\ Starts(w \o Bits(x, 1), buf) =>
                 /\ Has(At(buf, Len(w), got), 1) /\ Ahead(At(buf, Len(w), got), 1) = Bits(x, 1)
                 /\ Skip(At(buf, Len(w), got), 1) = At(buf, Len(w \o Bits(x, 1)), got)
  <1> DEFINE p == Bits(x, 1)
  <1>1. Listed(p) /\ Len(p) = 1
    <2>1. 1 \in 0..28 /\ x \in Nat
      OBVIOUS
    <2>2. QED
      BY <2>1, BitsListed
  <1> HIDE DEF p
  <1>2. /\ GoesOn(w, w \o p) /\ Len(w \o p) = Len(w) + 1
        /\ \A buf : Listed(buf) /\ Starts(w \o p, buf) => Starts(w, buf) /\ Stands(p, buf, Len(w))
    BY <1>1, AppendGoesOn
  <1>3. Len(w) \in Nat
    BY ListLength
  <1>4. ASSUME NEW buf, NEW got, Listed(buf), Starts(w \o p, buf)
        PROVE  /\ Has(At(buf, Len(w), got), 1) /\ Ahead(At(buf, Len(w), got), 1) = p
               /\ Skip(At(buf, Len(w), got), 1) = At(buf, Len(w \o p), got)
    <2>1. Stands(p, buf, Len(w))
      BY <1>2, <1>4
    <2>2. Has(At(buf, Len(w), got), Len(p)) /\ Ahead(At(buf, Len(w), got), Len(p)) = p
      <3>1. Listed(p)
        BY <1>1
      <3>2. Listed(buf)
        BY <1>4
      <3> DEFINE at == Len(w)
      <3>3. at \in Nat /\ Stands(p, buf, at)
        BY <1>3, <2>1
      <3> HIDE DEF at
      <3>4. Has(At(buf, at, got), Len(p)) /\ Ahead(At(buf, at, got), Len(p)) = p
        BY <3>1, <3>2, <3>3, AheadIs
      <3>5. QED
        BY <3>4 DEF at
    <2>3. Has(At(buf, Len(w), got), 1) /\ Ahead(At(buf, Len(w), got), 1) = p
      BY <1>1, <2>2, Zenon
    <2>4. Skip(At(buf, Len(w), got), 1) = At(buf, Len(w) + 1, got)
      <3>1. Has(At(buf, Len(w), got), 1)
        BY <2>3
      <3>2. QED
        BY <3>1 DEF Skip, At
    <2>5. QED
      BY <1>2, <2>3, <2>4
  <1>5. QED
    BY <1>2, <1>4 DEF p

-----------------------------------------------------------------------------
(* Bits on an octet boundary *)

\* The lengths of ENB-IDs.
Long(n) == n \in 0..28 /\ (n + 7) \div 8 > 2

\* A long bit string of fixed size that is written is read.
LEMMA FixedBitsPass ==
    ASSUME NoneIsNoList, NEW w, Listed(w), NEW n, Long(n), NEW v, Fits(v, n)
    PROVE  LET w2 == PutBits(Align(w), v, n)
           IN  /\ GoesOn(w, w2) /\ Len(w2) <= Len(w) + 35
               /\ \A buf, got : Listed(buf) /\ Starts(w2, buf) =>
                     DecodeFixedBitString(At(buf, Len(w), got), n) = At(buf, Len(w2), Append(got, v))
  <1> DEFINE a == Align(w)
             w2 == a \o Bits(v, n)
  <1>1. /\ GoesOn(w, a)
        /\ \A buf, got : Listed(buf) /\ Starts(a, buf) =>
              AlignReader(At(buf, Len(w), got)) = At(buf, Len(a), got)
    BY AlignGoesOn
  <1>2. Listed(a) /\ a # None /\ Len(a) = Len(w) + Padding(Len(w)) /\ Len(w) \in Nat /\ Padding(Len(w)) \in 0..7
    BY AlignedThen, PaddingIsWritten, ListLength, PaddingIs
  <1>3. PutBits(a, v, n) = w2
    BY <1>2 DEF PutBits
  <1> HIDE DEF a
  <1>4. /\ GoesOn(a, w2) /\ Len(w2) = Len(a) + n
        /\ \A buf : Listed(buf) /\ Starts(w2, buf) => Starts(a, buf)
        /\ \A buf, got : Listed(buf) /\ Starts(w2, buf) =>
              GetBits(At(buf, Len(a), got), n) = At(buf, Len(w2), Append(got, v))
    BY <1>2, BitsPass
  <1> HIDE DEF w2
  <1>5. GoesOn(w, w2)
    BY <1>1, <1>2, <1>4, GoesOnThrough
  <1>6. Len(w2) <= Len(w) + 35
    <2>1. \A j \in Nat, k \in 0..7, l \in 0..28 : (j + k) + l <= j + 35
      OBVIOUS
    <2>2. n \in 0..28
      BY DEF Long
    <2>3. QED
      BY <1>2, <1>4, <2>1, <2>2
  <1>7. ASSUME NEW buf, NEW got, Listed(buf), Starts(w2, buf)
        PROVE  DecodeFixedBitString(At(buf, Len(w), got), n) = At(buf, Len(w2), Append(got, v))
    <2>1. Starts(a, buf)
      BY <1>4, <1>7
    <2>2. AlignReader(At(buf, Len(w), got)) = At(buf, Len(a), got)
      BY <1>1, <1>7, <2>1
    <2>3. GetBits(At(buf, Len(a), got), n) = At(buf, Len(w2), Append(got, v))
      BY <1>4, <1>7
    <2>4. DecodeFixedBitString(At(buf, Len(w), got), n) = GetBits(AlignReader(At(buf, Len(w), got)), n)
      BY DEF DecodeFixedBitString, Long
    <2>5. QED
      BY <2>2, <2>3, <2>4
  <1>8. QED
    BY <1>3, <1>5, <1>6, <1>7 DEF a

\* The two kinds of the root: the index of the kind is a bit.
Rooted(x, kind, n) == (x = 0 /\ kind = "macro" /\ n = 20) \/ (x = 1 /\ kind = "home" /\ n = 28)

\* The two extensions: the index is a small number.
Extending(x, kind, n) == (x = 0 /\ kind = "shortMacro" /\ n = 18) \/ (x = 1 /\ kind = "longMacro" /\ n = 21)

\* The kinds of identities, by their numbers: each is of more than two octets.
LEMMA KindsAreLong ==
    ASSUME NEW x, NEW kind, NEW n
    PROVE  /\ Rooted(x, kind, n) => /\ EnbKinds[kind] = n /\ Long(n) /\ x \in 0..1
                                    /\ kind = IF x = 0 THEN "macro" ELSE "home"
           /\ Extending(x, kind, n) => /\ EnbKinds[kind] = n /\ Long(n) /\ x \in 0..1
                                       /\ kind = IF x = 0 THEN "shortMacro" ELSE "longMacro"
                                       /\ ExtensionIndex(kind) = x
  <1>1. Long(20) /\ Long(28) /\ Long(18) /\ Long(21)
    BY DEF Long
  <1>2. Rooted(x, kind, n) => EnbKinds[kind] = n /\ x \in 0..1
    BY DEF Rooted, EnbKinds
  <1>3. Extending(x, kind, n) => EnbKinds[kind] = n /\ x \in 0..1
    BY DEF Extending, EnbKinds
  <1>4. Rooted(x, kind, n) => Long(n)
    BY <1>1 DEF Rooted
  <1>5. Extending(x, kind, n) => Long(n)
    BY <1>1 DEF Extending
  <1>6. Rooted(x, kind, n) => kind = IF x = 0 THEN "macro" ELSE "home"
    BY DEF Rooted
  <1>7. Extending(x, kind, n) => /\ kind = IF x = 0 THEN "shortMacro" ELSE "longMacro"
                                 /\ ExtensionIndex(kind) = x
    BY DEF Extending, ExtensionIndex
  <1>8. QED
    BY <1>2, <1>3, <1>4, <1>5, <1>6, <1>7

\* The bits of an identity in the root are few.
LEMMA RootBounds ==
    \A n \in Nat, m \in Nat : m <= ((n + 1) + 1) + 35 => m <= n + 100
  OBVIOUS

\* An identity of the root is read.
LEMMA RootPasses ==
    ASSUME NoneIsNoList, NEW w, Listed(w), NEW x, NEW kind, NEW n, Rooted(x, kind, n), NEW v, Fits(v, n)
    PROVE  LET w2 == PutBits(Align(w \o <<0, x>>), v, n)
           IN  /\ GoesOn(w, w2) /\ Len(w2) <= Len(w) + 100
               /\ \A buf, got : Listed(buf) /\ Listed(got) /\ Starts(w2, buf) =>
                     DecodeENBID(At(buf, Len(w), got)) = At(buf, Len(w2), Append(got, [kind |-> kind, value |-> v]))
  <1> DEFINE u1 == w \o Bits(0, 1)
             u2 == u1 \o Bits(x, 1)
             w2 == PutBits(Align(u2), v, n)
             id == [kind |-> kind, value |-> v]
  <1>1. x \in 0..1 /\ EnbKinds[kind] = n /\ Long(n) /\ kind = IF x = 0 THEN "macro" ELSE "home"
    BY KindsAreLong
  <1>2. w \o <<0, x>> = u2
    <2>1. Bits(0, 1) = <<0>> /\ Bits(x, 1) = <<x>>
      <3>1. x = 0 \/ x = 1
        BY <1>1
      <3>2. QED
        BY <3>1, BitIs
    <2>2. <<0>> \o <<x>> = <<0, x>> /\ Listed(<<0>>) /\ Listed(<<x>>)
      BY TwoBits
    <2>3. (w \o <<0>>) \o <<x>> = w \o (<<0>> \o <<x>>)
      BY <2>2, JoinedTwice
    <2>4. QED
      BY <2>1, <2>2, <2>3
  <1>3. /\ GoesOn(w, u1) /\ Len(u1) = Len(w) + 1
        /\ \A buf, got : Listed(buf) /\ Starts(u1, buf) =>
              /\ Has(At(buf, Len(w), got), 1) /\ Ahead(At(buf, Len(w), got), 1) = Bits(0, 1)
              /\ Skip(At(buf, Len(w), got), 1) = At(buf, Len(u1), got)
    <2>1. 0 \in 0..1
      OBVIOUS
    <2>2. QED
      BY <2>1, BitAhead
  <1>4. Listed(u1)
    BY <1>3 DEF GoesOn
  <1> HIDE DEF u1
  <1>5. u2 = PutConstrainedWholeNumber(u1, 0, 1, x)
    BY <1>1, <1>4, BitIsWritten
  <1>6. /\ GoesOn(u1, u2) /\ Len(u2) = Len(u1) + 1
        /\ \A buf, got : Listed(buf) /\ Listed(got) /\ Starts(u2, buf) =>
              GetConstrainedWholeNumber(At(buf, Len(u1), got), 0, 1) = At(buf, Len(u2), Append(got, x))
    <2> DEFINE q == PutConstrainedWholeNumber(u1, 0, 1, x)
    <2>1. x \in 0..1
      BY <1>1
    <2>2. /\ GoesOn(u1, q) /\ Len(q) = Len(u1) + 1
          /\ \A buf, got : Listed(buf) /\ Listed(got) /\ Starts(q, buf) =>
                GetConstrainedWholeNumber(At(buf, Len(u1), got), 0, 1) = At(buf, Len(q), Append(got, x))
      BY <1>4, <2>1, BitPasses
    <2> HIDE DEF u2
    <2>3. QED
      BY <1>5, <2>2, Zenon
  <1>7. Listed(u2)
    BY <1>6 DEF GoesOn
  <1> HIDE DEF u2
  <1>8. /\ GoesOn(u2, w2) /\ Len(w2) <= Len(u2) + 35
        /\ \A buf, got : Listed(buf) /\ Starts(w2, buf) =>
              DecodeFixedBitString(At(buf, Len(u2), got), n) = At(buf, Len(w2), Append(got, v))
    BY <1>1, <1>7, FixedBitsPass
  <1> HIDE DEF w2
  <1>9. GoesOn(u1, w2) /\ \A buf : Listed(buf) /\ Starts(w2, buf) => Starts(u2, buf) /\ Starts(u1, buf)
    BY <1>4, <1>6, <1>8, GoesOnThrough
  <1>10. GoesOn(w, w2)
    BY <1>3, <1>9, GoesOnThrough
  <1>11. Len(w2) <= Len(w) + 100
    <2>1. Len(w) \in Nat /\ Len(w2) \in Nat
      <3>1. Listed(w2)
        BY <1>10 DEF GoesOn
      <3>2. QED
        BY <3>1, ListLength
    <2>2. Len(w2) <= ((Len(w) + 1) + 1) + 35
      BY <1>3, <1>6, <1>8
    <2>3. QED
      BY <2>1, <2>2, RootBounds
  <1> HIDE DEF id
  <1>12. ASSUME NEW buf, NEW got, Listed(buf), Listed(got), Starts(w2, buf)
         PROVE  DecodeENBID(At(buf, Len(w), got)) = At(buf, Len(w2), Append(got, id))
    <2> DEFINE g1 == Append(got, x)
               g2 == Append(g1, v)
    <2>1. Starts(u1, buf) /\ Starts(u2, buf)
      BY <1>9, <1>12
    <2>2. /\ Has(At(buf, Len(w), got), 1) /\ Ahead(At(buf, Len(w), got), 1) = Bits(0, 1)
          /\ Skip(At(buf, Len(w), got), 1) = At(buf, Len(u1), got)
      BY <1>3, <1>12, <2>1
    <2>3. GetConstrainedWholeNumber(At(buf, Len(u1), got), 0, 1) = At(buf, Len(u2), g1)
      BY <1>6, <1>12, <2>1
    <2>4. Listed(g1) /\ Last(g1) = x
      BY <1>12, LastIs
    <2>5. AsENBID(At(buf, Len(w2), g2), 2, kind) = At(buf, Len(w2), Append(got, id))
      BY <1>12, AsENBIDOfTwo DEF id
    <2> HIDE DEF g1
    <2>6. DecodeFixedBitString(At(buf, Len(u2), g1), n) = At(buf, Len(w2), g2)
      BY <1>8, <1>12
    <2> HIDE DEF g2
    <2>7. GetENBID(At(buf, Len(u2), g1), kind) = At(buf, Len(w2), Append(got, id))
      BY <1>1, <2>5, <2>6 DEF GetENBID
    <2>8. GetRootENBID(At(buf, Len(u2), g1)) = GetENBID(At(buf, Len(u2), g1), IF x = 0 THEN "macro" ELSE "home")
      BY <2>4 DEF GetRootENBID, At
    <2>9. DecodeENBID(At(buf, Len(w), got)) = GetRootENBID(GetConstrainedWholeNumber(At(buf, Len(u1), got), 0, 1))
      BY <2>2, BitIs DEF DecodeENBID
    <2>10. QED
      BY <1>1, <2>3, <2>7, <2>8, <2>9
  <1>13. QED
    BY <1>2, <1>10, <1>11, <1>12 DEF w2, id

\* Those of an identity filled up to octets are few.
LEMMA PaddedBounds ==
    ASSUME NEW n \in 0..28, n > 8, NEW p \in 0..7
    PROVE  n + p \in 9..35
  OBVIOUS

\* None is no number either.
LEMMA ContentPasses ==
    ASSUME NoneIsNoList, NEW n, Long(n), NEW v, Fits(v, n)
    PROVE  LET c == Align(Bits(v, n))
           IN  /\ Contained(c) /\ Filled(c) = c /\ Len(c) <= 35
               /\ Finish(DecodeFixedBitString(Reader(c), n)) = v
  <1> DEFINE none == <<>>
             b == Bits(v, n)
             c == Align(b)
  <1>1. Listed(none) /\ Len(none) = 0 /\ Reader(c) = At(c, 0, none)
    BY NothingGot
  <1>2. Listed(b) /\ Len(b) = n /\ n \in 0..28 /\ n > 8
    <2>1. n \in 0..28 /\ v \in Nat
      BY DEF Long, Fits
    <2>2. \A k \in 0..28 : (k + 7) \div 8 > 2 => k > 8
      OBVIOUS
    <2>3. (n + 7) \div 8 > 2
      BY DEF Long
    <2>4. n > 8
      BY <2>1, <2>2, <2>3
    <2>5. QED
      BY <2>1, <2>4, BitsListed
  <1>3. Align(none) = none
    <2>1. Len(none) % 8 = 0
      BY <1>1
    <2>2. QED
      BY <1>1, <2>1, PaddingIsWritten
  <1>4. PutBits(Align(none), v, n) = b
    <2>1. none # None
      BY <1>1 DEF NoneIsNoList
    <2>2. none \o b = b
      BY <1>2 DEF Listed
    <2> HIDE DEF none, b
    <2>3. PutBits(none, v, n) = none \o b
      BY <2>1 DEF PutBits, b
    <2>4. QED
      BY <1>3, <2>2, <2>3
  <1> HIDE DEF none, b
  <1>5. \A buf, got : Listed(buf) /\ Starts(b, buf) =>
           DecodeFixedBitString(At(buf, Len(none), got), n) = At(buf, Len(b), Append(got, v))
    <2>1. Listed(none)
      BY <1>1
    <2> DEFINE w2 == PutBits(Align(none), v, n)
    <2>2. \A buf, got : Listed(buf) /\ Starts(w2, buf) =>
             DecodeFixedBitString(At(buf, Len(none), got), n) = At(buf, Len(w2), Append(got, v))
      BY <2>1, FixedBitsPass
    <2> HIDE DEF w2
    <2>3. w2 = b
      BY <1>4 DEF w2
    <2>4. QED
      BY <2>2, <2>3
  <1>6. Listed(c) /\ Len(c) % 8 = 0 /\ Starts(b, c) /\ Len(c) = Len(b) + Padding(Len(b)) /\ Padding(Len(b)) \in 0..7
    <2>1. Len(b) \in Nat
      BY <1>2
    <2>2. QED
      BY <1>2, <2>1, PaddingIsWritten, AlignGoesOn, PaddingIs DEF GoesOn
  <1> HIDE DEF c
  <1>7. Len(c) \in 9..35
    <2> DEFINE k == Len(b)
               p == Padding(Len(b))
    <2>1. k \in 0..28 /\ k > 8 /\ p \in 0..7 /\ Len(c) = k + p
      BY <1>2, <1>6
    <2> HIDE DEF k, p
    <2>2. k + p \in 9..35
      BY <2>1, PaddedBounds
    <2>3. QED
      BY <2>1, <2>2, Zenon
  <1>8. c # <<>>
    <2>1. 0 \notin 9..35 /\ Len(<<>>) = 0
      OBVIOUS
    <2>2. QED
      BY <1>7, <2>1, Zenon
  <1>9. Filled(c) = c
    BY <1>8 DEF Filled
  <1>10. Contained(c)
    <2>1. \A k \in 9..35 : k \div 8 <= 16383
      OBVIOUS
    <2> DEFINE k == Len(c)
    <2>2. k \in 9..35 /\ Len(Filled(c)) = k
      BY <1>7, <1>9
    <2> HIDE DEF k
    <2>3. k \div 8 <= 16383
      BY <2>1, <2>2
    <2>4. Listed(c) /\ Len(c) % 8 = 0
      BY <1>6
    <2>5. QED
      BY <2>2, <2>3, <2>4 DEF Contained
  <1>11. Finish(DecodeFixedBitString(Reader(c), n)) = v
    <2>1. DecodeFixedBitString(At(c, Len(none), none), n) = At(c, Len(b), Append(none, v))
      BY <1>5, <1>6
    <2>2. Reader(c) = At(c, Len(none), none)
      BY <1>1
    <2>3. Last(Append(none, v)) = v
      BY <1>1, LastIs
    <2>4. Finish(At(c, Len(b), Append(none, v))) = v
      BY <2>3 DEF Finish, At
    <2>5. QED
      BY <2>1, <2>2, <2>4
  <1>12. Len(c) <= 35
    <2> DEFINE k == Len(c)
    <2>1. \A j \in 9..35 : j <= 35
      OBVIOUS
    <2>2. k \in 9..35
      BY <1>7
    <2> HIDE DEF k
    <2>3. k <= 35
      BY <2>1, <2>2
    <2>4. QED
      BY <2>3 DEF k
  <1>13. QED
    BY <1>9, <1>10, <1>11, <1>12 DEF c, b

\* Those of an identity in an extension are few.
LEMMA ExtensionBounds ==
    ASSUME NEW k \in Nat, NEW a \in 0..7, NEW l \in {8, 16}, NEW m \in Nat, m <= 35
    PROVE  ((((k + 1) + 1) + 6) + a) + l + m <= k + 100
  OBVIOUS

\* An identity in an extension is read.
LEMMA ExtensionPasses ==
    ASSUME NoneIsNoList, None \notin Nat, NEW w, Listed(w), NEW x, NEW kind, NEW n, Extending(x, kind, n),
           NEW v, Fits(v, n)
    PROVE  LET w2 == PutOpenType(PutBits(w \o <<1, 0>>, x, 6), Align(Bits(v, n)))
           IN  /\ GoesOn(w, w2) /\ Len(w2) <= Len(w) + 100
               /\ \A buf, got : Listed(buf) /\ Listed(got) /\ Starts(w2, buf) =>
                     DecodeENBID(At(buf, Len(w), got)) = At(buf, Len(w2), Append(got, [kind |-> kind, value |-> v]))
  <1> DEFINE u1 == w \o Bits(1, 1)
             u2 == u1 \o Bits(0, 1)
             u3 == u2 \o Bits(x, 6)
             c == Align(Bits(v, n))
             w2 == PutOpenType(u3, c)
             id == [kind |-> kind, value |-> v]
  <1>1. /\ x \in 0..1 /\ EnbKinds[kind] = n /\ Long(n)
        /\ kind = IF x = 0 THEN "shortMacro" ELSE "longMacro"
    BY KindsAreLong
  <1>2. w \o <<1, 0>> = u2
    <2>1. Bits(1, 1) = <<1>> /\ Bits(0, 1) = <<0>>
      BY BitIs
    <2>2. <<1>> \o <<0>> = <<1, 0>> /\ Listed(<<1>>) /\ Listed(<<0>>)
      BY TwoBits
    <2>3. (w \o <<1>>) \o <<0>> = w \o (<<1>> \o <<0>>)
      BY <2>2, JoinedTwice
    <2>4. QED
      BY <2>1, <2>2, <2>3
  <1>3. Contained(c) /\ Filled(c) = c /\ Len(c) <= 35 /\ Finish(DecodeFixedBitString(Reader(c), n)) = v
    BY <1>1, ContentPasses
  <1> HIDE DEF c
  <1>4. /\ GoesOn(w, u1) /\ Len(u1) = Len(w) + 1
        /\ \A buf, got : Listed(buf) /\ Starts(u1, buf) =>
              /\ Has(At(buf, Len(w), got), 1) /\ Ahead(At(buf, Len(w), got), 1) = Bits(1, 1)
              /\ Skip(At(buf, Len(w), got), 1) = At(buf, Len(u1), got)
    <2>1. 1 \in 0..1
      OBVIOUS
    <2>2. QED
      BY <2>1, BitAhead
  <1>5. Listed(u1)
    BY <1>4 DEF GoesOn
  <1> HIDE DEF u1
  <1>6. /\ GoesOn(u1, u2) /\ Len(u2) = Len(u1) + 1
        /\ \A buf, got : Listed(buf) /\ Starts(u2, buf) =>
              /\ Has(At(buf, Len(u1), got), 1) /\ Ahead(At(buf, Len(u1), got), 1) = Bits(0, 1)
              /\ Skip(At(buf, Len(u1), got), 1) = At(buf, Len(u2), got)
    <2>1. 0 \in 0..1
      OBVIOUS
    <2>2. QED
      BY <1>5, <2>1, BitAhead
  <1>7. Listed(u2) /\ u2 # None
    BY <1>6 DEF GoesOn, NoneIsNoList
  <1> HIDE DEF u2
  <1>8. /\ GoesOn(u2, u3) /\ Len(u3) = Len(u2) + 6
        /\ \A buf, got : Listed(buf) /\ Starts(u3, buf) =>
              GetBits(At(buf, Len(u2), got), 6) = At(buf, Len(u3), Append(got, x))
    <2>1. Fits(x, 6)
      BY <1>1 DEF Fits
    <2>2. QED
      BY <1>7, <2>1, BitsPass
  <1>9. PutBits(w \o <<1, 0>>, x, 6) = u3
    BY <1>2, <1>7 DEF PutBits
  <1>10. Listed(u3)
    BY <1>8 DEF GoesOn
  <1> HIDE DEF u3
  <1>11. /\ GoesOn(u3, w2)
         /\ Len(w2) = Len(Align(u3)) + Len(Length(OctetCount(c))) + 8 * OctetCount(c)
         /\ \A buf, got : Listed(buf) /\ Listed(got) /\ Starts(w2, buf) =>
               GetOpenType(At(buf, Len(u3), got)) = At(buf, Len(w2), Append(got, Filled(c)))
    BY <1>3, <1>10, OpenTypePasses
  <1> HIDE DEF w2
  <1>12. Listed(w2) /\ Len(w2) \in Nat
    BY <1>11, ListLength DEF GoesOn
  <1>13. GoesOn(w, w2) /\ \A buf : Listed(buf) /\ Starts(w2, buf) => Starts(u3, buf) /\ Starts(u2, buf) /\ Starts(u1, buf)
    <2>1. GoesOn(u2, w2) /\ \A buf : Listed(buf) /\ Starts(w2, buf) => Starts(u3, buf) /\ Starts(u2, buf)
      BY <1>7, <1>8, <1>11, GoesOnThrough
    <2>2. GoesOn(u1, w2) /\ \A buf : Listed(buf) /\ Starts(w2, buf) => Starts(u1, buf)
      BY <1>5, <1>6, <2>1, GoesOnThrough
    <2>3. GoesOn(w, w2)
      BY <1>4, <2>2, GoesOnThrough
    <2>4. QED
      BY <2>1, <2>2, <2>3
  <1>14. Len(w2) <= Len(w) + 100
    <2> DEFINE k == Len(w)
               a == Padding(Len(u3))
               l == Len(Length(OctetCount(c)))
               m == Len(c)
    <2>1. Len(u3) = ((k + 1) + 1) + 6
      BY <1>4, <1>6, <1>8
    <2>2. k \in Nat /\ Len(u3) \in Nat
      BY <1>10, ListLength
    <2>3. Len(Align(u3)) = Len(u3) + a /\ a \in 0..7
      BY <1>10, <2>2, PaddingIsWritten, PaddingIs
    <2>4. OctetCount(c) \in Nat /\ OctetCount(c) <= 16383 /\ m = 8 * OctetCount(c) /\ m \in Nat
      BY <1>3, FilledIs
    <2>5. l \in {8, 16}
      BY <2>4, LengthIs
    <2>6. m <= 35
      BY <1>3
    <2>7. Len(w2) = ((((k + 1) + 1) + 6) + a) + l + m
      BY <1>11, <2>1, <2>3, <2>4
    <2> HIDE DEF k, a, l, m
    <2>8. Len(w2) <= k + 100
      BY <2>2, <2>3, <2>4, <2>5, <2>6, <2>7, ExtensionBounds, SMTT(30)
    <2>9. QED
      BY <2>8 DEF k
  <1> HIDE DEF id
  <1>15. ASSUME NEW buf, NEW got, Listed(buf), Listed(got), Starts(w2, buf)
         PROVE  DecodeENBID(At(buf, Len(w), got)) = At(buf, Len(w2), Append(got, id))
    <2> DEFINE g1 == Append(got, x)
               g2 == Append(g1, c)
               g3 == Append(g2, v)
    <2>1. Starts(u1, buf) /\ Starts(u2, buf) /\ Starts(u3, buf)
      BY <1>13, <1>15
    <2>2. /\ Has(At(buf, Len(w), got), 1) /\ Ahead(At(buf, Len(w), got), 1) = Bits(1, 1)
          /\ Skip(At(buf, Len(w), got), 1) = At(buf, Len(u1), got)
      BY <1>4, <1>15, <2>1
    <2>3. /\ Has(At(buf, Len(u1), got), 1) /\ Ahead(At(buf, Len(u1), got), 1) = Bits(0, 1)
          /\ Skip(At(buf, Len(u1), got), 1) = At(buf, Len(u2), got)
      BY <1>6, <1>15, <2>1
    <2>4. GetBits(At(buf, Len(u2), got), 6) = At(buf, Len(u3), g1)
      BY <1>8, <1>15, <2>1
    <2>5. Listed(g1) /\ Len(g1) \in Nat /\ Len(g1) >= 1 /\ g1[Len(g1)] = x
      <3>1. Listed(g1) /\ Len(g1) = Len(got) + 1 /\ g1[Len(g1)] = x /\ Len(got) \in Nat
        BY <1>15, LastIs
      <3> HIDE DEF g1
      <3>2. QED
        BY <3>1
    <2>6. AsENBID(At(buf, Len(w2), g3), 3, kind) = At(buf, Len(w2), Append(got, id))
      BY <1>15, AsENBIDOfThree DEF id
    <2> HIDE DEF g1
    <2>7. GetOpenType(At(buf, Len(u3), g1)) = At(buf, Len(w2), g2)
      BY <1>3, <1>11, <1>15, <2>5
    <2>8. Last(g2) = c /\ g2[Len(g2) - 1] = x
      <3>1. Last(g2) = c /\ Len(g2) = Len(g1) + 1 /\ \A i \in 1..Len(g1) : g2[i] = g1[i]
        BY <2>5, LastIs
      <3> HIDE DEF g2
      <3>2. Len(g2) - 1 = Len(g1) /\ Len(g1) \in 1..Len(g1)
        BY <2>5, <3>1
      <3>3. g2[Len(g1)] = g1[Len(g1)]
        BY <3>1, <3>2
      <3>4. QED
        BY <2>5, <3>1, <3>2, <3>3, Zenon
    <2> HIDE DEF g2
    <2>9. GetNormallySmall(At(buf, Len(u1), got)) = At(buf, Len(u3), g1)
      BY <2>3, <2>4, BitIs DEF GetNormallySmall
    <2>10. Take(At(buf, Len(w2), g2), 0, v) = At(buf, Len(w2), g3)
      <3> DEFINE k == Len(w2)
      <3>1. k + 0 = k
        BY <1>12
      <3> HIDE DEF k
      <3>2. Take(At(buf, k, g2), 0, v) = At(buf, k, g3)
        <4>1. At(buf, k, g2).at = k /\ At(buf, k, g2).got = g2
          BY DEF At
        <4>2. Take(At(buf, k, g2), 0, v) = [[At(buf, k, g2) EXCEPT !.at = k] EXCEPT !.got = g3]
          BY <3>1, <4>1 DEF Take
        <4>3. QED
          BY <4>2 DEF At
      <3>3. QED
        BY <3>2 DEF k
    <2>11. v # None
      BY DEF Fits
    <2>12. GetExtensionENBID(At(buf, Len(w2), g2), kind) = At(buf, Len(w2), Append(got, id))
      <3>1. At(buf, Len(w2), g2).got = g2
        BY DEF At
      <3>2. Finish(DecodeFixedBitString(Reader(Last(At(buf, Len(w2), g2).got)), EnbKinds[kind])) = v
        BY <1>1, <1>3, <2>8, <3>1
      <3> HIDE DEF g3
      <3>3. QED
        BY <2>6, <2>10, <2>11, <3>2 DEF GetExtensionENBID
    <2>13. GetExtension(At(buf, Len(w2), g2)) = GetExtensionENBID(At(buf, Len(w2), g2), kind)
      <3>1. At(buf, Len(w2), g2).got = g2 /\ At(buf, Len(w2), g2).ok = TRUE
        BY DEF At
      <3>2. x \in {0, 1}
        BY <1>1
      <3>3. kind = IF x = 0 THEN "shortMacro" ELSE "longMacro"
        BY <1>1
      <3> DEFINE r == At(buf, Len(w2), g2)
      <3>4. r.ok /\ r.got[Len(r.got) - 1] = x
        BY <2>8, <3>1
      <3> HIDE DEF r
      <3>5. GetExtension(r) = GetExtensionENBID(r, IF x = 0 THEN "shortMacro" ELSE "longMacro")
        BY <3>2, <3>4 DEF GetExtension
      <3>6. QED
        BY <3>3, <3>5, Zenon DEF r
    <2>14. DecodeENBID(At(buf, Len(w), got)) = GetExtension(GetOpenType(GetNormallySmall(At(buf, Len(u1), got))))
      BY <2>2, BitIs DEF DecodeENBID
    <2>15. QED
      BY <2>7, <2>9, <2>12, <2>13, <2>14
  <1>16. QED
    BY <1>9, <1>13, <1>14, <1>15 DEF w2, c, id

\* What a Global-ENB-ID begins with.
HeadOf(plmn) == PutOctets(Align(Bits(0, 2)), plmn)

\* The PLMN at the beginning of a Global-ENB-ID is read.
LEMMA HeadPasses ==
    ASSUME NoneIsNoList, NEW plmn, IsPlmn(plmn)
    PROVE  /\ Listed(HeadOf(plmn)) /\ Len(HeadOf(plmn)) = 32
           /\ \A buf : Listed(buf) /\ Starts(HeadOf(plmn), buf) =>
                 ReadOctets(AlignReader(GetZero(GetZero(Reader(buf)))), 3) =
                   At(buf, Len(HeadOf(plmn)), Append(<<>>, plmn))
  <1> DEFINE none == <<>>
             u1 == Bits(0, 2)
             u2 == Align(u1)
             u3 == u2 \o plmn
  <1>1. Listed(u1) /\ Len(u1) = 2
    BY ZeroBits
  <1>2. \A buf, got : Listed(buf) /\ Starts(u1, buf) => GetZero(GetZero(At(buf, 0, got))) = At(buf, 0 + 2, got)
    BY <1>1, StartsAtZero, TwoZerosAreRead
  <1>3. Listed(plmn) /\ Len(plmn) = 24 /\ OfOctets(plmn, 3) /\ plmn # None
    BY PlmnIs DEF NoneIsNoList
  <1>4. \A buf : Reader(buf) = At(buf, 0, none)
    BY NothingGot
  <1> HIDE DEF none, u1
  <1>5. /\ GoesOn(u1, u2)
        /\ \A buf : Listed(buf) /\ Starts(u2, buf) => Starts(u1, buf)
        /\ \A buf, got : Listed(buf) /\ Starts(u2, buf) => AlignReader(At(buf, Len(u1), got)) = At(buf, Len(u2), got)
    BY <1>1, AlignGoesOn
  <1>6. Listed(u2) /\ Aligned(Len(u2)) /\ u2 # None
    BY <1>1, AlignedThen
  <1>7. Len(u2) = 8
    <2>1. Len(u2) = Len(u1) + Padding(Len(u1))
      BY <1>1, PaddingIsWritten
    <2>2. Padding(2) = 6
      BY DEF Padding
    <2>3. QED
      BY <1>1, <2>1, <2>2
  <1> HIDE DEF u2
  <1>8. /\ GoesOn(u2, u3) /\ Len(u3) = Len(u2) + Len(plmn)
        /\ \A buf, got : Listed(buf) /\ Starts(u3, buf) =>
              ReadOctets(At(buf, Len(u2), got), 3) = At(buf, Len(u3), Append(got, plmn))
    <2>1. OfOctets(plmn, 3)
      BY PlmnIs
    <2>2. Listed(u2) /\ Aligned(Len(u2))
      BY <1>6
    <2>3. QED
      BY <2>1, <2>2, OctetsPass
  <1>9. PutOctets(u2, plmn) = u3
    BY <1>3, <1>6 DEF PutOctets
  <1> HIDE DEF u3
  <1>10. HeadOf(plmn) = u3
    BY <1>9 DEF HeadOf, u2, u1
  <1>11. Listed(u3) /\ Len(u3) = 32
    <2>1. Len(u3) = Len(u2) + Len(plmn) /\ Listed(u3)
      BY <1>8 DEF GoesOn
    <2> DEFINE a == Len(u2)
               b == Len(plmn)
    <2>2. a = 8 /\ b = 24
      BY <1>3, <1>7
    <2> HIDE DEF a, b
    <2>3. a + b = 32
      BY <2>2
    <2>4. QED
      BY <2>1, <2>3 DEF a, b
  <1>12. ASSUME NEW buf, Listed(buf), Starts(u3, buf)
         PROVE  ReadOctets(AlignReader(GetZero(GetZero(Reader(buf)))), 3) = At(buf, Len(u3), Append(none, plmn))
    <2>1. Starts(u2, buf)
      BY <1>6, <1>8, <1>12, GoesOnThrough DEF GoesOn
    <2>2. Starts(u1, buf)
      BY <1>5, <1>12, <2>1
    <2>3. GetZero(GetZero(Reader(buf))) = At(buf, Len(u1), none)
      <3>1. 0 + 2 = Len(u1)
        BY <1>1
      <3>2. QED
        BY <1>2, <1>4, <1>12, <2>2, <3>1
    <2>4. AlignReader(At(buf, Len(u1), none)) = At(buf, Len(u2), none)
      BY <1>5, <1>12, <2>1
    <2>5. ReadOctets(At(buf, Len(u2), none), 3) = At(buf, Len(u3), Append(none, plmn))
      BY <1>8, <1>12
    <2>6. QED
      BY <2>3, <2>4, <2>5
  <1>13. QED
    BY <1>10, <1>11, <1>12 DEF none

\* An identity behind the head.
LEMMA IdentityBehind ==
    ASSUME NoneIsNoList, NEW plmn, IsPlmn(plmn), NEW kind, NEW v, NEW w2,
           GoesOn(HeadOf(plmn), w2), Len(w2) <= Len(HeadOf(plmn)) + 100,
           \A buf, got : Listed(buf) /\ Listed(got) /\ Starts(w2, buf) =>
              DecodeENBID(At(buf, Len(HeadOf(plmn)), got)) = At(buf, Len(w2), Append(got, [kind |-> kind, value |-> v]))
    PROVE  LET c == Align(w2)
           IN  /\ Whole(c) /\ Filled(c) = c /\ Len(c) <= 200
               /\ DecodeGlobalENBID(c) = [plmn |-> plmn, kind |-> kind, value |-> v]
  <1> DEFINE h == HeadOf(plmn)
             none == <<>>
             c == Align(w2)
             id == [kind |-> kind, value |-> v]
             whole == [plmn |-> plmn, kind |-> kind, value |-> v]
  <1>1. Listed(h) /\ Len(h) = 32
    BY HeadPasses
  <1>2. \A buf : Listed(buf) /\ Starts(h, buf) =>
           ReadOctets(AlignReader(GetZero(GetZero(Reader(buf)))), 3) = At(buf, Len(h), Append(none, plmn))
    BY HeadPasses
  <1>3. Listed(none) /\ Listed(Append(none, plmn))
    BY NothingGot, LastIs
  <1>4. \A buf : AsGlobalENBID(At(buf, Len(w2), Append(Append(none, plmn), id))) = At(buf, Len(w2), Append(none, whole))
    <2>1. Listed(none)
      BY <1>3
    <2> HIDE DEF none
    <2> DEFINE k == Len(w2)
    <2> HIDE DEF k
    <2>2. \A buf : AsGlobalENBID(At(buf, k, Append(Append(none, plmn), id))) = At(buf, k, Append(none, whole))
      BY <2>1, AsGlobalENBIDIs
    <2>3. QED
      BY <2>2 DEF k
  <1>5. Last(Append(none, whole)) = whole
    BY <1>3, LastIs, ZenonT(60)
  <1> HIDE DEF h, none, id, whole
  <1>6. Listed(w2) /\ GoesOn(h, w2) /\ Len(w2) <= Len(h) + 100
    BY DEF GoesOn, h
  <1>7. \A buf, got : Listed(buf) /\ Listed(got) /\ Starts(w2, buf) =>
           DecodeENBID(At(buf, Len(h), got)) = At(buf, Len(w2), Append(got, id))
    BY DEF h, id
  <1>8. GoesOn(w2, c) /\ Whole(c)
    <2>1. GoesOn(w2, c) /\ Listed(c)
      BY <1>6, AlignGoesOn DEF GoesOn
    <2>2. Len(c) % 8 = 0
      BY <1>6, PaddingIsWritten
    <2>3. QED
      BY <2>1, <2>2 DEF Whole
  <1>9. Len(c) <= 200
    <2>1. Len(w2) \in Nat /\ Len(c) = Len(w2) + Padding(Len(w2))
      BY <1>6, ListLength, PaddingIsWritten
    <2> DEFINE k == Len(w2)
               p == Padding(Len(w2))
    <2>2. k \in Nat /\ p \in 0..7 /\ Len(c) = k + p
      BY <2>1, PaddingIs
    <2>3. k <= 132
      BY <1>1, <1>6
    <2> HIDE DEF k, p
    <2>4. k + p <= 200
      BY <2>2, <2>3
    <2>5. QED
      BY <2>2, <2>4
  <1> HIDE DEF c
  <1>10. Listed(c) /\ Starts(w2, c)
    BY <1>8 DEF GoesOn
  <1>11. Starts(h, c)
    BY <1>1, <1>6, <1>8, <1>10, GoesOnThrough DEF GoesOn
  <1>12. DecodeENBID(At(c, Len(h), Append(none, plmn))) = At(c, Len(w2), Append(Append(none, plmn), id))
    BY <1>3, <1>7, <1>10
  <1>13. AsGlobalENBID(DecodeENBID(ReadOctets(AlignReader(GetZero(GetZero(Reader(c)))), 3))) =
            At(c, Len(w2), Append(none, whole))
    BY <1>2, <1>4, <1>10, <1>11, <1>12
  <1>14. Finish(At(c, Len(w2), Append(none, whole))) = whole
    BY <1>5 DEF Finish, At
  <1>15. DecodeGlobalENBID(c) = whole
    BY <1>13, <1>14 DEF DecodeGlobalENBID
  <1>16. Filled(c) = c
    <2>1. Len(h) <= Len(c)
      BY <1>11 DEF Starts
    <2> DEFINE k == Len(c)
    <2>2. 32 <= k
      BY <1>1, <2>1
    <2>3. Len(<<>>) = 0
      BY NothingGot
    <2>4. c # <<>>
      BY <2>2, <2>3
    <2>5. QED
      BY <2>4 DEF Filled
  <1>17. QED
    BY <1>8, <1>9, <1>15, <1>16 DEF c, whole

\* An identity that fits.
FittingEnb(e) ==
    /\ IsPlmn(e.plmn)
    /\ e.kind \in {"macro", "home", "shortMacro", "longMacro"} /\ Fits(e.value, EnbKinds[e.kind])

\* An identity of any kind that is written is read.
LEMMA GlobalENBIDPasses ==
    ASSUME NoneIsNoList, None \notin Nat, NEW e, FittingEnb(e)
    PROVE  LET c == EncodeGlobalENBID(e)
           IN  /\ Whole(c) /\ Filled(c) = c /\ Len(c) <= 200 /\ DecodeGlobalENBID(c) = EnbOf(e)
  <1> DEFINE h == HeadOf(e.plmn)
             v == e.value
             n == EnbKinds[e.kind]
             kind == e.kind
  <1>1. Listed(h) /\ IsPlmn(e.plmn) /\ Fits(v, n)
    BY HeadPasses DEF FittingEnb
  <1>2. /\ kind = "macro" => EncodeGlobalENBID(e) = Align(PutBits(Align(h \o <<0, 0>>), v, n))
        /\ kind = "home" => EncodeGlobalENBID(e) = Align(PutBits(Align(h \o <<0, 1>>), v, n))
        /\ kind \notin {"macro", "home"} =>
             EncodeGlobalENBID(e) =
               Align(PutOpenType(PutBits(h \o <<1, 0>>, ExtensionIndex(kind), 6), Align(Bits(v, n))))
    BY DEF EncodeGlobalENBID, HeadOf
  <1>3. EnbOf(e) = [plmn |-> e.plmn, kind |-> kind, value |-> v]
    BY DEF EnbOf
  <1>4. ASSUME NEW x, Rooted(x, kind, n),
               EncodeGlobalENBID(e) = Align(PutBits(Align(h \o <<0, x>>), v, n))
        PROVE  LET c == EncodeGlobalENBID(e)
               IN  /\ Whole(c) /\ Filled(c) = c /\ Len(c) <= 200 /\ DecodeGlobalENBID(c) = EnbOf(e)
    <2> DEFINE w2 == PutBits(Align(h \o <<0, x>>), v, n)
    <2> HIDE DEF h, v, n, kind
    <2>1. /\ GoesOn(h, w2) /\ Len(w2) <= Len(h) + 100
          /\ \A buf, got : Listed(buf) /\ Listed(got) /\ Starts(w2, buf) =>
                DecodeENBID(At(buf, Len(h), got)) = At(buf, Len(w2), Append(got, [kind |-> kind, value |-> v]))
      BY <1>1, <1>4, RootPasses
    <2>2. EncodeGlobalENBID(e) = Align(w2)
      BY <1>4
    <2> HIDE DEF w2
    <2>3. /\ Whole(Align(w2)) /\ Filled(Align(w2)) = Align(w2) /\ Len(Align(w2)) <= 200
          /\ DecodeGlobalENBID(Align(w2)) = [plmn |-> e.plmn, kind |-> kind, value |-> v]
      BY <1>1, <2>1, IdentityBehind DEF h
    <2>4. QED
      BY <1>3, <2>2, <2>3
  <1>5. ASSUME NEW x, Extending(x, kind, n),
               EncodeGlobalENBID(e) = Align(PutOpenType(PutBits(h \o <<1, 0>>, x, 6), Align(Bits(v, n))))
        PROVE  LET c == EncodeGlobalENBID(e)
               IN  /\ Whole(c) /\ Filled(c) = c /\ Len(c) <= 200 /\ DecodeGlobalENBID(c) = EnbOf(e)
    <2> DEFINE w2 == PutOpenType(PutBits(h \o <<1, 0>>, x, 6), Align(Bits(v, n)))
    <2> HIDE DEF h, v, n, kind
    <2>1. /\ GoesOn(h, w2) /\ Len(w2) <= Len(h) + 100
          /\ \A buf, got : Listed(buf) /\ Listed(got) /\ Starts(w2, buf) =>
                DecodeENBID(At(buf, Len(h), got)) = At(buf, Len(w2), Append(got, [kind |-> kind, value |-> v]))
      BY <1>1, <1>5, ExtensionPasses
    <2>2. EncodeGlobalENBID(e) = Align(w2)
      BY <1>5
    <2> HIDE DEF w2
    <2>3. /\ Whole(Align(w2)) /\ Filled(Align(w2)) = Align(w2) /\ Len(Align(w2)) <= 200
          /\ DecodeGlobalENBID(Align(w2)) = [plmn |-> e.plmn, kind |-> kind, value |-> v]
      BY <1>1, <2>1, IdentityBehind DEF h
    <2>4. QED
      BY <1>3, <2>2, <2>3
  <1>6. \/ kind = "macro" /\ Rooted(0, kind, n)
        \/ kind = "home" /\ Rooted(1, kind, n)
        \/ kind = "shortMacro" /\ Extending(0, kind, n) /\ ExtensionIndex(kind) = 0
        \/ kind = "longMacro" /\ Extending(1, kind, n) /\ ExtensionIndex(kind) = 1
    BY DEF FittingEnb, Rooted, Extending, EnbKinds, ExtensionIndex
  <1> HIDE DEF h, v, n, kind
  <1>7. CASE kind = "macro" /\ Rooted(0, kind, n)
    BY <1>2, <1>4, <1>7
  <1>8. CASE kind = "home" /\ Rooted(1, kind, n)
    BY <1>2, <1>4, <1>8
  <1>9. CASE kind = "shortMacro" /\ Extending(0, kind, n) /\ ExtensionIndex(kind) = 0
    BY <1>2, <1>5, <1>9
  <1>10. CASE kind = "longMacro" /\ Extending(1, kind, n) /\ ExtensionIndex(kind) = 1
    BY <1>2, <1>5, <1>10
  <1>11. QED
    BY <1>6, <1>7, <1>8, <1>9, <1>10

\* None is a value of its own: no list, no record.
NoneIsNoFunction == \A f : f = [x \in DOMAIN f |-> f[x]] => f # None

\* None is no list, as lists are functions.
LEMMA ListsAreFunctions ==
    ASSUME NoneIsNoFunction
    PROVE  NoneIsNoList
  <1> SUFFICES ASSUME NEW s, Listed(s) PROVE s # None
    BY DEF NoneIsNoList
  <1>1. s = [x \in DOMAIN s |-> s[x]]
    BY DEF Listed
  <1>2. QED
    BY <1>1 DEF NoneIsNoFunction

\* None is no record, as records are functions.
LEMMA RecordsAreFunctions ==
    ASSUME NoneIsNoFunction, NEW a, NEW b, NEW c
    PROVE  /\ [choice |-> a, procedure |-> b, ies |-> c] # None
           /\ [outcome |-> a, procedure |-> b] # None
           /\ [plmn |-> a, kind |-> b, value |-> c] # None
           /\ [enb |-> a, cells |-> b] # None
           /\ [enb |-> a, cells |-> b, tais |-> c] # None
           /\ <<a, b>> # None
  <1> DEFINE r1 == [choice |-> a, procedure |-> b, ies |-> c]
             r2 == [outcome |-> a, procedure |-> b]
             r3 == [plmn |-> a, kind |-> b, value |-> c]
             r4 == [enb |-> a, cells |-> b]
             r5 == [enb |-> a, cells |-> b, tais |-> c]
             r6 == <<a, b>>
  <1>1. r1 = [x \in DOMAIN r1 |-> r1[x]]
    OBVIOUS
  <1>2. r2 = [x \in DOMAIN r2 |-> r2[x]]
    OBVIOUS
  <1>3. r3 = [x \in DOMAIN r3 |-> r3[x]]
    OBVIOUS
  <1>4. r4 = [x \in DOMAIN r4 |-> r4[x]]
    OBVIOUS
  <1>5. r5 = [x \in DOMAIN r5 |-> r5[x]]
    OBVIOUS
  <1>6. r6 = [x \in DOMAIN r6 |-> r6[x]]
    OBVIOUS
  <1> HIDE DEF r1, r2, r3, r4, r5, r6
  <1>7. r1 # None /\ r2 # None /\ r3 # None /\ r4 # None /\ r5 # None /\ r6 # None
    BY <1>1, <1>2, <1>3, <1>4, <1>5, <1>6 DEF NoneIsNoFunction
  <1>8. QED
    BY <1>7 DEF r1, r2, r3, r4, r5, r6

-----------------------------------------------------------------------------
(* PDUs that are sent *)

\* A PDU of these parts.
Sent(pdu, choice, procedure, ies) ==
    \E criticality : /\ Heading(choice, procedure, criticality) /\ Elements(ies)
                     /\ pdu = EncodePDU(choice, procedure, criticality, ies) /\ pdu # None

\* It is taken apart.
LEMMA SentIsRead ==
    ASSUME NoneIsNoFunction, NEW pdu, NEW choice, NEW procedure, NEW ies, Sent(pdu, choice, procedure, ies)
    PROVE  /\ DecodePDU(pdu) = [choice |-> choice, procedure |-> procedure, ies |-> AllReceived(ies)]
           /\ DecodePDU(pdu) # None
           /\ Header(pdu) = [outcome |-> choice + 1, procedure |-> procedure]
           /\ Header(pdu) # None
           /\ Listed(pdu)
  <1>1. PICK criticality : /\ Heading(choice, procedure, criticality) /\ Elements(ies)
                           /\ pdu = EncodePDU(choice, procedure, criticality, ies) /\ pdu # None
    BY DEF Sent
  <1>2. NoneIsNoList
    BY ListsAreFunctions
  <1> DEFINE d == [choice |-> choice, procedure |-> procedure, ies |-> AllReceived(ies)]
  <1>3. DecodePDU(pdu) = d /\ Whole(pdu)
    BY <1>1, <1>2, PduPasses
  <1>4. d # None
    BY RecordsAreFunctions
  <1>5. d.choice = choice /\ d.procedure = procedure
    OBVIOUS
  <1> HIDE DEF d
  <1>6. Header(pdu) = [outcome |-> choice + 1, procedure |-> procedure]
    BY <1>3, <1>4, <1>5 DEF Header, HeaderOf
  <1>7. [outcome |-> choice + 1, procedure |-> procedure] # None
    BY RecordsAreFunctions
  <1>8. QED
    BY <1>3, <1>4, <1>6, <1>7 DEF d, Whole

\* None of its proper parts has a header.
LEMMA SentCutShort ==
    ASSUME NoneIsNoFunction, NEW pdu, NEW choice, NEW procedure, NEW ies, Sent(pdu, choice, procedure, ies),
           NEW n \in 0..(Len(pdu) \div 8) - 1
    PROVE  Header(SubSeq(pdu, 1, 8 * n)) = None
  <1>1. PICK criticality : /\ Heading(choice, procedure, criticality) /\ Elements(ies)
                           /\ pdu = EncodePDU(choice, procedure, criticality, ies) /\ pdu # None
    BY DEF Sent
  <1>2. NoneIsNoList
    BY ListsAreFunctions
  <1>3. QED
    BY <1>1, <1>2, CutPduHasNoHeader

-----------------------------------------------------------------------------
(* Message identifier and serial number *)

OfMessage(m) == IE(MessageIdentifier, Reject, Encode16(m))
OfSerial(s) == IE(SerialNumber, Reject, Encode16(s))

\* An element has the parts it was made of.
LEMMA IEIs ==
    ASSUME NEW id, NEW criticality, NEW value
    PROVE  LET ie == IE(id, criticality, value)
           IN  ie.id = id /\ ie.criticality = criticality /\ ie.value = value
  BY DEF IE

\* The elements of a message identifier and of a serial number fit and are read back.
LEMMA IdentifierFits ==
    ASSUME NoneIsNoList, NEW m, Fits(m, 16)
    PROVE  /\ Fitting(OfMessage(m)) /\ Fitting(OfSerial(m))
           /\ OfMessage(m).id = MessageIdentifier /\ OfSerial(m).id = SerialNumber
           /\ Filled(OfMessage(m).value) = Encode16(m) /\ Filled(OfSerial(m).value) = Encode16(m)
           /\ Decode16(Encode16(m)) = m
  <1> DEFINE v == Encode16(m)
  <1>1. Whole(v) /\ Len(v) = 16 /\ Filled(v) = v /\ Decode16(v) = m
    BY IdentifierPasses
  <1> HIDE DEF v
  <1>2. Len(Filled(v)) <= 17500 /\ v # None
    <2>1. v # None
      BY <1>1 DEF Whole, NoneIsNoList
    <2>2. Len(Filled(v)) = 16
      BY <1>1
    <2> DEFINE k == Len(Filled(v))
    <2>3. k = 16
      BY <2>2
    <2> HIDE DEF k
    <2>4. k <= 17500
      BY <2>3
    <2>5. QED
      BY <2>1, <2>4 DEF k
  <1>3. /\ OfMessage(m).id = 5 /\ OfMessage(m).criticality = 0 /\ OfMessage(m).value = v
        /\ OfSerial(m).id = 11 /\ OfSerial(m).criticality = 0 /\ OfSerial(m).value = v
    BY IEIs DEF OfMessage, OfSerial, MessageIdentifier, SerialNumber, Reject, v
  <1>4. InRange(0, 65535, 5) /\ InRange(0, 65535, 11) /\ 0 \in 0..2
    BY DEF InRange
  <1>5. Fitting(OfMessage(m)) /\ Fitting(OfSerial(m))
    BY <1>1, <1>2, <1>3, <1>4 DEF Fitting, Element
  <1>6. QED
    BY <1>1, <1>3, <1>5 DEF v, MessageIdentifier, SerialNumber

\* They are found at the head of a PDU.
LEMMA CorrelationFound ==
    ASSUME NoneIsNoFunction, None \notin Nat, NEW m, Fits(m, 16), NEW s, Fits(s, 16),
           NEW ies, Pieces(ies), Len(ies) >= 2, ies[1] = OfMessage(m), ies[2] = OfSerial(s),
           NEW choice, NEW procedure
    PROVE  CorrelationOf([choice |-> choice, procedure |-> procedure, ies |-> AllReceived(ies)], choice) = <<m, s>>
  <1> DEFINE d == [choice |-> choice, procedure |-> procedure, ies |-> AllReceived(ies)]
  <1>1. NoneIsNoList
    BY ListsAreFunctions
  <1>2. d # None
    BY RecordsAreFunctions
  <1>3. d.choice = choice /\ d.ies = AllReceived(ies)
    OBVIOUS
  <1> HIDE DEF d
  <1>4. 1 \in 1..Len(ies) /\ 2 \in 1..Len(ies)
    <2>1. Len(ies) \in Nat
      BY ListLength DEF Pieces
    <2>2. QED
      BY <2>1
  <1>5. FindIE(AllReceived(ies), MessageIdentifier) = Encode16(m)
    <2>1. ies[1].id = MessageIdentifier /\ Filled(ies[1].value) = Encode16(m)
      BY <1>1, IdentifierFits
    <2>2. \A j \in 1..Len(ies) : j < 1 => ies[j].id # MessageIdentifier
      BY <1>4
    <2>3. QED
      BY <1>4, <2>1, <2>2, FoundFirst
  <1>6. FindIE(AllReceived(ies), SerialNumber) = Encode16(s)
    <2>1. ies[2].id = SerialNumber /\ Filled(ies[2].value) = Encode16(s)
      BY <1>1, IdentifierFits
    <2>2. ies[1].id = MessageIdentifier
      BY <1>1, IdentifierFits
    <2>3. \A j \in 1..Len(ies) : j < 2 => ies[j].id # SerialNumber
      <3>1. \A j \in 1..Len(ies) : j < 2 => j = 1
        BY <1>4
      <3>2. MessageIdentifier # SerialNumber
        BY DEF MessageIdentifier, SerialNumber
      <3>3. QED
        BY <2>2, <3>1, <3>2
    <2>4. QED
      BY <1>4, <2>1, <2>3, FoundFirst
  <1>7. ValueOf(d, MessageIdentifier) = Encode16(m) /\ ValueOf(d, SerialNumber) = Encode16(s)
    BY <1>2, <1>3, <1>5, <1>6 DEF ValueOf
  <1>8. Decode16(Encode16(m)) = m /\ Decode16(Encode16(s)) = s
    BY <1>1, IdentifierFits
  <1>9. m # None /\ s # None
    BY DEF Fits
  <1>10. CorrelationOf(d, choice) = <<m, s>>
    BY <1>2, <1>3, <1>7, <1>8, <1>9 DEF CorrelationOf
  <1>11. QED
    BY <1>10 DEF d

\* Each end takes a PDU for what the other meant, and nothing that is cut
\* short for anything.
Told(x) ==
    /\ Dispatch(x.pdu) = Read(x.kind, x.procedure, x.what)
    /\ \E choice, procedure, ies : Sent(x.pdu, choice, procedure, ies)

\* An answer has the parts it was made of.
LEMMA AnswerIs ==
    ASSUME NEW pdu, NEW kind, NEW procedure, NEW what
    PROVE  LET x == Answer(pdu, kind, procedure, what)
           IN  x.pdu = pdu /\ x.kind = kind /\ x.procedure = procedure /\ x.what = what
  BY DEF Answer

\* The headers that either side sends.
LEMMA Headings ==
    /\ Heading(Successful, WriteReplaceProcedure, Reject) /\ Heading(Successful, StopProcedure, Reject)
    /\ Heading(Unsuccessful, WriteReplaceProcedure, Reject) /\ Heading(Unsuccessful, StopProcedure, Reject)
    /\ Heading(Initiating, WriteReplaceProcedure, Reject) /\ Heading(Initiating, StopProcedure, Reject)
    /\ Heading(Initiating, ErrorProcedure, Ignore) /\ Heading(Initiating, ScheduledProcedure, Ignore)
    /\ Heading(Initiating, RestartProcedure, Ignore) /\ Heading(Initiating, FailureProcedure, Ignore)
  BY DEF Heading, InRange, Initiating, Successful, Unsuccessful, Reject, Ignore, WriteReplaceProcedure,
         StopProcedure, ErrorProcedure, ScheduledProcedure, RestartProcedure, FailureProcedure

\* A short PDU is sent.
LEMMA ShortIsSent ==
    ASSUME NoneIsNoList, NEW choice, NEW procedure, NEW criticality, Heading(choice, procedure, criticality),
           NEW ies, AllFitting(ies), Len(ies) <= 3
    PROVE  Sent(EncodePDU(choice, procedure, criticality, ies), choice, procedure, ies)
  <1>1. Elements(ies) /\ EncodePDU(choice, procedure, criticality, ies) # None
    BY ShortPdu
  <1>2. QED
    BY <1>1 DEF Sent

\* Lists of one, two, three elements that fit.
LEMMA OneFits ==
    ASSUME NEW a, Fitting(a)
    PROVE  AllFitting(<<a>>) /\ Pieces(<<a>>) /\ Len(<<a>>) <= 3
  BY OnePiece DEF AllFitting, Pieces, Fitting

\* Two elements that fit are a list of such.
LEMMA TwoFit ==
    ASSUME NEW a, Fitting(a), NEW b, Fitting(b)
    PROVE  /\ AllFitting(<<a, b>>) /\ Pieces(<<a, b>>) /\ Len(<<a, b>>) = 2
           /\ <<a, b>>[1] = a /\ <<a, b>>[2] = b
  <1> DEFINE s == <<a, b>>
  <1>1. Pieces(s) /\ Len(s) = 2 /\ s[1] = a /\ s[2] = b
    BY TwoPieces DEF Fitting
  <1> HIDE DEF s
  <1>2. \A i \in 1..Len(s) : i = 1 \/ i = 2
    BY <1>1
  <1>3. AllFitting(s)
    BY <1>1, <1>2 DEF AllFitting, Pieces
  <1>4. QED
    BY <1>1, <1>3 DEF s

\* So are three.
LEMMA ThreeFit ==
    ASSUME NEW a, Fitting(a), NEW b, Fitting(b), NEW c, Fitting(c)
    PROVE  /\ AllFitting(<<a, b, c>>) /\ Pieces(<<a, b, c>>) /\ Len(<<a, b, c>>) = 3
           /\ <<a, b, c>>[1] = a /\ <<a, b, c>>[2] = b /\ <<a, b, c>>[3] = c
  <1> DEFINE s == <<a, b, c>>
  <1>1. Pieces(s) /\ Len(s) = 3 /\ s[1] = a /\ s[2] = b /\ s[3] = c
    BY ThreePieces DEF Fitting
  <1> HIDE DEF s
  <1>2. \A i \in 1..Len(s) : i = 1 \/ i = 2 \/ i = 3
    BY <1>1
  <1>3. AllFitting(s)
    BY <1>1, <1>2 DEF AllFitting, Pieces
  <1>4. QED
    BY <1>1, <1>3 DEF s

-----------------------------------------------------------------------------
(* Answers *)

\* What an MME answers: a request with these identifiers.
Asked(r) ==
    /\ r.procedure \in {WriteReplaceProcedure, StopProcedure}
    /\ \E m, s : Fits(m, 16) /\ Fits(s, 16) /\ r.ids = <<m, s>>

\* A cause is a fitting element.
LEMMA CauseFits ==
    ASSUME NoneIsNoList, NEW criticality \in 0..2, NEW cause \in 0..255
    PROVE  Fitting(IE(Cause, criticality, EncodeConstrainedInt(0, 255, cause)))
  <1> DEFINE v == EncodeConstrainedInt(0, 255, cause)
  <1>1. UpperBound(255) /\ InRange(0, 255, cause) /\ cause \in Nat
    BY DEF UpperBound, InRange
  <1>2. Whole(v) /\ Len(v) <= 24
    BY <1>1, NumberIsWhole
  <1>3. InRange(0, 65535, 1)
    BY DEF InRange
  <1> HIDE DEF v
  <1>4. v # None
    BY <1>2 DEF Whole, NoneIsNoList
  <1>5. Len(Filled(v)) <= 17500
    <2>1. Len(v) \in Nat
      BY <1>2, ListLength DEF Whole
    <2>2. Len(v) <= 17500
      BY <1>2, <2>1
    <2>3. QED
      BY <1>2, <2>2, FilledLength
  <1>6. QED
    BY <1>2, <1>3, <1>4, <1>5, IEIs DEF Fitting, Element, Cause, v

\* A third appended to two makes three.
LEMMA ThirdAppended ==
    ASSUME NEW a, NEW b, NEW c
    PROVE  Append(<<a, b>>, c) = <<a, b, c>>
  <1> DEFINE S == {a, b, c}
  <1>1. <<a, b>> \in Seq(S) /\ c \in S
    OBVIOUS
  <1>2. Append(<<a, b>>, c) = [i \in 1..3 |-> IF i <= 2 THEN <<a, b>>[i] ELSE c]
    BY <1>1
  <1>3. \A i \in 1..3 : i = 1 \/ i = 2 \/ i = 3
    OBVIOUS
  <1>4. <<a, b, c>> = [i \in 1..3 |-> IF i <= 2 THEN <<a, b>>[i] ELSE c]
    BY <1>3
  <1>5. QED
    BY <1>2, <1>4

\* readLoop takes an accepting answer for what it is, with its identifiers.
LEMMA AcceptedIsTold ==
    ASSUME NoneIsNoFunction, None \notin Nat, NEW r, Asked(r)
    PROVE  Told(Accepted(r))
  <1>1. PICK m, s : Fits(m, 16) /\ Fits(s, 16) /\ r.ids = <<m, s>>
    BY DEF Asked
  <1>2. NoneIsNoList
    BY ListsAreFunctions
  <1> DEFINE p == r.procedure
             a == OfMessage(m)
             b == OfSerial(s)
             c == IE(Cause, Reject, EncodeConstrainedInt(0, 255, 0))
             ies == <<a, b, c>>
             pdu == EncodePDU(Successful, p, Reject, ies)
             d == [choice |-> Successful, procedure |-> p, ies |-> AllReceived(ies)]
  <1>3. Fitting(a) /\ Fitting(b) /\ Fitting(c)
    <2>1. Fitting(a) /\ Fitting(b)
      BY <1>1, <1>2, IdentifierFits
    <2>2. Reject \in 0..2 /\ 0 \in 0..255
      BY SMTT(30) DEF Reject
    <2>3. Fitting(c)
      BY <1>2, <2>2, CauseFits, ZenonT(60)
    <2>4. QED
      BY <2>1, <2>3
  <1>4. Append(Correlation(m, s), c) = ies
    <2>1. Correlation(m, s) = <<a, b>>
      BY DEF Correlation, OfMessage, OfSerial
    <2> HIDE DEF a, b, c
    <2>2. Append(<<a, b>>, c) = <<a, b, c>>
      BY ThirdAppended
    <2>3. QED
      BY <2>1, <2>2
  <1>5. r.ids[1] = m /\ r.ids[2] = s
    BY <1>1
  <1>6. Accepted(r) = Answer(pdu, "accepted", p, <<m, s>>)
    <2>1. p \in {WriteReplaceProcedure, StopProcedure}
      BY DEF Asked
    <2> HIDE DEF ies, c
    <2>2. SuccessResponse(p, m, s, 0) = pdu
      BY <1>4, <2>1 DEF SuccessResponse, c
    <2>3. QED
      BY <1>1, <1>5, <2>2 DEF Accepted
  <1> HIDE DEF a, b, c
  <1>7. AllFitting(ies) /\ Pieces(ies) /\ Len(ies) = 3 /\ ies[1] = a /\ ies[2] = b
    BY <1>3, ThreeFit
  <1> HIDE DEF ies
  <1>8. Sent(pdu, Successful, p, ies)
    <2>1. Heading(Successful, p, Reject)
      BY Headings DEF Asked
    <2>2. Len(ies) <= 3
      BY <1>7
    <2>3. QED
      BY <1>2, <1>7, <2>1, <2>2, ShortIsSent
  <1> HIDE DEF pdu
  <1>9. CorrelationOf(d, Successful) = <<m, s>>
    <2>1. Len(ies) >= 2
      BY <1>7
    <2>2. QED
      BY <1>1, <1>7, <2>1, CorrelationFound DEF a, b
  <1>10. DecodePDU(pdu) = d /\ d # None /\ d.procedure = p
    BY <1>8, SentIsRead
  <1>11. Header(pdu) = [outcome |-> Successful + 1, procedure |-> p] /\ Header(pdu) # None
    BY <1>8, SentIsRead
  <1> HIDE DEF d
  <1>12. ResponseIDs(pdu, p) = <<m, s>>
    BY <1>9, <1>10 DEF ResponseIDs, ResponseTo
  <1>13. Dispatch(pdu) = Read("accepted", p, <<m, s>>)
    BY <1>11, <1>12 DEF Dispatch, DispatchOn
  <1>14. QED
    BY <1>6, <1>8, <1>13, AnswerIs DEF Told

\* It takes a rejecting answer for what it is.
LEMMA RejectedIsTold ==
    ASSUME NoneIsNoFunction, None \notin Nat, NEW r, Asked(r)
    PROVE  Told(Rejected(r))
  <1>1. PICK m, s : Fits(m, 16) /\ Fits(s, 16) /\ r.ids = <<m, s>>
    BY DEF Asked
  <1>2. NoneIsNoList
    BY ListsAreFunctions
  <1> DEFINE p == r.procedure
             a == OfMessage(m)
             b == OfSerial(s)
             ies == <<a, b>>
             pdu == EncodePDU(Unsuccessful, p, Reject, ies)
  <1>3. Fitting(a) /\ Fitting(b)
    BY <1>1, <1>2, IdentifierFits
  <1>4. Correlation(m, s) = ies
    BY DEF Correlation, OfMessage, OfSerial
  <1>5. r.ids[1] = m /\ r.ids[2] = s
    BY <1>1
  <1> HIDE DEF a, b
  <1>6. Rejected(r) = Answer(pdu, "rejected", p, None)
    BY <1>4, <1>5 DEF Rejected
  <1>7. AllFitting(ies) /\ Len(ies) = 2
    BY <1>3, TwoFit
  <1> HIDE DEF ies
  <1>8. Sent(pdu, Unsuccessful, p, ies)
    <2>1. Heading(Unsuccessful, p, Reject)
      BY Headings DEF Asked
    <2>2. Len(ies) <= 3
      BY <1>7
    <2>3. QED
      BY <1>2, <1>7, <2>1, <2>2, ShortIsSent
  <1> HIDE DEF pdu
  <1>9. Header(pdu) = [outcome |-> Unsuccessful + 1, procedure |-> p] /\ Header(pdu) # None
    BY <1>8, SentIsRead
  <1>10. Unsuccessful + 1 # Successful + 1
    BY DEF Unsuccessful, Successful
  <1>11. Dispatch(pdu) = Read("rejected", p, None)
    BY <1>9, <1>10 DEF Dispatch, DispatchOn
  <1>12. QED
    BY <1>6, <1>8, <1>11, AnswerIs DEF Told

\* handleIndication takes a report that a broadcast is scheduled for what it is.
LEMMA ScheduledIsTold ==
    ASSUME NoneIsNoFunction, None \notin Nat, NEW r, Asked(r)
    PROVE  Told(Scheduled(r))
  <1>1. PICK m, s : Fits(m, 16) /\ Fits(s, 16) /\ r.ids = <<m, s>>
    BY DEF Asked
  <1>2. NoneIsNoList
    BY ListsAreFunctions
  <1> DEFINE p == ScheduledProcedure
             a == OfMessage(m)
             b == OfSerial(s)
             ies == <<a, b>>
             pdu == EncodePDU(Initiating, p, Ignore, ies)
             d == [choice |-> Initiating, procedure |-> p, ies |-> AllReceived(ies)]
  <1>3. Fitting(a) /\ Fitting(b)
    BY <1>1, <1>2, IdentifierFits
  <1>4. Correlation(m, s) = ies
    BY DEF Correlation, OfMessage, OfSerial
  <1>5. r.ids[1] = m /\ r.ids[2] = s
    BY <1>1
  <1> HIDE DEF a, b
  <1>6. Scheduled(r) = Answer(pdu, "scheduled", p, <<m, s>>)
    BY <1>1, <1>4, <1>5 DEF Scheduled
  <1>7. AllFitting(ies) /\ Pieces(ies) /\ Len(ies) = 2 /\ ies[1] = a /\ ies[2] = b
    BY <1>3, TwoFit
  <1> HIDE DEF ies
  <1>8. Sent(pdu, Initiating, p, ies)
    <2>1. Heading(Initiating, p, Ignore)
      BY Headings
    <2>2. Len(ies) <= 3
      BY <1>7
    <2>3. QED
      BY <1>2, <1>7, <2>1, <2>2, ShortIsSent
  <1> HIDE DEF pdu
  <1>9. CorrelationOf(d, Initiating) = <<m, s>>
    <2>1. Len(ies) >= 2
      BY <1>7
    <2>2. QED
      BY <1>1, <1>7, <2>1, CorrelationFound DEF a, b
  <1>10. DecodePDU(pdu) = d /\ d # None /\ d.procedure = p /\ d.choice = Initiating
    BY <1>8, SentIsRead
  <1>11. Header(pdu) = [outcome |-> Initiating + 1, procedure |-> p] /\ Header(pdu) # None
    BY <1>8, SentIsRead
  <1> HIDE DEF d
  <1>12. DecodeWriteReplaceWarningIndication(pdu) = <<m, s>> /\ <<m, s>> # None
    BY <1>9, <1>10, RecordsAreFunctions DEF DecodeWriteReplaceWarningIndication, ScheduledOf, IsIndication
  <1>13. Initiating + 1 # Successful + 1 /\ Initiating + 1 # Unsuccessful + 1
    BY DEF Initiating, Unsuccessful, Successful
  <1>13a. ScheduledProcedure \notin {RestartProcedure, FailureProcedure}
    BY DEF ScheduledProcedure, RestartProcedure, FailureProcedure
  <1>14. Dispatch(pdu) = Read("scheduled", p, <<m, s>>)
    BY <1>11, <1>12, <1>13, <1>13a DEF Dispatch, DispatchOn
  <1>15. QED
    BY <1>6, <1>8, <1>14, AnswerIs DEF Told

\* An error indication is not handled.
LEMMA ErrorIsTold ==
    ASSUME NoneIsNoFunction
    PROVE  Told(Answer(ErrorIndication(12), "unhandled", ErrorProcedure, None))
  <1>1. NoneIsNoList
    BY ListsAreFunctions, SMTT(30)
  <1> DEFINE a == IE(Cause, Ignore, EncodeConstrainedInt(0, 255, 12))
             ies == <<a>>
             pdu == EncodePDU(Initiating, ErrorProcedure, Ignore, ies)
  <1>2. Fitting(a)
    <2>1. Ignore \in 0..2 /\ 12 \in 0..255
      BY DEF Ignore
    <2>2. QED
      BY <1>1, <2>1, CauseFits, ZenonT(60)
  <1>3. ErrorIndication(12) = pdu
    BY DEF ErrorIndication
  <1> HIDE DEF a
  <1>4. AllFitting(ies) /\ Len(ies) <= 3
    BY <1>2, OneFits
  <1> HIDE DEF ies
  <1>5. Sent(pdu, Initiating, ErrorProcedure, ies)
    BY <1>1, <1>4, Headings, ShortIsSent
  <1> HIDE DEF pdu
  <1>6. Header(pdu) = [outcome |-> Initiating + 1, procedure |-> ErrorProcedure] /\ Header(pdu) # None
    BY <1>5, SentIsRead
  <1>7. /\ Initiating + 1 # Successful + 1 /\ Initiating + 1 # Unsuccessful + 1
        /\ ErrorProcedure \notin {ScheduledProcedure, RestartProcedure, FailureProcedure}
    BY DEF Initiating, Unsuccessful, Successful, ErrorProcedure, ScheduledProcedure, RestartProcedure, FailureProcedure
  <1>8. Dispatch(pdu) = Read("unhandled", ErrorProcedure, None)
    BY <1>6, <1>7 DEF Dispatch, DispatchOn
  <1>9. QED
    BY <1>3, <1>5, <1>8, AnswerIs DEF Told

-----------------------------------------------------------------------------
(* Indications *)

\* A cell as an eNB lists it.
ServedCell(e, c) ==
    c.plmn = e.plmn /\ Fits(c.eci, 28) /\ c.eci < 2^28 /\ Fits(c.tac, 16)

\* An eNB with its cells.
Serving(e) ==
    /\ FittingEnb(e) /\ Listed(e.cells) /\ InRange(1, 256, Len(e.cells))
    /\ \A i \in 1..Len(e.cells) : ServedCell(e, e.cells[i])

\* The cells of an eNB are a list of identities of cells.
LEMMA CellsIdentified ==
    ASSUME NEW e, Serving(e)
    PROVE  /\ AllIdentified(CellIDList, CellList(e)) /\ Len(CellList(e)) = Len(e.cells)
           /\ \A i \in 1..Len(CellList(e)) : CellList(e)[i].id < 2^28
  <1> DEFINE n == Len(e.cells)
             s == CellList(e)
  <1>1. n \in Nat /\ IsPlmn(e.plmn)
    BY ListLength DEF Serving, FittingEnb
  <1>2. s \in Seq({Identity(e.cells[i].plmn, e.cells[i].eci) : i \in 1..n}) /\ Len(s) = n
    BY <1>1 DEF CellList
  <1>3. \A i \in 1..n : s[i] = Identity(e.cells[i].plmn, e.cells[i].eci)
    BY DEF CellList
  <1>4. Listed(s)
    BY <1>2, ListsAre
  <1> HIDE DEF s
  <1>5. \A i \in 1..n : e.cells[i].plmn = e.plmn /\ e.cells[i].eci \in Nat /\ e.cells[i].eci < 2^28
    BY DEF Serving, ServedCell, Fits
  <1> HIDE DEF n
  <1>6. \A i \in 1..n : Identified(CellIDList, s[i]) /\ s[i].id < 2^28
    <2> SUFFICES ASSUME NEW i \in 1..n PROVE Identified(CellIDList, s[i]) /\ s[i].id < 2^28
      OBVIOUS
    <2>1. s[i] = Identity(e.plmn, e.cells[i].eci)
      BY <1>3, <1>5
    <2> DEFINE v == e.cells[i].eci
    <2>2. v \in Nat /\ v < 2^28
      BY <1>5
    <2> HIDE DEF v
    <2>3. s[i].plmn = e.plmn /\ s[i].id = v
      BY <2>1 DEF Identity, v
    <2>4. QED
      BY <1>1, <2>1, <2>2, <2>3 DEF Identified, v
  <1>7. QED
    BY <1>2, <1>4, <1>6 DEF AllIdentified, s, n

\* Its tracking areas are a list of identities, no longer than that of its cells.
LEMMA AreasIdentified ==
    ASSUME NEW e, Serving(e)
    PROVE  AllIdentified(TrackingAreas, TaiList(e)) /\ Len(TaiList(e)) >= 1 /\ Len(TaiList(e)) <= Len(e.cells)
  <1> DEFINE n == Len(e.cells)
             T == {Identity(c.plmn, c.tac) : c \in ToSet(e.cells)}
             g == [i \in 1..n |-> Identity(e.cells[i].plmn, e.cells[i].tac)]
  <1>1. n \in Nat /\ n >= 1 /\ DOMAIN e.cells = 1..n /\ IsPlmn(e.plmn)
    BY ListLength DEF Serving, FittingEnb, InRange
  <1>2. g \in Surjection(1..n, T)
    <2>1. \A i \in 1..n : e.cells[i] \in ToSet(e.cells)
      BY <1>1 DEF ToSet
    <2>2. \A x \in T : \E i \in 1..n : x = Identity(e.cells[i].plmn, e.cells[i].tac)
      BY <1>1 DEF ToSet
    <2>3. \A i \in 1..n : Identity(e.cells[i].plmn, e.cells[i].tac) \in T
      BY <2>1
    <2> HIDE DEF T, n
    <2>4. QED
      BY <2>2, <2>3 DEF Surjection
  <1>3. IsFiniteSet(1..n) /\ Cardinality(1..n) = n
    BY <1>1, FS_Interval
  <1>4. g[1] \in T
    <2>1. 1 \in 1..n
      BY <1>1
    <2> HIDE DEF T, g, n
    <2>2. QED
      BY <1>2, <2>1 DEF Surjection
  <1> HIDE DEF g
  <1>5. \A x \in T : Identified(TrackingAreas, x)
    <2>1. \A i \in 1..n : Identified(TrackingAreas, Identity(e.plmn, e.cells[i].tac))
      <3>1. \A i \in 1..n : Fits(e.cells[i].tac, 16)
        BY DEF Serving, ServedCell
      <3> HIDE DEF n
      <3>2. \A v : Fits(v, 16) => v \in Nat
        BY DEF Fits
      <3>3. QED
        BY <1>1, <3>1, <3>2 DEF Identified, Identity
    <2>2. \A x \in T : \E i \in 1..n : x = Identity(e.plmn, e.cells[i].tac)
      BY <1>1 DEF ToSet, Serving, ServedCell
    <2> HIDE DEF T, n
    <2>3. QED
      BY <2>1, <2>2
  <1>6. TaiList(e) = SetToSeq(T)
    BY DEF TaiList
  <1> HIDE DEF T, n
  <1>7. IsFiniteSet(T) /\ Cardinality(T) <= n
    BY <1>2, <1>3, FS_Surjection
  <1>8. /\ TaiList(e) \in Seq(T) /\ Len(TaiList(e)) = Cardinality(T)
        /\ \A x \in T : \E i \in 1..Len(TaiList(e)) : TaiList(e)[i] = x
    BY <1>6, <1>7, SetAsList
  <1>9. Listed(TaiList(e)) /\ Len(TaiList(e)) \in Nat
    BY <1>8, ListsAre
  <1>10. \A i \in 1..Len(TaiList(e)) : Identified(TrackingAreas, TaiList(e)[i])
    BY <1>5, <1>8
  <1>11. Len(TaiList(e)) >= 1
    <2>1. \E i \in 1..Len(TaiList(e)) : TRUE
      BY <1>4, <1>8
    <2>2. QED
      BY <1>9, <2>1
  <1>12. QED
    BY <1>7, <1>8, <1>9, <1>10, <1>11 DEF AllIdentified, n

\* Elements with ids of their own are found.
LEMMA OwnIdFound ==
    ASSUME NEW s, Pieces(s), NEW k \in 1..Len(s), \A j \in 1..Len(s) : j # k => s[j].id # s[k].id
    PROVE  FindIE(AllReceived(s), s[k].id) = Filled(s[k].value)
  <1>1. \A j \in 1..Len(s) : j < k => s[j].id # s[k].id
    <2>1. Len(s) \in Nat
      BY ListLength DEF Pieces
    <2>2. \A j \in 1..Len(s) : j < k => j # k
      BY <2>1
    <2>3. QED
      BY <2>2
  <1>2. QED
    BY <1>1, FoundFirst

\* Of two elements received findIE finds either by its id.
LEMMA TwoFound ==
    ASSUME NEW a, Fitting(a), NEW b, Fitting(b), a.id # b.id
    PROVE  LET r == AllReceived(<<a, b>>)
           IN  FindIE(r, a.id) = Filled(a.value) /\ FindIE(r, b.id) = Filled(b.value)
  <1> DEFINE s == <<a, b>>
  <1>1. Pieces(s) /\ Len(s) = 2 /\ s[1] = a /\ s[2] = b
    BY TwoFit
  <1> HIDE DEF s
  <1>2. 1 \in 1..Len(s) /\ 2 \in 1..Len(s) /\ \A i \in 1..Len(s) : i = 1 \/ i = 2
    BY <1>1
  <1>3. \A j \in 1..Len(s) : j # 1 => s[j].id # s[1].id
    BY <1>1, <1>2
  <1>4. \A j \in 1..Len(s) : j # 2 => s[j].id # s[2].id
    BY <1>1, <1>2
  <1>5. FindIE(AllReceived(s), s[1].id) = Filled(s[1].value)
    BY <1>1, <1>2, <1>3, OwnIdFound
  <1>6. FindIE(AllReceived(s), s[2].id) = Filled(s[2].value)
    BY <1>1, <1>2, <1>4, OwnIdFound
  <1>7. QED
    BY <1>1, <1>5, <1>6 DEF s

\* Of three it finds each.
LEMMA ThreeFound ==
    ASSUME NEW a, Fitting(a), NEW b, Fitting(b), NEW c, Fitting(c), a.id # b.id, a.id # c.id, b.id # c.id
    PROVE  LET r == AllReceived(<<a, b, c>>)
           IN  /\ FindIE(r, a.id) = Filled(a.value) /\ FindIE(r, b.id) = Filled(b.value)
               /\ FindIE(r, c.id) = Filled(c.value)
  <1> DEFINE s == <<a, b, c>>
  <1>1. Pieces(s) /\ Len(s) = 3 /\ s[1] = a /\ s[2] = b /\ s[3] = c
    BY ThreeFit
  <1> HIDE DEF s
  <1>2. /\ 1 \in 1..Len(s) /\ 2 \in 1..Len(s) /\ 3 \in 1..Len(s)
        /\ \A i \in 1..Len(s) : i = 1 \/ i = 2 \/ i = 3
    BY <1>1
  <1>3. \A j \in 1..Len(s) : j # 1 => s[j].id # s[1].id
    BY <1>1, <1>2
  <1>4. \A j \in 1..Len(s) : j # 2 => s[j].id # s[2].id
    BY <1>1, <1>2
  <1>5. \A j \in 1..Len(s) : j # 3 => s[j].id # s[3].id
    BY <1>1, <1>2
  <1>6. FindIE(AllReceived(s), s[1].id) = Filled(s[1].value)
    BY <1>1, <1>2, <1>3, OwnIdFound
  <1>7. FindIE(AllReceived(s), s[2].id) = Filled(s[2].value)
    BY <1>1, <1>2, <1>4, OwnIdFound
  <1>8. FindIE(AllReceived(s), s[3].id) = Filled(s[3].value)
    BY <1>1, <1>2, <1>5, OwnIdFound
  <1>9. QED
    BY <1>1, <1>6, <1>7, <1>8 DEF s

\* The bits of a list of at most 256 identities are few enough for one element.
LEMMA ListBounds ==
    ASSUME NEW n \in Nat, n <= 256, NEW m \in Nat, m <= 24 + 68 * n
    PROVE  m <= 17500
  OBVIOUS

\* A list is a fitting element, and its decoder finds what was put in.
LEMMA ListFits ==
    ASSUME NoneIsNoList, NEW alternative, NEW list, AllIdentified(alternative, list),
           alternative = CellIDList => \A i \in 1..Len(list) : list[i].id < 2^28,
           NEW ub, InRange(1, ub, Len(list)), Len(list) <= 256, NEW id, InRange(0, 65535, id)
    PROVE  LET ie == IE(id, Reject, EncodeList(alternative, ub, list))
           IN  /\ Fitting(ie) /\ ie.id = id
               /\ Finish(GetIds(alternative, GetConstrainedWholeNumber(Reader(Filled(ie.value)), 1, ub))) = list
  <1> DEFINE v == EncodeList(alternative, ub, list)
  <1>1. /\ Whole(v) /\ Filled(v) = v /\ Len(v) <= 24 + 68 * Len(list)
        /\ Finish(GetIds(alternative, GetConstrainedWholeNumber(Reader(v), 1, ub))) = list
    BY ListValuePasses DEF EncodeList, ListValue
  <1> HIDE DEF v
  <1>2. Len(v) <= 17500
    <2> DEFINE m == Len(v)
               n == Len(list)
    <2>1. m \in Nat
      BY <1>1, ListLength DEF Whole
    <2>2. n \in Nat
      BY ListLength DEF AllIdentified
    <2>3. m <= 24 + 68 * n /\ n <= 256
      BY <1>1
    <2> HIDE DEF m, n
    <2>4. m <= 17500
      BY <2>1, <2>2, <2>3, ListBounds
    <2>5. QED
      BY <2>4 DEF m
  <1>3. v # None
    BY <1>1 DEF Whole, NoneIsNoList
  <1> DEFINE ie == IE(id, Reject, v)
  <1>4. ie.id = id /\ ie.criticality = Reject /\ ie.value = v
    BY IEIs
  <1> HIDE DEF ie
  <1>5. Reject \in 0..2
    BY DEF Reject
  <1>6. Fitting(ie)
    BY <1>1, <1>2, <1>3, <1>4, <1>5 DEF Fitting, Element
  <1>7. QED
    BY <1>1, <1>4, <1>6 DEF ie, v

\* So is an identity.
LEMMA EnbFits ==
    ASSUME NoneIsNoFunction, None \notin Nat, NEW e, FittingEnb(e)
    PROVE  LET ie == IE(GlobalEnb, Reject, EncodeGlobalENBID(e))
           IN  Fitting(ie) /\ ie.id = GlobalEnb /\ DecodeGlobalENBID(Filled(ie.value)) = EnbOf(e)
  <1> DEFINE v == EncodeGlobalENBID(e)
  <1>1. NoneIsNoList
    BY ListsAreFunctions
  <1>2. Whole(v) /\ Filled(v) = v /\ Len(v) <= 200 /\ DecodeGlobalENBID(v) = EnbOf(e)
    BY <1>1, GlobalENBIDPasses
  <1> HIDE DEF v
  <1>3. Len(Filled(v)) <= 17500 /\ v # None
    <2>1. v # None
      BY <1>1, <1>2 DEF Whole, NoneIsNoList
    <2> DEFINE k == Len(Filled(v))
    <2>2. k <= 200 /\ k \in Nat
      BY <1>2, ListLength DEF Whole
    <2> HIDE DEF k
    <2>3. k <= 17500
      BY <2>2
    <2>4. QED
      BY <2>1, <2>3 DEF k
  <1> DEFINE ie == IE(GlobalEnb, Reject, v)
  <1>4. ie.id = GlobalEnb /\ ie.criticality = Reject /\ ie.value = v
    BY IEIs
  <1> HIDE DEF ie
  <1>5. Reject \in 0..2 /\ InRange(0, 65535, GlobalEnb)
    BY DEF Reject, InRange, GlobalEnb
  <1>6. Fitting(ie)
    BY <1>2, <1>3, <1>4, <1>5 DEF Fitting, Element
  <1>7. QED
    BY <1>2, <1>4, <1>6 DEF ie, v

\* The ids of the elements of indications differ, and are within their range.
LEMMA IdsDiffer ==
    /\ RestartedCellList # GlobalEnb /\ RestartedCellList # RestartedTaiList /\ GlobalEnb # RestartedTaiList
    /\ FailedCellList # GlobalEnb
    /\ InRange(0, 65535, RestartedCellList) /\ InRange(0, 65535, RestartedTaiList)
    /\ InRange(0, 65535, FailedCellList)
    /\ CellIDList # TrackingAreas
    /\ MaxRestartedCells = 256 /\ MaxFailedCells = 256 /\ MaxRestartTAIs = 2048
    /\ Initiating + 1 # Successful + 1 /\ Initiating + 1 # Unsuccessful + 1
    /\ RestartProcedure # ScheduledProcedure /\ RestartProcedure # FailureProcedure
    /\ FailureProcedure # ScheduledProcedure
  BY DEF RestartedCellList, GlobalEnb, RestartedTaiList, FailedCellList, InRange, CellIDList, TrackingAreas,
         MaxRestartedCells, MaxFailedCells, MaxRestartTAIs, Initiating, Successful, Unsuccessful,
         RestartProcedure, ScheduledProcedure, FailureProcedure

\* As many tracking areas as there are cells are within their range.
LEMMA AreaRange ==
    ASSUME NEW n, InRange(1, 256, n), NEW m \in Nat, m >= 1, m <= n
    PROVE  InRange(1, 2048, m) /\ m <= 256 /\ n <= 256
  BY DEF InRange

\* The value of an element that fits, filled up, is a list.
LEMMA FittingFilled ==
    ASSUME NoneIsNoList, NEW ie, Fitting(ie)
    PROVE  Listed(Filled(ie.value))
  BY FilledLength DEF Fitting, Element

\* A restart indication is understood.
LEMMA RestartIsTold ==
    ASSUME NoneIsNoFunction, None \notin Nat, NEW e, Serving(e)
    PROVE  Told(RestartIndication(e))
  <1>1. NoneIsNoList
    BY ListsAreFunctions
  <1> DEFINE a == IE(RestartedCellList, Reject, EncodeList(CellIDList, MaxRestartedCells, CellList(e)))
             b == IE(GlobalEnb, Reject, EncodeGlobalENBID(e))
             c == IE(RestartedTaiList, Reject, EncodeList(TrackingAreas, MaxRestartTAIs, TaiList(e)))
             ies == <<a, b, c>>
             pdu == EncodePDU(Initiating, RestartProcedure, Ignore, ies)
             d == [choice |-> Initiating, procedure |-> RestartProcedure, ies |-> AllReceived(ies)]
             what == [enb |-> EnbOf(e), cells |-> CellList(e), tais |-> TaiList(e)]
  <1>2. /\ AllIdentified(CellIDList, CellList(e)) /\ Len(CellList(e)) = Len(e.cells)
        /\ \A i \in 1..Len(CellList(e)) : CellList(e)[i].id < 2^28
    BY CellsIdentified
  <1>3. AllIdentified(TrackingAreas, TaiList(e)) /\ Len(TaiList(e)) >= 1 /\ Len(TaiList(e)) <= Len(e.cells)
    BY AreasIdentified
  <1>4. InRange(1, 256, Len(e.cells)) /\ FittingEnb(e)
    BY DEF Serving
  <1>5. InRange(1, 2048, Len(TaiList(e))) /\ Len(TaiList(e)) <= 256 /\ Len(e.cells) <= 256
    <2>1. Len(TaiList(e)) \in Nat
      BY <1>3, ListLength DEF AllIdentified
    <2>2. QED
      BY <1>3, <1>4, <2>1, AreaRange
  <1>6. /\ Fitting(a) /\ a.id = RestartedCellList
        /\ DecodeECGIListBounded(Filled(a.value), MaxRestartedCells) = CellList(e)
    <2>1. InRange(1, MaxRestartedCells, Len(CellList(e))) /\ Len(CellList(e)) <= 256
      BY <1>2, <1>4, <1>5, IdsDiffer
    <2> HIDE DEF a
    <2>2. /\ Fitting(a) /\ a.id = RestartedCellList
          /\ Finish(GetIds(CellIDList, GetConstrainedWholeNumber(Reader(Filled(a.value)), 1, MaxRestartedCells))) =
               CellList(e)
      BY <1>1, <1>2, <2>1, IdsDiffer, ListFits DEF a
    <2>3. QED
      BY <2>2 DEF DecodeECGIListBounded
  <1>7. /\ Fitting(c) /\ c.id = RestartedTaiList
        /\ DecodeTAIRestartList(Filled(c.value)) = TaiList(e)
    <2>1. InRange(1, MaxRestartTAIs, Len(TaiList(e)))
      BY <1>5, IdsDiffer
    <2> HIDE DEF c
    <2>2. /\ Fitting(c) /\ c.id = RestartedTaiList
          /\ Finish(GetIds(TrackingAreas, GetConstrainedWholeNumber(Reader(Filled(c.value)), 1, MaxRestartTAIs))) =
               TaiList(e)
      BY <1>1, <1>3, <1>5, <2>1, IdsDiffer, ListFits DEF c
    <2>3. QED
      BY <2>2 DEF DecodeTAIRestartList
  <1>8. Fitting(b) /\ b.id = GlobalEnb /\ DecodeGlobalENBID(Filled(b.value)) = EnbOf(e)
    BY <1>4, EnbFits
  <1>9. RestartIndication(e) = Answer(pdu, "restart", RestartProcedure, what)
    BY DEF RestartIndication
  <1> HIDE DEF a, b, c, what
  <1>10. AllFitting(ies) /\ Len(ies) = 3
    BY <1>6, <1>7, <1>8, ThreeFit
  <1>11. /\ FindIE(AllReceived(ies), RestartedCellList) = Filled(a.value)
         /\ FindIE(AllReceived(ies), GlobalEnb) = Filled(b.value)
         /\ FindIE(AllReceived(ies), RestartedTaiList) = Filled(c.value)
    BY <1>6, <1>7, <1>8, IdsDiffer, ThreeFound
  <1> HIDE DEF ies
  <1>12. Sent(pdu, Initiating, RestartProcedure, ies)
    <2>1. Len(ies) <= 3
      BY <1>10
    <2>2. QED
      BY <1>1, <1>10, <2>1, Headings, ShortIsSent
  <1> HIDE DEF pdu
  <1>13. DecodePDU(pdu) = d /\ d # None
    BY <1>12, SentIsRead
  <1>14. d.choice = Initiating /\ d.procedure = RestartProcedure /\ d.ies = AllReceived(ies)
    OBVIOUS
  <1>15. Header(pdu) = [outcome |-> Initiating + 1, procedure |-> RestartProcedure] /\ Header(pdu) # None
    BY <1>12, SentIsRead
  <1> HIDE DEF d
  <1>16. Listed(Filled(a.value)) /\ Listed(Filled(b.value)) /\ Listed(Filled(c.value))
    BY <1>1, <1>6, <1>7, <1>8, FittingFilled
  <1>17. /\ ValueOf(d, RestartedCellList) = Filled(a.value) /\ Filled(a.value) # None
         /\ ValueOf(d, GlobalEnb) = Filled(b.value) /\ Filled(b.value) # None
         /\ ValueOf(d, RestartedTaiList) = Filled(c.value) /\ Filled(c.value) # None
    BY <1>1, <1>11, <1>13, <1>14, <1>16 DEF ValueOf, NoneIsNoList
  <1>18. CellList(e) # None /\ TaiList(e) # None /\ EnbOf(e) # None /\ what # None
    <2>1. CellList(e) # None /\ TaiList(e) # None
      BY <1>1, <1>2, <1>3 DEF NoneIsNoList, AllIdentified
    <2>2. EnbOf(e) # None /\ what # None
      BY RecordsAreFunctions DEF EnbOf, what
    <2>3. QED
      BY <2>1, <2>2
  <1>19. RestartOf(d) = what
    <2>1. Mandatory(d, RestartedCellList, LAMBDA x : DecodeECGIListBounded(x, MaxRestartedCells)) = CellList(e)
      BY <1>6, <1>17 DEF Mandatory
    <2>2. Mandatory(d, GlobalEnb, DecodeGlobalENBID) = EnbOf(e)
      BY <1>8, <1>17 DEF Mandatory
    <2>3. Mandatory(d, RestartedTaiList, DecodeTAIRestartList) = TaiList(e)
      BY <1>7, <1>17 DEF Mandatory
    <2>4. IsIndication(d, RestartProcedure)
      BY <1>13, <1>14 DEF IsIndication
    <2>5. QED
      BY <1>18, <2>1, <2>2, <2>3, <2>4 DEF RestartOf, what
  <1>20. DecodeRestartIndication(pdu) = what
    BY <1>13, <1>19 DEF DecodeRestartIndication
  <1>21. Dispatch(pdu) = Read("restart", RestartProcedure, what)
    BY <1>15, <1>18, <1>20, IdsDiffer DEF Dispatch, DispatchOn
  <1>22. QED
    BY <1>9, <1>12, <1>21, AnswerIs DEF Told

\* So is a failure indication.
LEMMA FailureIsTold ==
    ASSUME NoneIsNoFunction, None \notin Nat, NEW e, Serving(e)
    PROVE  Told(FailureIndication(e))
  <1>1. NoneIsNoList
    BY ListsAreFunctions
  <1> DEFINE a == IE(FailedCellList, Reject, EncodeList(CellIDList, MaxFailedCells, CellList(e)))
             b == IE(GlobalEnb, Reject, EncodeGlobalENBID(e))
             ies == <<a, b>>
             pdu == EncodePDU(Initiating, FailureProcedure, Ignore, ies)
             d == [choice |-> Initiating, procedure |-> FailureProcedure, ies |-> AllReceived(ies)]
             what == [enb |-> EnbOf(e), cells |-> CellList(e)]
  <1>2. /\ AllIdentified(CellIDList, CellList(e)) /\ Len(CellList(e)) = Len(e.cells)
        /\ \A i \in 1..Len(CellList(e)) : CellList(e)[i].id < 2^28
    BY CellsIdentified
  <1>3. InRange(1, 256, Len(e.cells)) /\ FittingEnb(e) /\ Len(e.cells) <= 256
    BY DEF Serving, InRange
  <1>4. /\ Fitting(a) /\ a.id = FailedCellList
        /\ DecodeECGIListBounded(Filled(a.value), MaxFailedCells) = CellList(e)
    <2>1. InRange(1, MaxFailedCells, Len(CellList(e))) /\ Len(CellList(e)) <= 256
      BY <1>2, <1>3, IdsDiffer
    <2> HIDE DEF a
    <2>2. /\ Fitting(a) /\ a.id = FailedCellList
          /\ Finish(GetIds(CellIDList, GetConstrainedWholeNumber(Reader(Filled(a.value)), 1, MaxFailedCells))) =
               CellList(e)
      BY <1>1, <1>2, <2>1, IdsDiffer, ListFits DEF a
    <2>3. QED
      BY <2>2 DEF DecodeECGIListBounded
  <1>5. Fitting(b) /\ b.id = GlobalEnb /\ DecodeGlobalENBID(Filled(b.value)) = EnbOf(e)
    BY <1>3, EnbFits
  <1>6. FailureIndication(e) = Answer(pdu, "failure", FailureProcedure, what)
    BY DEF FailureIndication
  <1> HIDE DEF a, b, what
  <1>7. AllFitting(ies) /\ Len(ies) = 2
    BY <1>4, <1>5, TwoFit
  <1>8. /\ FindIE(AllReceived(ies), FailedCellList) = Filled(a.value)
        /\ FindIE(AllReceived(ies), GlobalEnb) = Filled(b.value)
    BY <1>4, <1>5, IdsDiffer, TwoFound
  <1> HIDE DEF ies
  <1>9. Sent(pdu, Initiating, FailureProcedure, ies)
    <2>1. Len(ies) <= 3
      BY <1>7
    <2>2. QED
      BY <1>1, <1>7, <2>1, Headings, ShortIsSent
  <1> HIDE DEF pdu
  <1>10. DecodePDU(pdu) = d /\ d # None
    BY <1>9, SentIsRead
  <1>11. d.choice = Initiating /\ d.procedure = FailureProcedure /\ d.ies = AllReceived(ies)
    OBVIOUS
  <1>12. Header(pdu) = [outcome |-> Initiating + 1, procedure |-> FailureProcedure] /\ Header(pdu) # None
    BY <1>9, SentIsRead
  <1> HIDE DEF d
  <1>13. Listed(Filled(a.value)) /\ Listed(Filled(b.value))
    BY <1>1, <1>4, <1>5, FittingFilled
  <1>14. /\ ValueOf(d, FailedCellList) = Filled(a.value) /\ Filled(a.value) # None
         /\ ValueOf(d, GlobalEnb) = Filled(b.value) /\ Filled(b.value) # None
    BY <1>1, <1>8, <1>10, <1>11, <1>13 DEF ValueOf, NoneIsNoList
  <1>15. CellList(e) # None /\ EnbOf(e) # None /\ what # None
    <2>1. CellList(e) # None
      BY <1>1, <1>2 DEF NoneIsNoList, AllIdentified
    <2>2. EnbOf(e) # None /\ what # None
      BY RecordsAreFunctions DEF EnbOf, what
    <2>3. QED
      BY <2>1, <2>2
  <1>16. FailureOf(d) = what
    <2>1. Mandatory(d, FailedCellList, LAMBDA x : DecodeECGIListBounded(x, MaxFailedCells)) = CellList(e)
      BY <1>4, <1>14 DEF Mandatory
    <2>2. Mandatory(d, GlobalEnb, DecodeGlobalENBID) = EnbOf(e)
      BY <1>5, <1>14 DEF Mandatory
    <2>3. IsIndication(d, FailureProcedure)
      BY <1>10, <1>11 DEF IsIndication
    <2>4. QED
      BY <1>15, <2>1, <2>2, <2>3 DEF FailureOf, what
  <1>17. DecodeFailureIndication(pdu) = what
    BY <1>10, <1>16 DEF DecodeFailureIndication
  <1>18. Dispatch(pdu) = Read("failure", FailureProcedure, what)
    BY <1>12, <1>15, <1>17, IdsDiffer DEF Dispatch, DispatchOn
  <1>19. QED
    BY <1>6, <1>9, <1>18, AnswerIs DEF Told

\* A function on the first numbers is a list.
LEMMA FunctionIsList ==
    ASSUME NEW K \in Int, NEW f, DOMAIN f = 1..K, f = [i \in DOMAIN f |-> f[i]]
    PROVE  Listed(f) /\ (K >= 0 => Len(f) = K)
  <1>1. f \in [1..K -> ToSet(f)]
    BY DEF ToSet
  <1>2. CASE K >= 0
    BY <1>1, <1>2 DEF Listed
  <1>3. CASE K < 0
    <2>1. 1..K = 1..0
      BY <1>3
    <2>2. f \in [1..0 -> ToSet(f)]
      BY <1>1, <2>1
    <2>3. QED
      BY <1>3, <2>2 DEF Listed
  <1>4. QED
    BY <1>2, <1>3

\* Lists put together are a list.
LEMMA FlattenListed ==
    ASSUME NEW seqs, Listed(seqs), \A i \in 1..Len(seqs) : Listed(seqs[i])
    PROVE  Listed(FlattenSeq(seqs))
  <1> DEFINE n == Len(seqs)
             All(f) == [i \in 1..n |-> IF i = 1 THEN seqs[i] ELSE f[i - 1] \o seqs[i]]
             flatten == CHOOSE f : f = All(f)
  <1>1. n \in Nat
    BY ListLength
  <1>2. FlattenSeq(seqs) = IF n = 0 THEN seqs ELSE flatten[n]
    BY DEF FlattenSeq
  <1>3. CASE n = 0
    BY <1>2, <1>3
  <1>4. CASE n # 0
    <2> DEFINE rest == [i \in 1..n |-> seqs[i + 1]]
               k == n - 1
    <2>1. k \in Nat /\ k = n - 1
      BY <1>1, <1>4
    <2> HIDE DEF k
    <2>2. PICK g : Walk("Join", 0, rest, seqs[1], k, g)
      BY <2>1, WalkExists
    <2> DEFINE h == [i \in 1..n |-> g[i - 1]]
    <2>3. h = All(h)
      <3>1. \A i \in 1..n : h[i] = IF i = 1 THEN seqs[i] ELSE h[i - 1] \o seqs[i]
        <4> SUFFICES ASSUME NEW i \in 1..n PROVE h[i] = IF i = 1 THEN seqs[i] ELSE h[i - 1] \o seqs[i]
          OBVIOUS
        <4>1. h[i] = g[i - 1] /\ i - 1 \in 0..k
          BY <1>1, <2>1
        <4>2. g[i - 1] = IF i - 1 = 0 THEN seqs[1] ELSE g[(i - 1) - 1] \o rest[i - 1]
          <5> HIDE DEF h, rest
          <5>1. QED
            BY <2>2, <4>1 DEF Walk, Step
        <4>3. CASE i = 1
          BY <4>1, <4>2, <4>3
        <4>4. CASE i # 1
          <5>1. i - 1 \in 1..n /\ i - 1 # 0 /\ (i - 1) + 1 = i
            BY <1>1, <4>4
          <5>2. h[i - 1] = g[(i - 1) - 1] /\ rest[i - 1] = seqs[i]
            BY <5>1
          <5> HIDE DEF h, rest
          <5>3. QED
            BY <4>1, <4>2, <4>4, <5>1, <5>2
        <4>5. QED
          BY <4>3, <4>4
      <3>2. h = [i \in 1..n |-> h[i]]
        OBVIOUS
      <3> HIDE DEF h
      <3>3. QED
        BY <3>1, <3>2
    <2> HIDE DEF h
    <2>4. flatten = All(flatten)
      <3> HIDE DEF All
      <3>1. QED
        BY <2>3
    <2> HIDE DEF flatten
    <2> DEFINE S == {i \in 0..n : i = 0 \/ Listed(flatten[i])}
    <2>5. 0 \in S
      BY <1>1
    <2>6. ASSUME NEW i \in 1..n, i - 1 \in S PROVE i \in S
      <3>1. flatten[i] = IF i = 1 THEN seqs[i] ELSE flatten[i - 1] \o seqs[i]
        BY <2>4
      <3>2. Listed(seqs[i]) /\ i \in 0..n /\ (i # 1 => i - 1 # 0)
        BY <1>1
      <3>3. i # 1 => Listed(flatten[i - 1])
        BY <2>6, <3>2
      <3>4. Listed(flatten[i])
        BY <3>1, <3>2, <3>3, Joined
      <3>5. QED
        BY <3>2, <3>4
    <2>7. n \in S
      <3> HIDE DEF S, n
      <3>1. \A i \in 0..n : i \in S
        BY <1>1, <2>5, <2>6, CountingUp
      <3>2. QED
        BY <1>1, <3>1
    <2>8. QED
      BY <1>2, <1>4, <2>7
  <1>5. QED
    BY <1>3, <1>4

-----------------------------------------------------------------------------
(* Texts *)

\* A text, character by character.
Readable(text) == Listed(text) /\ \A i \in 1..Len(text) : Listed(text[i].gsm)

\* The septets of a text are a list.
LEMMA SeptetsListed ==
    ASSUME NEW text, Readable(text)
    PROVE  Listed(GsmSeptets(text))
  <1> DEFINE f == [i \in 1..Len(text) |-> text[i].gsm]
  <1>1. Len(text) \in Nat
    BY ListLength DEF Readable
  <1>2. Listed(f) /\ Len(f) = Len(text)
    BY <1>1, FunctionIsList
  <1>3. \A i \in 1..Len(text) : f[i] = text[i].gsm
    OBVIOUS
  <1> HIDE DEF f
  <1>4. Listed(FlattenSeq(f))
    BY <1>2, <1>3, FlattenListed DEF Readable
  <1>5. QED
    BY <1>4 DEF GsmSeptets, f

\* A list in runs.
LEMMA ChunksListed ==
    ASSUME NEW s, Listed(s), NEW n \in Nat \ {0}
    PROVE  Listed(Chunks(s, n)) /\ \A i \in 1..Len(Chunks(s, n)) : Listed(Chunks(s, n)[i])
  <1> DEFINE k == Len(s)
             m == (k + n - 1) \div n
             c == Chunks(s, n)
  <1>1. k \in Nat
    BY ListLength
  <1>2. m \in Nat
    <2> DEFINE j == k + n - 1
    <2>1. j \in Nat
      BY <1>1
    <2> HIDE DEF j
    <2>2. j \div n \in Nat
      BY <2>1
    <2>3. QED
      BY <2>2 DEF j
  <1>3. c = [i \in 1..m |-> SubSeq(s, (i - 1) * n + 1, Min({i * n, k}))]
    BY DEF Chunks
  <1> HIDE DEF c, m
  <1>4. DOMAIN c = 1..m /\ c = [i \in DOMAIN c |-> c[i]]
    BY <1>3
  <1>5. Listed(c) /\ Len(c) = m
    BY <1>2, <1>4, FunctionIsList
  <1>6. ASSUME NEW i \in 1..m PROVE Listed(c[i])
    <2> DEFINE a == (i - 1) * n + 1
               b == Min({i * n, k})
    <2>1. c[i] = SubSeq(s, a, b)
      BY <1>3
    <2>2. i \in Nat /\ i >= 1
      BY <1>2
    <2>3. i * n \in Nat /\ (i - 1) * n \in Nat
      BY <2>2
    <2>4. b \in {i * n, k} /\ b <= k
      <3> DEFINE S == {i * n, k}
      <3>1. S \in SUBSET Nat /\ S # {} /\ k \in S
        BY <1>1, <2>3
      <3> HIDE DEF S, k
      <3>2. Min(S) \in S /\ \A x \in S : Min(S) <= x
        BY <3>1, MinIsLeast
      <3>3. QED
        BY <3>1, <3>2 DEF S
    <2>5. a \in Nat /\ a >= 1 /\ b \in Nat
      BY <1>1, <2>3, <2>4
    <2> HIDE DEF a, b
    <2>6. SubSeq(s, a, b) \in Seq(ToSet(s))
      BY <2>4, <2>5 DEF Listed
    <2>7. QED
      BY <2>1, <2>6, ListsAre
  <1>7. QED
    BY <1>5, <1>6 DEF c

\* Pages are lists.
LEMMA PagesListed ==
    /\ \A septets : Listed(septets) => Listed(GsmPage(septets))
    /\ \A chars : Listed(Ucs2Page(chars))
  <1>1. PageOctets \in Nat
    BY PagesAssumption
  <1>2. ASSUME NEW septets, Listed(septets) PROVE Listed(GsmPage(septets))
    <2> DEFINE data == PackSeptets(septets)
               k == (7 * Len(septets) + 7) \div 8
               fill == [i \in 1..PageOctets - Len(data) |-> Filler]
    <2>1. k \in Nat
      <3> DEFINE n == Len(septets)
      <3>1. n \in Nat
        BY <1>2, ListLength
      <3> HIDE DEF n
      <3>2. (7 * n + 7) \div 8 \in Nat
        BY <3>1
      <3>3. QED
        BY <3>2 DEF n
    <2>2. DOMAIN data = 1..k /\ data = [i \in DOMAIN data |-> data[i]]
      BY DEF PackSeptets
    <2> HIDE DEF data, k
    <2>3. Listed(data)
      BY <2>1, <2>2, FunctionIsList
    <2>4. PageOctets - Len(data) \in Int
      BY <1>1, <2>3, ListLength
    <2>5. DOMAIN fill = 1..PageOctets - Len(data) /\ fill = [i \in DOMAIN fill |-> fill[i]]
      OBVIOUS
    <2>6. GsmPage(septets) = data \o fill
      BY DEF GsmPage, data
    <2> HIDE DEF fill
    <2>7. Listed(fill)
      BY <2>4, <2>5, FunctionIsList
    <2>8. QED
      BY <2>3, <2>6, <2>7, Joined
  <1>3. ASSUME NEW chars PROVE Listed(Ucs2Page(chars))
    <2>1. DOMAIN Ucs2Page(chars) = 1..PageOctets /\ Ucs2Page(chars) = [i \in DOMAIN Ucs2Page(chars) |-> Ucs2Page(chars)[i]]
      BY DEF Ucs2Page
    <2>2. QED
      BY <1>1, <2>1, FunctionIsList
  <1>4. QED
    BY <1>2, <1>3

\* An encoded text.
Paged(content) ==
    /\ content.dcs \in Nat /\ Listed(content.pages)
    /\ \A i \in 1..Len(content.pages) : Listed(content.pages[i])

\* What FinishPages makes of pages are pages.
LEMMA FinishedPaged ==
    ASSUME NEW encoding, NEW dcs \in Nat, NEW pages, Listed(pages), \A i \in 1..Len(pages) : Listed(pages[i]),
           FinishPages(encoding, dcs, pages) # None
    PROVE  Paged(FinishPages(encoding, dcs, pages))
  <1> DEFINE content == [encoding |-> encoding, dcs |-> dcs, pages |-> pages]
  <1>1. FinishPages(encoding, dcs, pages) = content
    BY DEF FinishPages
  <1>2. content.dcs = dcs /\ content.pages = pages
    OBVIOUS
  <1> HIDE DEF content
  <1>3. QED
    BY <1>1, <1>2 DEF Paged

\* A page has room for at least one character.
LEMMA PerPageIs ==
    PerPage \in Nat \ {0} /\ CharsPerPage \in Nat \ {0}
  <1>1. PageOctets \in Nat /\ PageOctets >= 2
    BY PagesAssumption
  <1>2. (8 * PageOctets) \div 7 \in Nat \ {0} /\ PageOctets \div 2 \in Nat \ {0}
    BY <1>1
  <1>3. QED
    BY <1>2 DEF PerPage, CharsPerPage

\* A text that is encoded is a list of pages.
LEMMA EncodedPaged ==
    ASSUME NEW text, Readable(text), NEW dcs \in Nat, Encode(text, dcs) # None
    PROVE  Paged(Encode(text, dcs))
  <1> DEFINE septets == Chunks(GsmSeptets(text), PerPage)
             chars == Chunks(text, CharsPerPage)
             f == [i \in 1..Len(septets) |-> GsmPage(septets[i])]
             g == [i \in 1..Len(chars) |-> Ucs2Page(chars[i])]
  <1>1. Listed(septets) /\ \A i \in 1..Len(septets) : Listed(septets[i])
    <2>1. Listed(GsmSeptets(text))
      BY SeptetsListed
    <2>2. QED
      BY <2>1, ChunksListed, PerPageIs
  <1>2. Listed(chars)
    BY ChunksListed, PerPageIs DEF Readable
  <1>3. Encode(text, dcs) = FinishPages("gsm7", dcs, f) \/ Encode(text, dcs) = FinishPages("ucs2", 17, g)
    <2> DEFINE long == Len(text) > MaxPages * PerPage
               bad == OutsideUcs2(text)
               gsm == FinishPages("gsm7", dcs, f)
               ucs2 == FinishPages("ucs2", 17, g)
    <2>1. Encode(text, dcs) = IF long THEN None ELSE IF InGsmAlphabet(text) THEN gsm ELSE IF bad THEN None ELSE ucs2
      BY DEF Encode
    <2> HIDE DEF long, bad, gsm, ucs2
    <2>2. Encode(text, dcs) = gsm \/ Encode(text, dcs) = ucs2
      BY <2>1
    <2>3. QED
      BY <2>2 DEF gsm, ucs2
  <1>4. Listed(f) /\ \A i \in 1..Len(f) : Listed(f[i])
    <2> HIDE DEF septets
    <2>1. Len(septets) \in Nat
      BY <1>1, ListLength
    <2>2. DOMAIN f = 1..Len(septets) /\ f = [i \in DOMAIN f |-> f[i]]
      OBVIOUS
    <2>3. \A i \in 1..Len(septets) : f[i] = GsmPage(septets[i])
      OBVIOUS
    <2> HIDE DEF f
    <2>4. Listed(f) /\ Len(f) = Len(septets)
      BY <2>1, <2>2, FunctionIsList
    <2>5. QED
      BY <1>1, <2>3, <2>4, PagesListed
  <1>5. Listed(g) /\ \A i \in 1..Len(g) : Listed(g[i])
    <2> HIDE DEF chars
    <2>1. Len(chars) \in Nat
      BY <1>2, ListLength
    <2>2. DOMAIN g = 1..Len(chars) /\ g = [i \in DOMAIN g |-> g[i]]
      OBVIOUS
    <2>3. \A i \in 1..Len(chars) : g[i] = Ucs2Page(chars[i])
      OBVIOUS
    <2> HIDE DEF g
    <2>4. Listed(g) /\ Len(g) = Len(chars)
      BY <2>1, <2>2, FunctionIsList
    <2>5. QED
      BY <2>3, <2>4, PagesListed
  <1> HIDE DEF f, g
  <1>6. CASE Encode(text, dcs) = FinishPages("gsm7", dcs, f)
    BY <1>4, <1>6, FinishedPaged
  <1>7. CASE Encode(text, dcs) = FinishPages("ucs2", 17, g)
    BY <1>5, <1>7, FinishedPaged
  <1>8. QED
    BY <1>3, <1>6, <1>7

\* Octets are a whole number of octets.
LEMMA OctetsAreWhole ==
    ASSUME NEW s, Listed(s)
    PROVE  Whole(Octets(s)) /\ Len(Octets(s)) = 8 * Len(s)
  <1> DEFINE k == Len(s)
             o == Octets(s)
  <1>1. k \in Nat
    BY ListLength
  <1>2. DOMAIN o = 1..8 * k /\ o = [i \in DOMAIN o |-> o[i]]
    BY DEF Octets
  <1> HIDE DEF k, o
  <1>3. Listed(o) /\ Len(o) = 8 * k
    BY <1>1, <1>2, FunctionIsList
  <1>4. Len(o) % 8 = 0
    BY <1>1, <1>3
  <1>5. QED
    BY <1>3, <1>4 DEF k, o, Whole

\* A list with one more is a list.
LEMMA AppendListed ==
    ASSUME NEW s, Listed(s), NEW x
    PROVE  Listed(Append(s, x))
  BY LastIs

\* One thing is a list.
LEMMA OneListed ==
    ASSUME NEW x
    PROVE  Listed(<<x>>)
  <1>1. <<x>> \in Seq({x})
    OBVIOUS
  <1>2. QED
    BY <1>1, ListsAre

\* What an encoded text fills the page container with.
LEMMA ContentsWhole ==
    ASSUME NEW content, Paged(content)
    PROVE  Whole(Octets(Contents(content)))
  <1> DEFINE n == Len(content.pages)
             Used(i) == IF i < n THEN PageOctets ELSE UsedOctets(content.pages[i], content.encoding)
             f == [i \in 1..n |-> Append(content.pages[i], Used(i))]
  <1>1. n \in Nat
    BY ListLength DEF Paged
  <1>2. Contents(content) = <<n>> \o FlattenSeq(f)
    BY DEF Contents
  <1> HIDE DEF Used
  <1>3. DOMAIN f = 1..n /\ f = [i \in DOMAIN f |-> f[i]] /\ \A i \in 1..n : f[i] = Append(content.pages[i], Used(i))
    OBVIOUS
  <1> HIDE DEF f
  <1>4. Listed(f) /\ Len(f) = n
    BY <1>1, <1>3, FunctionIsList
  <1>5. \A i \in 1..Len(f) : Listed(f[i])
    <2> SUFFICES ASSUME NEW i \in 1..n PROVE Listed(f[i])
      BY <1>4
    <2>1. Listed(content.pages[i])
      BY DEF Paged
    <2>2. f[i] = Append(content.pages[i], Used(i))
      BY <1>3
    <2>3. Listed(Append(content.pages[i], Used(i)))
      BY <2>1, AppendListed
    <2>4. QED
      BY <2>2, <2>3
  <1>6. Listed(FlattenSeq(f))
    BY <1>4, <1>5, FlattenListed
  <1>7. Listed(Contents(content))
    BY <1>2, <1>6, OneListed, Joined
  <1>8. QED
    BY <1>7, OctetsAreWhole

-----------------------------------------------------------------------------
(* Requests *)

\* One element that could not be encoded, and there is no PDU.
LEMMA NoPduWithNone ==
    ASSUME NEW choice, NEW procedure, NEW criticality, NEW ies, Len(ies) \in Nat,
           NEW k \in 1..Len(ies), ies[k].value = None
    PROVE  EncodePDU(choice, procedure, criticality, ies) = None
  <1> DEFINE n == Len(ies)
  <1>1. ASSUME NEW w PROVE PutIEs(w, ies) = None
    <2>1. PICK f : Walk("PutIE", 0, ies, w, n, f) /\ PutIEs(w, ies) = f[n]
      BY PutIEsWalks
    <2>2. Walks("PutIE", 0, ies, w, f, n)
      BY <2>1, WalkGoes
    <2> DEFINE S == {i \in 0..n : i >= k => f[i] = None}
    <2>3. 0 \in S
      OBVIOUS
    <2>4. ASSUME NEW i \in 1..n, i - 1 \in S PROVE i \in S
      <3>1. f[i] = Step("PutIE", 0, ies, i, f[i - 1])
        BY <2>2 DEF Walks
      <3>2. CASE i = k
        <4>1. \A v : PutIE(v, ies[k]) = None
          BY DEF PutIE, PutOpenType
        <4>2. f[i] = None
          BY <3>1, <3>2, <4>1 DEF Step
        <4>3. QED
          BY <4>2
      <3>3. CASE i > k
        <4>1. f[i - 1] = None
          BY <2>4, <3>3
        <4>2. f[i] = None
          BY <3>1, <4>1, NoneStays
        <4>3. QED
          BY <4>2
      <3>4. CASE i < k
        BY <3>4
      <3>5. QED
        BY <3>2, <3>3, <3>4
    <2>5. n \in S
      <3> HIDE DEF S, n
      <3>1. n \in Nat
        BY DEF n
      <3>2. \A i \in 0..n : i \in S
        BY <3>1, <2>3, <2>4, CountingUp
      <3>3. QED
        BY <3>1, <3>2
    <2>6. QED
      BY <2>1, <2>5
  <1>2. EncodeMessageBody(ies) = None
    BY <1>1 DEF EncodeMessageBody, PutIEContainer, Align
  <1>3. QED
    BY <1>2 DEF EncodePDU, PutOpenType, Align

\* The numbers a target stands for.
Numbered(t) ==
    /\ t.scope \in {PLMNWide, TrackingAreaWide, CellWide} /\ Listed(t.ids)
    /\ \A i \in 1..Len(t.ids) : ParseUint[t.ids[i]] \in Nat \cup {None}

Values(t) == IF t.scope = PLMNWide THEN <<>> ELSE t.ids

\* What is sent for them.
LEMMA WireIs ==
    ASSUME NEW t, Numbered(t), TargetWire(t) # None
    PROVE  LET w == TargetWire(t)
           IN  /\ Listed(w) /\ Len(w) = Len(Values(t))
               /\ \A i \in 1..Len(Values(t)) : w[i] = ParseUint[Values(t)[i]] /\ w[i] \in Nat
  <1> DEFINE v == Values(t)
             w == [i \in 1..Len(v) |-> ParseUint[v[i]]]
  <1>1. Listed(v) /\ \A i \in 1..Len(v) : ParseUint[v[i]] \in Nat \cup {None}
    BY NothingGot DEF Numbered, Values
  <1>2. TargetWire(t) = w /\ \A i \in 1..Len(v) : ParseUint[v[i]] # None
    BY DEF TargetWire, Values
  <1> HIDE DEF v
  <1>3. Len(v) \in Nat
    BY <1>1, ListLength
  <1>4. DOMAIN w = 1..Len(v) /\ w = [i \in DOMAIN w |-> w[i]]
    OBVIOUS
  <1>5. \A i \in 1..Len(v) : w[i] = ParseUint[v[i]]
    OBVIOUS
  <1> HIDE DEF w
  <1>6. Listed(w) /\ Len(w) = Len(v)
    BY <1>3, <1>4, FunctionIsList
  <1>7. \A i \in 1..Len(v) : w[i] = ParseUint[v[i]] /\ w[i] \in Nat
    BY <1>1, <1>2, <1>5
  <1>8. QED
    BY <1>2, <1>6, <1>7 DEF v

\* The PLMN is three octets.
LEMMA PlmnFits ==
    ASSUME PlmnTBCD(PLMN) # None
    PROVE  IsPlmn(PlmnTBCD(PLMN))
  <1> DEFINE d == PLMN
             a == d[1] + 16 * d[2]
             b == d[3] + 16 * (IF Len(d) = 6 THEN d[4] ELSE 15)
             c == d[Len(d) - 1] + 16 * d[Len(d)]
  <1>1. PlmnTBCD(PLMN) = Octets(<<a, b, c>>)
    BY DEF PlmnTBCD
  <1> HIDE DEF a, b, c
  <1>2. Listed(<<a, b, c>>) /\ Len(<<a, b, c>>) = 3
    <2>1. <<a, b, c>> \in Seq({a, b, c})
      OBVIOUS
    <2>2. QED
      BY <2>1, ListsAre
  <1>3. Whole(Octets(<<a, b, c>>)) /\ Len(Octets(<<a, b, c>>)) = 8 * 3
    BY <1>2, OctetsAreWhole
  <1>4. QED
    BY <1>1, <1>3 DEF IsPlmn, OfOctets, Whole

\* The alternative an area of this target is sent as.
AlternativeOf(t) == IF t.scope = CellWide THEN CellIDList ELSE TrackingAreas

\* What a target that is sent means at the other end.
DecodedArea(t) == [alternative |-> AlternativeOf(t), ids |-> OfArea(PlmnTBCD(PLMN), TargetWire(t))]

\* The scopes of a target differ, and each has its alternative of a warning area.
LEMMA ScopesDiffer ==
    /\ CellWide # TrackingAreaWide /\ CellWide # PLMNWide /\ TrackingAreaWide # PLMNWide
    /\ CellIDList # TrackingAreas /\ Ignore \in 0..2 /\ Reject \in 0..2
    /\ \A t : AlternativeOf(t) \in {CellIDList, TrackingAreas} /\ (AlternativeOf(t) = CellIDList <=> t.scope = CellWide)
  BY DEF CellWide, TrackingAreaWide, PLMNWide, CellIDList, TrackingAreas, Ignore, Reject, AlternativeOf

\* Identities are the same if their parts are.
LEMMA SameIdentity ==
    ASSUME NEW a, NEW b, NEW x, NEW y
    PROVE  [plmn |-> a, id |-> b] = [plmn |-> x, id |-> y] <=> x = a /\ b = y
  <1>1. [plmn |-> a, id |-> b].plmn = a /\ [plmn |-> a, id |-> b].id = b
    OBVIOUS
  <1>2. [plmn |-> x, id |-> y].plmn = x /\ [plmn |-> x, id |-> y].id = y
    OBVIOUS
  <1>3. QED
    BY <1>1, <1>2

\* The other end takes a target for the cells it means.
LEMMA AreaMeans ==
    ASSUME NoneIsNoFunction, NEW t, Numbered(t), t.scope # PLMNWide, TargetWire(t) # None
    PROVE  CellsOf(DecodedArea(t)) = Meant(t)
  <1> DEFINE p == PlmnTBCD(PLMN)
             w == TargetWire(t)
             area == DecodedArea(t)
             IdOf(c) == IF t.scope = CellWide THEN c.eci ELSE c.tac
  <1>1. Listed(t.ids) /\ Listed(w) /\ Len(w) = Len(t.ids) /\ Len(t.ids) \in Nat /\ DOMAIN t.ids = 1..Len(t.ids)
    BY WireIs, ListLength DEF Numbered, Values
  <1>2. \A i \in 1..Len(t.ids) : w[i] = ParseUint[t.ids[i]]
    BY WireIs DEF Values
  <1>3. /\ area # None /\ area.alternative = AlternativeOf(t) /\ area.ids = OfArea(p, w)
    BY DEF DecodedArea, NoneIsNoFunction
  <1> HIDE DEF area, w, p
  <1>4. Len(area.ids) = Len(t.ids) /\ \A i \in 1..Len(t.ids) : area.ids[i] = [plmn |-> p, id |-> w[i]]
    <2> DEFINE n == Len(w)
    <2>1. OfArea(p, w) = [i \in 1..n |-> [plmn |-> p, id |-> w[i]]]
      BY DEF OfArea, Identity
    <2>2. n \in Nat /\ n = Len(t.ids)
      BY <1>1
    <2> HIDE DEF n
    <2>3. Len(OfArea(p, w)) = n /\ \A i \in 1..n : OfArea(p, w)[i] = [plmn |-> p, id |-> w[i]]
      BY <2>1, <2>2
    <2>4. QED
      BY <1>3, <2>2, <2>3
  <1>5. \A c \in Cells : (\E i \in 1..Len(area.ids) :
            area.ids[i] = [plmn |-> c.plmn, id |-> IF area.alternative = CellIDList THEN c.eci ELSE c.tac])
          <=> c.plmn = p /\ \E x \in ToSet(t.ids) : ParseUint[x] = IdOf(c)
    <2> SUFFICES ASSUME NEW c \in Cells
                 PROVE  (\E i \in 1..Len(area.ids) : area.ids[i] =
                           [plmn |-> c.plmn, id |-> IF area.alternative = CellIDList THEN c.eci ELSE c.tac])
                        <=> c.plmn = p /\ \E x \in ToSet(t.ids) : ParseUint[x] = IdOf(c)
      OBVIOUS
    <2>1. (IF area.alternative = CellIDList THEN c.eci ELSE c.tac) = IdOf(c)
      BY <1>3, ScopesDiffer
    <2> HIDE DEF IdOf
    <2>2. ASSUME NEW i \in 1..Len(t.ids)
          PROVE  area.ids[i] = [plmn |-> c.plmn, id |-> IdOf(c)] <=> c.plmn = p /\ ParseUint[t.ids[i]] = IdOf(c)
      <3>1. area.ids[i] = [plmn |-> p, id |-> w[i]] /\ w[i] = ParseUint[t.ids[i]]
        BY <1>2, <1>4
      <3>2. QED
        BY <3>1, SameIdentity
    <2>3. (\E x \in ToSet(t.ids) : ParseUint[x] = IdOf(c))
          <=> \E i \in 1..Len(t.ids) : ParseUint[t.ids[i]] = IdOf(c)
      BY <1>1 DEF ToSet
    <2>4. QED
      BY <1>4, <2>1, <2>2, <2>3
  <1>6. CellsOf(area) = {c \in Cells : \E i \in 1..Len(area.ids) :
            area.ids[i] = [plmn |-> c.plmn, id |-> IF area.alternative = CellIDList THEN c.eci ELSE c.tac]}
    BY <1>3 DEF CellsOf
  <1>7. Meant(t) = {c \in {d \in Cells : d.plmn = p} : \E x \in ToSet(t.ids) : ParseUint[x] = IdOf(c)}
    BY DEF Meant, p
  <1> HIDE DEF IdOf
  <1>8. QED
    BY <1>5, <1>6, <1>7 DEF area

\* The element of an area, if it has one.
AreaElement(ie, t) ==
    /\ ie.id = WarningAreaList /\ Element(ie)
    /\ ie.value # None => Filled(ie.value) = ie.value /\ DecodeWarningAreaList(ie.value) = DecodedArea(t)

\* buildWarningAreaIE makes an element of an area that is decoded to the numbers of
\* the target; none for the whole PLMN.
LEMMA AreaIsBuilt ==
    ASSUME NoneIsNoFunction, NEW t, Numbered(t), TargetWire(t) # None, PlmnTBCD(PLMN) # None
    PROVE  LET b == BuildWarningAreaIE(t.scope, PlmnTBCD(PLMN), TargetWire(t))
           IN  \/ t.scope = PLMNWide /\ b = <<>>
               \/ /\ t.scope # PLMNWide
                  /\ \E ie : b = <<ie>> /\ AreaElement(ie, t)
  <1> DEFINE p == PlmnTBCD(PLMN)
             w == TargetWire(t)
             b == BuildWarningAreaIE(t.scope, p, w)
  <1>1. IsPlmn(p) /\ NoneIsNoList
    BY PlmnFits, ListsAreFunctions
  <1>2. CASE t.scope = PLMNWide
    <2>1. b = <<>>
      BY <1>2, ScopesDiffer DEF BuildWarningAreaIE
    <2>2. QED
      BY <1>2, <2>1
  <1>3. ASSUME t.scope # PLMNWide, NEW v,
               v = None \/ (v = EncodeWarningAreaList(AlternativeOf(t), p, w) /\ AreaIds(AlternativeOf(t), w))
        PROVE  AreaElement(IE(WarningAreaList, Ignore, v), t)
    <2> DEFINE ie == IE(WarningAreaList, Ignore, v)
               c == EncodeWarningAreaList(AlternativeOf(t), p, w)
    <2>1. ie.id = WarningAreaList /\ ie.criticality = Ignore /\ ie.value = v
      BY IEIs
    <2>2. InRange(0, 65535, WarningAreaList) /\ Ignore \in 0..2
      BY DEF InRange, WarningAreaList, Ignore
    <2>3. AreaIds(AlternativeOf(t), w) =>
            \/ c = None
            \/ Whole(c) /\ Filled(c) = c /\ DecodeWarningAreaList(c) = DecodedArea(t)
      BY <1>1, AreaValuePasses, ScopesDiffer DEF DecodedArea
    <2> HIDE DEF ie, c
    <2>4. v = None \/ (Whole(v) /\ Filled(v) = v /\ DecodeWarningAreaList(v) = DecodedArea(t))
      BY <1>3, <2>3 DEF c
    <2>5. Element(ie)
      BY <2>1, <2>2, <2>4 DEF Element
    <2>6. QED
      BY <2>1, <2>4, <2>5 DEF AreaElement, ie
  <1>4. t.scope # PLMNWide => Listed(w) /\ \A i \in 1..Len(w) : w[i] \in Nat
    BY WireIs DEF Values
  <1>5. CASE t.scope = CellWide
    <2>1. b = <<IE(WarningAreaList, Ignore, EncodeWarningAreaList(CellIDList, p, w))>>
      BY <1>5, ScopesDiffer DEF BuildWarningAreaIE
    <2>2. AlternativeOf(t) = CellIDList /\ t.scope # PLMNWide
      BY <1>5, ScopesDiffer
    <2>3. AreaIds(CellIDList, w)
      BY <1>4, <2>2 DEF AreaIds
    <2>4. QED
      BY <1>3, <2>1, <2>2, <2>3
  <1>6. CASE t.scope = TrackingAreaWide
    <2> DEFINE v == IF \E i \in 1..Len(w) : w[i] > 65535 THEN None ELSE EncodeWarningAreaList(TrackingAreas, p, w)
    <2>1. b = <<IE(WarningAreaList, Ignore, v)>>
      BY <1>6, ScopesDiffer DEF BuildWarningAreaIE
    <2>2. AlternativeOf(t) = TrackingAreas /\ t.scope # PLMNWide
      BY <1>6, ScopesDiffer
    <2>3. (\A i \in 1..Len(w) : ~(w[i] > 65535)) => AreaIds(TrackingAreas, w)
      <3>1. \A n \in Nat : ~(n > 65535) => Fits(n, 16)
        <4>1. 2^16 = 65536
          OBVIOUS
        <4>2. QED
          BY <4>1 DEF Fits
      <3>2. QED
        BY <1>4, <2>2, <3>1 DEF AreaIds
    <2>4. v = None \/ (v = EncodeWarningAreaList(TrackingAreas, p, w) /\ AreaIds(TrackingAreas, w))
      <3> HIDE DEF w, p
      <3>1. QED
        BY <2>3
    <2> HIDE DEF v
    <2>5. QED
      BY <1>3, <2>1, <2>2, <2>4
  <1>7. QED
    BY <1>2, <1>5, <1>6 DEF Numbered

\* The ids of a message are not that of its area.
LEMMA AreaIdDiffers ==
    /\ MessageIdentifier # WarningAreaList /\ SerialNumber # WarningAreaList
    /\ WriteReplaceProcedure # StopProcedure
  BY DEF MessageIdentifier, SerialNumber, WarningAreaList, WriteReplaceProcedure, StopProcedure

\* What is behind the area in a request.
Rest(rest) == Pieces(rest) /\ Len(rest) <= 6 /\ \A i \in 1..Len(rest) : rest[i].id # WarningAreaList

\* The elements of a request.
ElementsOf(m, s, t, rest) ==
    Correlation(m, s) \o BuildWarningAreaIE(t.scope, PlmnTBCD(PLMN), TargetWire(t)) \o rest

\* What can be sent.
Addressed(t) == Numbered(t) /\ TargetWire(t) # None /\ PlmnTBCD(PLMN) # None

\* A request has the identifiers in front, and an area unless it goes to the whole
\* PLMN.
LEMMA RequestElements ==
    ASSUME NoneIsNoFunction, NEW m, Fits(m, 16), NEW s, Fits(s, 16), NEW t, Addressed(t), NEW rest, Rest(rest)
    PROVE  LET ies == ElementsOf(m, s, t, rest)
           IN  /\ Pieces(ies) /\ Len(ies) \in Nat /\ Len(ies) >= 2 /\ Len(ies) <= 100
               /\ ies[1] = OfMessage(m) /\ ies[2] = OfSerial(s)
               /\ \/ t.scope = PLMNWide /\ \A j \in 1..Len(ies) : ies[j].id # WarningAreaList
                  \/ t.scope # PLMNWide /\ 3 \in 1..Len(ies) /\ AreaElement(ies[3], t)
  <1> DEFINE c == Correlation(m, s)
             b == BuildWarningAreaIE(t.scope, PlmnTBCD(PLMN), TargetWire(t))
             ies == (c \o b) \o rest
  <1>1. c = <<OfMessage(m), OfSerial(s)>>
    BY DEF Correlation, OfMessage, OfSerial
  <1>2. /\ Pieces(c) /\ Len(c) = 2 /\ c[1] = OfMessage(m) /\ c[2] = OfSerial(s)
        /\ c[1].id # WarningAreaList /\ c[2].id # WarningAreaList
    <2>1. Fitting(OfMessage(m)) /\ OfMessage(m).id = MessageIdentifier
      BY IdentifierFits, ListsAreFunctions
    <2>2. Fitting(OfSerial(s)) /\ OfSerial(s).id = SerialNumber
      BY IdentifierFits, ListsAreFunctions
    <2>3. QED
      BY <1>1, <2>1, <2>2, TwoFit, AreaIdDiffers
  <1>3. Pieces(rest) /\ Len(rest) \in Nat /\ Len(rest) <= 6
    BY ListLength DEF Rest, Pieces
  <1>4. \/ t.scope = PLMNWide /\ b = <<>>
        \/ /\ t.scope # PLMNWide
           /\ \E ie : b = <<ie>> /\ AreaElement(ie, t)
    BY AreaIsBuilt DEF Addressed
  <1>5. ElementsOf(m, s, t, rest) = ies
    BY DEF ElementsOf
  <1> HIDE DEF c, b
  <1>6. CASE t.scope = PLMNWide /\ b = <<>>
    <2>1. c \o b = c
      BY <1>2, <1>6, JoinNothing DEF Pieces
    <2>2. ies = c \o rest
      BY <2>1
    <2> HIDE DEF ies
    <2> DEFINE k == Len(rest)
    <2>3. /\ Pieces(ies) /\ Len(ies) = Len(c) + k /\ \A i \in 1..Len(c) : ies[i] = c[i]
          /\ \A i \in 1..k : ies[Len(c) + i] = rest[i]
      <3>1. Pieces(c) /\ Pieces(rest)
        BY <1>2, <1>3
      <3>2. QED
        BY <2>2, <3>1, PiecesTogether
    <2>4. k \in Nat /\ k <= 6
      BY <1>3
    <2>5. \A i \in 1..k : rest[i].id # WarningAreaList
      BY DEF Rest
    <2> HIDE DEF k
    <2>6. Len(ies) = 2 + k /\ ies[1] = c[1] /\ ies[2] = c[2] /\ \A i \in 1..k : ies[2 + i] = rest[i]
      BY <1>2, <2>3
    <2>7. \A j \in 1..2 + k : ies[j].id # WarningAreaList
      <3> SUFFICES ASSUME NEW j \in 1..2 + k PROVE ies[j].id # WarningAreaList
        OBVIOUS
      <3>1. CASE j = 1 \/ j = 2
        BY <1>2, <2>6, <3>1
      <3>2. CASE j > 2
        <4>1. j - 2 \in 1..k /\ 2 + (j - 2) = j
          BY <2>4, <3>2
        <4>2. QED
          BY <2>5, <2>6, <4>1
      <3>3. QED
        BY <2>4, <3>1, <3>2
    <2>8. Pieces(ies) /\ Len(ies) \in Nat /\ Len(ies) >= 2 /\ Len(ies) <= 100
      BY <2>3, <2>4, <2>6
    <2>9. QED
      BY <1>2, <1>5, <1>6, <2>6, <2>7, <2>8
  <1>7. ASSUME t.scope # PLMNWide, NEW ie, b = <<ie>>, AreaElement(ie, t)
        PROVE  /\ Pieces(ies) /\ Len(ies) \in Nat /\ Len(ies) >= 2 /\ Len(ies) <= 100
               /\ ies[1] = OfMessage(m) /\ ies[2] = OfSerial(s)
               /\ 3 \in 1..Len(ies) /\ AreaElement(ies[3], t)
    <2> DEFINE h == c \o b
               k == Len(rest)
    <2>1. Pieces(b) /\ Len(b) = 1 /\ b[1] = ie
      BY <1>7, OnePiece DEF AreaElement
    <2>2. /\ Pieces(h) /\ Len(h) = Len(c) + Len(b) /\ \A i \in 1..Len(c) : h[i] = c[i]
          /\ \A i \in 1..Len(b) : h[Len(c) + i] = b[i]
      <3>1. Pieces(c) /\ Pieces(b)
        BY <1>2, <2>1
      <3>2. QED
        BY <3>1, PiecesTogether
    <2> HIDE DEF h
    <2>3. Len(h) = 3 /\ h[1] = c[1] /\ h[2] = c[2] /\ h[3] = ie
      BY <1>2, <2>1, <2>2
    <2>4. ies = h \o rest
      BY DEF h
    <2> HIDE DEF ies
    <2>5. Pieces(ies) /\ Len(ies) = Len(h) + k /\ \A i \in 1..Len(h) : ies[i] = h[i]
      BY <1>3, <2>2, <2>4, PiecesTogether, ZenonT(60)
    <2>6. k \in Nat /\ k <= 6
      BY <1>3
    <2> HIDE DEF k
    <2>7. Len(ies) = 3 + k /\ ies[1] = c[1] /\ ies[2] = c[2] /\ ies[3] = ie
      BY <2>3, <2>5
    <2>8. QED
      BY <1>2, <1>7, <2>5, <2>6, <2>7
  <1>8. QED
    <2> HIDE DEF ies
    <2>1. QED
      BY <1>4, <1>5, <1>6, <1>7

\* What the other end makes of a request.
Request(pdu, procedure, ids, t) ==
    /\ \E ies : Sent(pdu, Initiating, procedure, ies)
    /\ LET r == Understand(pdu)
       IN  r # None /\ r.procedure = procedure /\ r.ids = ids /\ r.cells = Meant(t)

\* A request that is encoded is read as what was asked for.
LEMMA RequestIsRead ==
    ASSUME NoneIsNoFunction, None \notin Nat, NEW m, Fits(m, 16), NEW s, Fits(s, 16), NEW t, Addressed(t),
           NEW rest, Rest(rest), NEW procedure \in {WriteReplaceProcedure, StopProcedure},
           NEW pdu, pdu = EncodePDU(Initiating, procedure, Reject, ElementsOf(m, s, t, rest)), pdu # None
    PROVE  Request(pdu, procedure, <<m, s>>, t)
  <1> DEFINE ies == ElementsOf(m, s, t, rest)
             all == AllReceived(ies)
             d == [choice |-> Initiating, procedure |-> procedure, ies |-> all]
  <1>1. /\ Pieces(ies) /\ Len(ies) \in Nat /\ Len(ies) >= 2 /\ Len(ies) <= 100
        /\ ies[1] = OfMessage(m) /\ ies[2] = OfSerial(s)
        /\ \/ t.scope = PLMNWide /\ \A j \in 1..Len(ies) : ies[j].id # WarningAreaList
           \/ t.scope # PLMNWide /\ 3 \in 1..Len(ies) /\ AreaElement(ies[3], t)
    BY RequestElements
  <1>2. pdu = EncodePDU(Initiating, procedure, Reject, ies)
    OBVIOUS
  <1> HIDE DEF ies
  <1>3. Sent(pdu, Initiating, procedure, ies)
    BY <1>1, <1>2, FewElements, Headings DEF Sent
  <1>4. DecodePDU(pdu) = d
    BY <1>3, SentIsRead
  <1>5. CorrelationOf(d, Initiating) = <<m, s>>
    BY <1>1, CorrelationFound
  <1>6. \A k \in 1..Len(ies) : ies[k].value # None
    BY <1>1, <1>2, NoPduWithNone
  <1> HIDE DEF all
  <1>7. d.ies = all /\ d.procedure = procedure /\ d # None
    BY RecordsAreFunctions
  <1> HIDE DEF d
  <1> DEFINE area == FindIE(all, WarningAreaList)
             decoded == IF area = None THEN None ELSE DecodeWarningAreaList(area)
  <1>8. CellsOf(decoded) = Meant(t)
    <2>1. CASE t.scope = PLMNWide /\ \A j \in 1..Len(ies) : ies[j].id # WarningAreaList
      <3>1. area = None
        BY <1>1, <2>1, NoneFound DEF all
      <3> HIDE DEF area
      <3>2. QED
        BY <2>1, <3>1 DEF CellsOf, Meant
    <2>2. CASE t.scope # PLMNWide /\ 3 \in 1..Len(ies) /\ AreaElement(ies[3], t)
      <3>1. ies[3].id = WarningAreaList /\ ies[3].value # None
        BY <1>6, <2>2 DEF AreaElement
      <3>2. \A j \in 1..Len(ies) : j < 3 => ies[j].id # WarningAreaList
        <4>1. ies[1].id = MessageIdentifier /\ ies[2].id = SerialNumber
          BY <1>1, IdentifierFits, ListsAreFunctions
        <4>2. QED
          BY <1>1, <4>1, AreaIdDiffers
      <3>3. area = Filled(ies[3].value)
        BY <1>1, <2>2, <3>1, <3>2, FoundFirst DEF all
      <3> HIDE DEF area
      <3>4. area = ies[3].value /\ DecodeWarningAreaList(area) = DecodedArea(t)
        BY <2>2, <3>1, <3>3 DEF AreaElement
      <3>5. decoded = DecodedArea(t)
        BY <3>1, <3>4
      <3>6. QED
        BY <2>2, <3>5, AreaMeans DEF Addressed
    <2>3. QED
      BY <1>1, <2>1, <2>2
  <1> DEFINE ids == <<m, s>>
             content == FindIE(all, WarningMessageContent)
             text == IF content = None THEN None
                     ELSE TextOf(Decode8(FindIE(all, DataCodingScheme)), DecodeWarningMessageContent(content))
             r == [procedure |-> procedure, ids |-> ids, cells |-> CellsOf(decoded), text |-> text]
  <1>9. Understand(pdu) = RequestOf(d, ids)
    BY <1>4, <1>5 DEF Understand, RequestIDs
  <1>10. ids # None
    BY RecordsAreFunctions
  <1>11. RequestOf(d, ids) = r
    <2> HIDE DEF ids
    <2>1. \A id : ValueOf(d, id) = FindIE(all, id)
      BY <1>7 DEF ValueOf
    <2>2. QED
      BY <1>7, <1>10, <2>1 DEF RequestOf
  <1> HIDE DEF decoded, text
  <1>12. r # None /\ r.procedure = procedure /\ r.ids = ids /\ r.cells = CellsOf(decoded)
    BY DEF NoneIsNoFunction
  <1> HIDE DEF r
  <1>13. QED
    BY <1>3, <1>8, <1>9, <1>11, <1>12 DEF Request

\* A message as it is prepared, or what is left of its target.
Sendable(m) ==
    Fits(m.messageID, 16) /\ Fits(m.serial, 16) /\ Paged(m.content) /\ Numbered(m.target)

\* The ids of the other elements of a request.
LEMMA RestIds ==
    /\ \A id \in {RepetitionPeriod, NumberOfBroadcasts, DataCodingScheme, WarningMessageContent,
                  ConcurrentIndicator, SendIndication} : InRange(0, 65535, id) /\ id # WarningAreaList
    /\ Ignore \in 0..2 /\ Reject \in 0..2
  BY DEF InRange, RepetitionPeriod, NumberOfBroadcasts, DataCodingScheme, WarningMessageContent,
         ConcurrentIndicator, SendIndication, WarningAreaList, Ignore, Reject

\* An element with one of these ids.
Other(ie) == Element(ie) /\ ie.id # WarningAreaList

\* Each of the other elements of a request is one.
LEMMA OtherIs ==
    ASSUME NEW id \in {RepetitionPeriod, NumberOfBroadcasts, DataCodingScheme, WarningMessageContent,
                       ConcurrentIndicator, SendIndication},
           NEW criticality \in 0..2, NEW v, v = None \/ Whole(v)
    PROVE  Other(IE(id, criticality, v))
  BY RestIds, IEIs DEF Other, Element

\* Six of them, one after the other.
LEMMA SixAreRest ==
    ASSUME NEW a, Other(a), NEW b, Other(b), NEW c, Other(c), NEW d, Other(d), NEW e, Other(e), NEW f, Other(f)
    PROVE  Rest(<<a, b, c, d, e, f>>)
  <1> DEFINE s == <<a, b, c, d, e, f>>
  <1>1. s \in Seq({a, b, c, d, e, f}) /\ Len(s) = 6
    OBVIOUS
  <1>2. s[1] = a /\ s[2] = b /\ s[3] = c /\ s[4] = d /\ s[5] = e /\ s[6] = f
    OBVIOUS
  <1> HIDE DEF s
  <1>3. \A i \in 1..6 : Other(s[i])
    <2> SUFFICES ASSUME NEW i \in 1..6 PROVE Other(s[i])
      OBVIOUS
    <2>1. i = 1 \/ i = 2 \/ i = 3 \/ i = 4 \/ i = 5 \/ i = 6
      OBVIOUS
    <2>2. QED
      BY <1>2, <2>1
  <1>4. Listed(s)
    BY <1>1, ListsAre
  <1>5. Rest(s)
    BY <1>1, <1>3, <1>4 DEF Rest, Pieces, Other
  <1>6. QED
    BY <1>5 DEF s

\* There may be nothing behind the area.
LEMMA NothingIsRest ==
    Rest(<<>>)
  <1>1. Listed(<<>>) /\ Len(<<>>) = 0
    BY NothingGot
  <1>2. QED
    BY <1>1 DEF Rest, Pieces

\* The configured repetition period and number of broadcasts are numbers.
LEMMA Configured ==
    Period \in Nat /\ Broadcasts \in Nat
  BY NumbersAssumption

\* A Write-Replace request is understood.
LEMMA WriteReplaceIsRead ==
    ASSUME NoneIsNoFunction, None \notin Nat, NEW m, Sendable(m), SBcAPWriteReplace(m) # None
    PROVE  Request(SBcAPWriteReplace(m), WriteReplaceProcedure, <<m.messageID, m.serial>>, m.target)
  <1> DEFINE t == m.target
             data == Octets(Contents(m.content))
             dcs == m.content.dcs
             a == IE(RepetitionPeriod, Reject, EncodeConstrainedInt(0, 4096, Period))
             b == IE(NumberOfBroadcasts, Reject, EncodeConstrainedInt(0, 65535, Broadcasts))
             c == IE(DataCodingScheme, Ignore, Bits(dcs, 8))
             d == IE(WarningMessageContent, Ignore, EncodeWarningMessageContent(data))
             e == IE(ConcurrentIndicator, Reject, <<>>)
             f == IE(SendIndication, Ignore, <<>>)
             rest == <<a, b, c, d, e, f>>
  <1>0. NoneIsNoList
    BY ListsAreFunctions
  <1>1. Addressed(t)
    BY DEF SBcAPWriteReplace, Addressed, Sendable
  <1>2. SBcAPWriteReplace(m) = EncodePDU(Initiating, WriteReplaceProcedure, Reject,
                                         ElementsOf(m.messageID, m.serial, t, rest))
    <2> DEFINE p == PlmnTBCD(PLMN)
               w == TargetWire(t)
               pdu == WriteReplaceTarget(m.messageID, m.serial, dcs, data, Period, Broadcasts, t.scope, p, w)
    <2>1. SBcAPWriteReplace(m) = pdu
      BY DEF SBcAPWriteReplace
    <2>2. pdu # None
      BY <2>1
    <2> HIDE DEF p, w, data, dcs, t
    <2>3. pdu = EncodePDU(Initiating, WriteReplaceProcedure, Reject,
                          Correlation(m.messageID, m.serial) \o BuildWarningAreaIE(t.scope, p, w) \o rest)
      BY <2>2 DEF WriteReplaceTarget
    <2> HIDE DEF pdu, rest
    <2>4. QED
      BY <2>1, <2>3 DEF ElementsOf, p, w
  <1>3. Other(a) /\ Other(b)
    <2>1. UpperBound(4096) /\ UpperBound(65535)
      BY DEF UpperBound
    <2>2. Period \in Nat /\ Broadcasts \in Nat
      BY Configured
    <2>3. EncodeConstrainedInt(0, 4096, Period) = None \/ Whole(EncodeConstrainedInt(0, 4096, Period))
      BY <1>0, <2>1, <2>2, NumberIsWhole
    <2>4. EncodeConstrainedInt(0, 65535, Broadcasts) = None \/ Whole(EncodeConstrainedInt(0, 65535, Broadcasts))
      BY <1>0, <2>1, <2>2, NumberIsWhole
    <2>5. QED
      BY <2>3, <2>4, OtherIs, RestIds
  <1>4. Other(c)
    <2>1. dcs \in Nat /\ 8 \in {8, 16}
      BY DEF Sendable, Paged
    <2>2. Whole(Bits(dcs, 8))
      BY <2>1, OctetOrTwo
    <2>3. QED
      BY <2>2, OtherIs, RestIds
  <1>5. Other(d)
    <2>1. Whole(data)
      BY ContentsWhole DEF Sendable
    <2> HIDE DEF data
    <2>2. EncodeWarningMessageContent(data) = None \/ Whole(EncodeWarningMessageContent(data))
      BY <1>0, <2>1, TextIsWhole
    <2>3. QED
      BY <2>2, OtherIs, RestIds
  <1>6. Other(e) /\ Other(f)
    <2>1. Whole(<<>>)
      BY NothingGot DEF Whole
    <2>2. QED
      BY <2>1, OtherIs, RestIds
  <1> HIDE DEF a, b, c, d, e, f
  <1>7. Rest(rest)
    BY <1>3, <1>4, <1>5, <1>6, SixAreRest
  <1> HIDE DEF rest, t
  <1>8. Fits(m.messageID, 16) /\ Fits(m.serial, 16)
    BY DEF Sendable
  <1>9. Request(SBcAPWriteReplace(m), WriteReplaceProcedure, <<m.messageID, m.serial>>, t)
    BY <1>1, <1>2, <1>7, <1>8, RequestIsRead
  <1>10. QED
    BY <1>9 DEF t

\* So is a Stop.
LEMMA StopIsRead ==
    ASSUME NoneIsNoFunction, None \notin Nat, NEW m, Sendable(m), SBcAPStop(m) # None
    PROVE  Request(SBcAPStop(m), StopProcedure, <<m.messageID, m.serial>>, m.target)
  <1> DEFINE t == m.target
             head == Correlation(m.messageID, m.serial)
             area == BuildWarningAreaIE(t.scope, PlmnTBCD(PLMN), TargetWire(t))
  <1>1. Addressed(t)
    BY DEF SBcAPStop, Addressed, Sendable
  <1>2. SBcAPStop(m) = EncodePDU(Initiating, StopProcedure, Reject, head \o area)
    BY DEF SBcAPStop, StopTarget
  <1>3. Listed(head \o area)
    <2>1. Listed(head)
      BY TwoFit, IdentifierFits, ListsAreFunctions DEF Sendable, Correlation, Pieces, OfMessage, OfSerial
    <2>2. Listed(area)
      <3>1. area = <<>> \/ \E ie : area = <<ie>>
        BY <1>1, AreaIsBuilt DEF Addressed
      <3> HIDE DEF area
      <3>2. QED
        BY <3>1, OneListed, NothingGot
    <2>3. QED
      BY <2>1, <2>2, Joined
  <1> HIDE DEF head, area
  <1>4. (head \o area) \o <<>> = head \o area
    BY <1>3, JoinNothing
  <1>5. ElementsOf(m.messageID, m.serial, t, <<>>) = (head \o area) \o <<>>
    BY DEF ElementsOf, head, area
  <1> HIDE DEF t
  <1> DEFINE rest == <<>>
  <1>6. Rest(rest)
    BY NothingIsRest
  <1>7. SBcAPStop(m) = EncodePDU(Initiating, StopProcedure, Reject, ElementsOf(m.messageID, m.serial, t, rest))
    BY <1>2, <1>4, <1>5
  <1> HIDE DEF rest
  <1>8. Fits(m.messageID, 16) /\ Fits(m.serial, 16)
    BY DEF Sendable
  <1>9. Request(SBcAPStop(m), StopProcedure, <<m.messageID, m.serial>>, t)
    BY <1>1, <1>6, <1>7, <1>8, RequestIsRead
  <1>10. QED
    BY <1>9 DEF t

-----------------------------------------------------------------------------
(* Messages that can be sent *)

\* The eNBs of a scenario can tell of themselves.
LEMMA EnbsServe ==
    ASSUME scenario \in Scenarios, NEW e \in scenario.enbs
    PROVE  Serving(e)
  <1>1. /\ e.plmn \in Seq(ToSet(e.plmn)) /\ Len(e.plmn) = 24
        /\ e.kind \in DOMAIN EnbKinds /\ e.value \in Nat /\ e.value < 2^EnbKinds[e.kind]
        /\ Len(e.cells) >= 1 /\ Len(e.cells) <= MaxRestartedCells
        /\ \A c \in ToSet(e.cells) : c.eci < 2^28
    BY WireAssumption
  <1>2. e.cells \in Seq([plmn : {e.plmn}, eci : Nat, tac : TACs])
    BY ScenariosAssumption
  <1>3. FittingEnb(e)
    <2>1. IsPlmn(e.plmn)
      BY <1>1 DEF IsPlmn, OfOctets, Listed
    <2>2. e.kind \in {"macro", "home", "shortMacro", "longMacro"}
      BY <1>1 DEF EnbKinds
    <2>3. EnbKinds[e.kind] \in 0..28
      BY <2>2 DEF EnbKinds
    <2>4. QED
      BY <1>1, <2>1, <2>2, <2>3 DEF FittingEnb, Fits
  <1>4. Listed(e.cells)
    BY <1>2, ListsAre
  <1>5. InRange(1, 256, Len(e.cells))
    <2>1. Len(e.cells) \in Nat /\ MaxRestartedCells = 256
      BY <1>2 DEF MaxRestartedCells
    <2>2. QED
      BY <1>1, <2>1 DEF InRange
  <1>6. ASSUME NEW i \in 1..Len(e.cells) PROVE ServedCell(e, e.cells[i])
    <2> DEFINE R == [plmn : {e.plmn}, eci : Nat, tac : TACs]
               c == e.cells[i]
    <2>1. c \in R
      <3>1. e.cells \in Seq(R)
        BY <1>2
      <3> HIDE DEF R
      <3>2. QED
        BY <3>1, MemberOf
    <2>2. c.plmn = e.plmn /\ c.eci \in Nat /\ c.tac \in TACs
      BY <2>1
    <2>3. c \in ToSet(e.cells)
      BY <1>2 DEF ToSet
    <2> HIDE DEF c
    <2>4. c.eci < 2^28
      BY <1>1, <2>3
    <2>5. Fits(c.eci, 28)
      BY <2>2, <2>4 DEF Fits
    <2>6. Fits(c.tac, 16)
      <3> DEFINE v == c.tac
      <3>1. v \in TACs
        BY <2>2, SMTT(30)
      <3> HIDE DEF v
      <3>2. Fits(v, 16)
        <4>1. v \in Nat /\ v <= 65535
          BY <3>1, TacIs
        <4>2. QED
          BY <4>1 DEF Fits
      <3>3. QED
        BY <3>2 DEF v
    <2>7. QED
      BY <2>2, <2>4, <2>5, <2>6 DEF ServedCell, c
  <1>7. QED
    BY <1>3, <1>4, <1>5, <1>6 DEF Serving

\* The built-in identifiers fit, whatever the label.
LEMMA AtisFits == \A label : Fits(Atis(label), 16)
  <1> SUFFICES ASSUME NEW label PROVE Fits(Atis(label), 16)
    OBVIOUS
  <1> DEFINE n == Atis(label)
  <1>1. n \in 4370..4398
    BY DEF Atis
  <1> HIDE DEF n
  <1>2. Fits(n, 16)
    BY <1>1 DEF Fits
  <1>3. QED
    BY <1>2 DEF n

\* A message identifier fits into its sixteen bits.
LEMMA IdentifierFits16 ==
    ASSUME NEW info
    PROVE  Fits(MessageIdentifierOf(info), 16)
  <1>1. Fits(DefaultMessageIdentifier, 16)
    BY NumbersAssumption DEF Fits
  <1>2. \A label \in DOMAIN Overrides : Fits(Overrides[label], 16)
    BY NumbersAssumption DEF Fits
  <1>3. QED
    BY <1>1, <1>2, AtisFits, Zenon DEF MessageIdentifierOf

\* Texts that stand for numbers, or for none.
LEMMA NumberedTexts ==
    ASSUME NEW t, t.scope \in {PLMNWide, TrackingAreaWide, CellWide},
           NEW T, t.ids \in Seq(T), \A x \in T : ParseUint[x] \in Nat \cup {None}
    PROVE  Numbered(t)
  <1>1. Listed(t.ids)
    BY ListsAre
  <1>2. \A i \in 1..Len(t.ids) : t.ids[i] \in T
    OBVIOUS
  <1>3. QED
    BY <1>1, <1>2 DEF Numbered

\* A row that is stored keeps its cell identity.
LEMMA StoredKeeps ==
    ASSUME NEW row, "eci" \in DOMAIN row
    PROVE  Stored(row).cell.eci = row.eci
  <1>1. CASE row.coverage = <<>>
    BY <1>1 DEF Stored
  <1>2. CASE row.coverage # <<>>
    <2> DEFINE g == ParseGeometry(row.coverage)
               box == Bounds(g)
               shape == MarshalCanonical(g)
    <2>1. Stored(row) = [cell |-> [row EXCEPT !.coverage = shape], box |-> box]
      BY <1>2 DEF Stored
    <2> HIDE DEF g, box, shape
    <2>2. QED
      BY <2>1
  <1>3. QED
    BY <1>1, <1>2

\* A message that is prepared and not refused can be sent.
LEMMA PreparedIsSendable ==
    ASSUME scenario \in Scenarios, NEW d \in scenario.drafts,
           Prepared(d).target # None, Prepared(d).content # None
    PROVE  Sendable(Prepared(d))
  <1> DEFINE m == Prepared(d)
  <1>1. /\ m.messageID = MessageIdentifierOf(d.info) /\ m.serial = d.serial
        /\ m.content = Encode(d.text, d.dcs) /\ m.target = TargetOf(Inventory, d)
    BY DEF Prepared
  <1>2. m.target # None /\ m.content # None
    OBVIOUS
  <1> HIDE DEF m
  <1>3. /\ d.serial \in Nat /\ d.serial < 2^16 /\ d.dcs \in Nat
        /\ d.text \in Seq(ToSet(d.text)) /\ \A c \in ToSet(d.text) : c.gsm \in Seq(ToSet(c.gsm))
        /\ ToSet(d.cells) \cup ToSet(d.tais) \subseteq DOMAIN ParseUint
    BY WireAssumption
  <1>4. Fits(m.messageID, 16) /\ Fits(m.serial, 16)
    BY <1>1, <1>3, IdentifierFits16 DEF Fits
  <1>5. Paged(m.content)
    <2>1. \A i \in 1..Len(d.text) : d.text[i] \in ToSet(d.text)
      BY <1>3 DEF ToSet
    <2>2. Readable(d.text)
      BY <1>3, <2>1 DEF Readable, Listed
    <2>3. QED
      BY <1>1, <1>2, <1>3, <2>2, EncodedPaged
  <1>6. Texts(Inventory, d) \subseteq DOMAIN ParseUint
    <2>1. \A r \in Inventory : \E row \in scenario.inventory : r = Stored(row)
      BY DEF Inventory
    <2>2. \A row \in scenario.inventory : "eci" \in DOMAIN row /\ FormatUint(row.eci) \in DOMAIN ParseUint
      BY WireAssumption
    <2>3. \A r \in Inventory : FormatUint(r.cell.eci) \in DOMAIN ParseUint
      BY <2>1, <2>2, StoredKeeps
    <2>4. QED
      BY <1>3, <2>3 DEF Texts
  <1>7. Targeted(m.target) /\ m.target.ids \in Seq(Texts(Inventory, d))
    <2>1. \A list \in {d.cells, d.tais, d.polygons} : list \in Seq(ToSet(list))
      BY ScenariosAssumption
    <2>2. IsFiniteSet(Inventory)
      BY InventoryIsFinite
    <2>3. QED
      BY <1>1, <1>2, <2>1, <2>2, TargetOfIs
  <1>8. \A x \in Texts(Inventory, d) : ParseUint[x] \in Nat \cup {None}
    BY <1>6, NumbersAssumption
  <1>9. Numbered(m.target)
    BY <1>7, <1>8, NumberedTexts DEF Targeted
  <1>10. QED
    BY <1>4, <1>5, <1>9 DEF Sendable, m

\* A message can still be sent when its target is narrowed.
LEMMA NarrowedIsSendable ==
    ASSUME NEW d, NEW m, m = Prepared(d), Sendable(m), NEW ecis, NEW tacs
    PROVE  Sendable([m EXCEPT !.target = NarrowTargetToRestart(@, ecis, tacs)])
  <1> DEFINE t == m.target
             n == NarrowTargetToRestart(t, ecis, tacs)
             part == [m EXCEPT !.target = n]
  <1>1. /\ part.target = n /\ part.messageID = m.messageID
        /\ part.serial = m.serial /\ part.content = m.content
    <2> HIDE DEF n
    <2>1. QED
      BY DEF Prepared
  <1>2. n.scope = t.scope /\ (n.ids = <<>> \/ \E S : n.ids = Those(t.ids, S))
    <2> DEFINE Restarted(v) == IF t.scope = CellWide THEN v \in ecis ELSE Uint16(v) \in tacs
               overlap == {x \in ToSet(t.ids) : ParseUint[x] # None /\ Restarted(ParseUint[x])}
    <2>1. n = [scope |-> t.scope, ids |-> IF t.scope = PLMNWide THEN <<>> ELSE Those(t.ids, overlap)]
      BY DEF NarrowTargetToRestart
    <2> HIDE DEF n, overlap
    <2>2. QED
      BY <2>1
  <1> HIDE DEF part, n
  <1>3. Listed(t.ids) /\ t.scope \in {PLMNWide, TrackingAreaWide, CellWide}
    BY DEF Sendable, Numbered
  <1> DEFINE T == ToSet(t.ids)
  <1>4. \A x \in T : ParseUint[x] \in Nat \cup {None}
    <2>1. DOMAIN t.ids = 1..Len(t.ids)
      BY <1>3 DEF Listed
    <2>2. \A i \in 1..Len(t.ids) : ParseUint[t.ids[i]] \in Nat \cup {None}
      BY DEF Sendable, Numbered
    <2>3. QED
      BY <2>1, <2>2 DEF ToSet
  <1>5. n.ids \in Seq(T)
    <2>1. t.ids \in Seq(T)
      BY <1>3 DEF Listed
    <2> HIDE DEF T
    <2>2. \A S : Those(t.ids, S) \in Seq(T)
      BY <2>1, ThoseAre
    <2>3. <<>> \in Seq(T)
      OBVIOUS
    <2>4. QED
      BY <1>2, <2>2, <2>3
  <1>6. Numbered(n)
    BY <1>2, <1>3, <1>4, <1>5, NumberedTexts
  <1>7. Sendable(part)
    BY <1>1, <1>6 DEF Sendable
  <1>8. QED
    BY <1>7 DEF part, n

-----------------------------------------------------------------------------
(* Everything that is sent is understood *)

\* What can be sent, and what it is for.
ActiveSendable == \A m \in active : Sendable(m) /\ \E d \in scenario.drafts : m = Prepared(d)
TodoSendable == \A t \in todo : Sendable(t)

\* The request on its way is the job's, and is read as such.
Asking ==
    /\ job # NoJob => Sendable(job.message)
    /\ job.origin = "publish" => job # NoJob /\ \E d \in scenario.drafts : job.message = Prepared(d)
    /\ request # None =>
         /\ job # NoJob /\ job.procedure \in {WriteReplaceProcedure, StopProcedure}
         /\ Request(request, job.procedure, <<job.message.messageID, job.message.serial>>, job.message.target)

\* What is on its way back is read for what was meant.
InboxTold == Listed(inbox) /\ \A i \in 1..Len(inbox) : Told(inbox[i])

SentInv ==
    scenario \in Scenarios /\ ActiveSendable /\ TodoSendable /\ Asking /\ InboxTold

\* The scenario stays, and with it what a request is read as.
LEMMA RequestKept ==
    ASSUME scenario' = scenario
    PROVE  \A pdu, procedure, ids, t : Request(pdu, procedure, ids, t)' <=> Request(pdu, procedure, ids, t)
  <1>1. Cells' = Cells /\ \A t : Meant(t)' = Meant(t)
    BY ScenarioKept
  <1>2. \A area : CellsOf(area)' = CellsOf(area)
    BY <1>1 DEF CellsOf
  <1>3. \A d, ids : RequestOf(d, ids)' = RequestOf(d, ids)
    BY <1>2 DEF RequestOf
  <1>4. \A pdu : Understand(pdu)' = Understand(pdu)
    BY <1>3 DEF Understand
  <1>5. QED
    BY <1>1, <1>4 DEF Request

\* A request waits, or arrives.
LEMMA AskingKept ==
    ASSUME Asking, UNCHANGED <<scenario, job>>, request' \in {None, request}
    PROVE  Asking'
  <1>1. \A d : Prepared(d)' = Prepared(d)
    BY ScenarioKept
  <1>2. \A pdu, procedure, ids, t : Request(pdu, procedure, ids, t)' <=> Request(pdu, procedure, ids, t)
    BY RequestKept
  <1>3. QED
    BY <1>1, <1>2 DEF Asking

\* A job ends.
LEMMA NothingAsked ==
    ASSUME job' = NoJob, request' = None
    PROVE  Asking'
  <1>1. job'.origin = "none"
    BY DEF NoJob
  <1>2. QED
    BY <1>1 DEF Asking

\* A request is sent.
LEMMA NewlyAsked ==
    ASSUME scenario' = scenario, NEW procedure \in {WriteReplaceProcedure, StopProcedure}, NEW m, Sendable(m),
           NEW origin, origin # "none", origin = "publish" => \E d \in scenario.drafts : m = Prepared(d),
           NEW pdu, Request(pdu, procedure, <<m.messageID, m.serial>>, m.target),
           job' = [procedure |-> procedure, message |-> m, origin |-> origin], request' = pdu
    PROVE  Asking'
  <1>1. job'.procedure = procedure /\ job'.message = m /\ job'.origin = origin
    OBVIOUS
  <1>2. job' # NoJob
    BY <1>1 DEF NoJob
  <1>3. \A d : Prepared(d)' = Prepared(d)
    BY ScenarioKept
  <1>4. Request(pdu, procedure, <<m.messageID, m.serial>>, m.target)'
    BY RequestKept
  <1>5. QED
    BY <1>1, <1>2, <1>3, <1>4 DEF Asking

\* The scenario and the active alerts stay.
LEMMA ActiveKept ==
    ASSUME ActiveSendable, scenario' = scenario, active' \subseteq active
    PROVE  ActiveSendable'
  BY ScenarioKept DEF ActiveSendable

\* One more that is told may be on the way.
LEMMA OneMoreTold ==
    ASSUME InboxTold, NEW x, Told(x), inbox' = Append(inbox, x)
    PROVE  InboxTold'
  <1> DEFINE new == Append(inbox, x)
  <1>1. /\ Listed(new) /\ Len(inbox) \in Nat /\ Len(new) = Len(inbox) + 1
        /\ new[Len(inbox) + 1] = x /\ \A i \in 1..Len(inbox) : new[i] = inbox[i]
    BY OneMore DEF InboxTold, Listed
  <1> HIDE DEF new
  <1>2. \A i \in 1..Len(new) : i = Len(inbox) + 1 \/ i \in 1..Len(inbox)
    BY <1>1
  <1>3. Listed(new) /\ \A i \in 1..Len(new) : Told(new[i])
    BY <1>1, <1>2 DEF InboxTold
  <1>4. inbox' = new
    BY DEF new
  <1>5. QED
    BY <1>3, <1>4, Zenon DEF InboxTold

\* So may two.
LEMMA TwoMoreTold ==
    ASSUME InboxTold, NEW x, Told(x), NEW y, Told(y), inbox' = inbox \o <<x, y>>
    PROVE  InboxTold'
  <1> DEFINE new == inbox \o <<x, y>>
  <1>1. /\ Listed(new) /\ Len(inbox) \in Nat /\ Len(new) = Len(inbox) + 2
        /\ new[Len(inbox) + 1] = x /\ new[Len(inbox) + 2] = y /\ \A i \in 1..Len(inbox) : new[i] = inbox[i]
    BY TwoMore DEF InboxTold, Listed
  <1> HIDE DEF new
  <1>2. \A i \in 1..Len(new) : i = Len(inbox) + 1 \/ i = Len(inbox) + 2 \/ i \in 1..Len(inbox)
    BY <1>1
  <1>3. Listed(new) /\ \A i \in 1..Len(new) : Told(new[i])
    BY <1>1, <1>2 DEF InboxTold
  <1>4. inbox' = new
    BY DEF new
  <1>5. QED
    BY <1>3, <1>4, Zenon DEF InboxTold

\* One less.
LEMMA OneLessTold ==
    ASSUME InboxTold, inbox # <<>>, inbox' = Tail(inbox)
    PROVE  InboxTold' /\ Told(inbox[1])
  <1> DEFINE new == Tail(inbox)
  <1>1. /\ Listed(new) /\ Len(inbox) \in Nat \ {0} /\ Len(new) = Len(inbox) - 1
        /\ \A i \in 1..Len(new) : new[i] = inbox[i + 1]
    BY OneLess DEF InboxTold, Listed
  <1> HIDE DEF new
  <1>2. 1 \in 1..Len(inbox) /\ \A i \in 1..Len(new) : i + 1 \in 1..Len(inbox)
    BY <1>1
  <1>3. Listed(new) /\ \A i \in 1..Len(new) : Told(new[i])
    BY <1>1, <1>2 DEF InboxTold
  <1>4. inbox' = new
    BY DEF new
  <1>5. InboxTold'
    BY <1>3, <1>4, Zenon DEF InboxTold
  <1>6. QED
    BY <1>2, <1>5 DEF InboxTold

-----------------------------------------------------------------------------
(* Steps *)

\* What the request at hand asks for can be answered.
LEMMA RequestIsAsked ==
    ASSUME SentInv, request # None
    PROVE  Asked(Understand(request))
  <1> DEFINE r == Understand(request)
             m == job.message
  <1>1. job # NoJob /\ job.procedure \in {WriteReplaceProcedure, StopProcedure} /\ Sendable(m)
    BY DEF SentInv, Asking
  <1>2. r.procedure = job.procedure /\ r.ids = <<m.messageID, m.serial>>
    BY DEF SentInv, Asking, Request
  <1> HIDE DEF r, m
  <1>3. Asked(r)
    BY <1>1, <1>2 DEF Asked, Sendable
  <1>4. QED
    BY <1>3 DEF r

\* Nothing is sent at the start.
LEMMA SentStart == Init => SentInv
  <1> SUFFICES ASSUME Init PROVE SentInv
    OBVIOUS
  <1>1. job = NoJob /\ request = None /\ job.origin = "none"
    BY DEF Init, NoJob
  <1>2. Asking
    BY <1>1 DEF Asking
  <1>3. InboxTold
    <2>1. Listed(<<>>) /\ Len(<<>>) = 0
      BY NothingGot
    <2>2. inbox = <<>>
      BY DEF Init
    <2>3. QED
      BY <2>1, <2>2 DEF InboxTold
  <1>4. QED
    BY <1>2, <1>3 DEF Init, SentInv, ActiveSendable, TodoSendable

\* An alert is broadcast.
LEMMA PublishSent ==
    ASSUME NoneIsNoFunction, SentInv, NEW d \in scenario.drafts, Publish(d)
    PROVE  SentInv'
  <1> DEFINE m == Prepared(d)
             pdu == SBcAPWriteReplace(m)
  <1>1. /\ m.target # None /\ m.content # None /\ pdu # None
        /\ job' = [procedure |-> WriteReplaceProcedure, message |-> m, origin |-> "publish"] /\ request' = pdu
        /\ UNCHANGED <<scenario, active, todo, inbox, air, events, unserved>>
    BY DEF Publish, Submit, Send
  <1>2. Sendable(m)
    BY <1>1, PreparedIsSendable DEF SentInv
  <1>3. \E x \in scenario.drafts : m = Prepared(x)
    OBVIOUS
  <1> HIDE DEF m
  <1>4. Request(pdu, WriteReplaceProcedure, <<m.messageID, m.serial>>, m.target)
    BY <1>1, <1>2, WriteReplaceIsRead, ScenariosAssumption
  <1> HIDE DEF pdu
  <1>5. Asking'
    <2> DEFINE origin == "publish"
    <2>1. origin # "none" /\ WriteReplaceProcedure \in {WriteReplaceProcedure, StopProcedure}
      OBVIOUS
    <2>2. job' = [procedure |-> WriteReplaceProcedure, message |-> m, origin |-> origin]
      BY <1>1
    <2> HIDE DEF origin
    <2>3. QED
      BY <1>1, <1>2, <1>3, <1>4, <2>1, <2>2, NewlyAsked
  <1>6. ActiveSendable'
    BY <1>1, ActiveKept DEF SentInv
  <1>7. QED
    BY <1>1, <1>5, <1>6 DEF SentInv, TodoSendable, InboxTold

\* An alert is cancelled.
LEMMA CancelSent ==
    ASSUME NoneIsNoFunction, SentInv, NEW m \in active, Cancel(m)
    PROVE  SentInv'
  <1> DEFINE pdu == SBcAPStop(m)
  <1>1. /\ pdu # None
        /\ job' = [procedure |-> StopProcedure, message |-> m, origin |-> "cancel"] /\ request' = pdu
        /\ UNCHANGED <<scenario, active, todo, inbox, air, events, unserved>>
    BY DEF Cancel, Send
  <1>2. Sendable(m)
    BY DEF SentInv, ActiveSendable
  <1>3. Request(pdu, StopProcedure, <<m.messageID, m.serial>>, m.target)
    BY <1>1, <1>2, StopIsRead, ScenariosAssumption
  <1> HIDE DEF pdu
  <1>4. Asking'
    <2> DEFINE origin == "cancel"
    <2>1. origin # "none" /\ origin # "publish" /\ StopProcedure \in {WriteReplaceProcedure, StopProcedure}
      OBVIOUS
    <2>2. job' = [procedure |-> StopProcedure, message |-> m, origin |-> origin]
      BY <1>1
    <2> HIDE DEF origin
    <2>3. QED
      BY <1>1, <1>2, <1>3, <2>1, <2>2, NewlyAsked
  <1>5. ActiveSendable'
    BY <1>1, ActiveKept DEF SentInv
  <1>6. QED
    BY <1>1, <1>4, <1>5 DEF SentInv, TodoSendable, InboxTold

\* A message is sent again.
LEMMA RebroadcastSent ==
    ASSUME NoneIsNoFunction, SentInv, NEW m \in todo, Rebroadcast(m)
    PROVE  SentInv'
  <1> DEFINE pdu == SBcAPWriteReplace(m)
  <1>1. /\ pdu # None /\ todo' = todo \ {m}
        /\ job' = [procedure |-> WriteReplaceProcedure, message |-> m, origin |-> "restart"] /\ request' = pdu
        /\ UNCHANGED <<scenario, active, inbox, air, events, unserved>>
    BY DEF Rebroadcast, Send
  <1>2. Sendable(m)
    BY DEF SentInv, TodoSendable
  <1>3. Request(pdu, WriteReplaceProcedure, <<m.messageID, m.serial>>, m.target)
    BY <1>1, <1>2, WriteReplaceIsRead, ScenariosAssumption
  <1> HIDE DEF pdu
  <1>4. Asking'
    <2> DEFINE origin == "restart"
    <2>1. origin # "none" /\ origin # "publish" /\ WriteReplaceProcedure \in {WriteReplaceProcedure, StopProcedure}
      OBVIOUS
    <2>2. job' = [procedure |-> WriteReplaceProcedure, message |-> m, origin |-> origin]
      BY <1>1
    <2> HIDE DEF origin
    <2>3. QED
      BY <1>1, <1>2, <1>3, <2>1, <2>2, NewlyAsked
  <1>5. ActiveSendable'
    BY <1>1, ActiveKept DEF SentInv
  <1>6. TodoSendable'
    BY <1>1 DEF SentInv, TodoSendable
  <1>7. QED
    BY <1>1, <1>4, <1>5, <1>6 DEF SentInv, InboxTold

\* The MME answers, one way or the other.
LEMMA AnswerSent ==
    ASSUME NoneIsNoFunction, SentInv, MmeAccepts \/ MmeRefuses
    PROVE  SentInv'
  <1> DEFINE r == Understand(request)
             error == Answer(ErrorIndication(12), "unhandled", ErrorProcedure, None)
  <1>1. /\ request # None /\ request' = None
        /\ UNCHANGED <<scenario, active, job, todo>>
        /\ \/ inbox' = Append(inbox, Accepted(r)) \/ inbox' = inbox \o <<Accepted(r), Scheduled(r)>>
           \/ inbox' = inbox \o <<Scheduled(r), Accepted(r)>>
           \/ inbox' = Append(inbox, Rejected(r)) \/ inbox' = Append(inbox, error)
    <2>1. CASE MmeAccepts
      <3>1. /\ request # None /\ request' = None /\ CarryOut(r)
            /\ UNCHANGED <<scenario, active, job, todo>>
        BY <2>1 DEF MmeAccepts
      <3> HIDE DEF r
      <3>2. inbox' \in IF r.procedure = StopProcedure THEN {Append(inbox, Accepted(r))}
                       ELSE {inbox \o <<Accepted(r), Scheduled(r)>>, inbox \o <<Scheduled(r), Accepted(r)>>}
        BY <3>1 DEF CarryOut
      <3>3. QED
        BY <3>1, <3>2
    <2>2. CASE MmeRefuses
      BY <2>2 DEF MmeRefuses
    <2>3. QED
      BY <2>1, <2>2
  <1>2. Asked(r)
    BY <1>1, RequestIsAsked
  <1> HIDE DEF r
  <1>3. Told(Accepted(r)) /\ Told(Scheduled(r)) /\ Told(Rejected(r)) /\ Told(error)
    BY <1>2, AcceptedIsTold, ScheduledIsTold, RejectedIsTold, ErrorIsTold, ScenariosAssumption
  <1> HIDE DEF error
  <1>4. InboxTold'
    BY <1>1, <1>3, OneMoreTold, TwoMoreTold DEF SentInv
  <1>5. Asking'
    BY <1>1, AskingKept DEF SentInv
  <1>6. ActiveSendable'
    BY <1>1, ActiveKept DEF SentInv
  <1>7. QED
    BY <1>1, <1>4, <1>5, <1>6 DEF SentInv, TodoSendable

\* An eNB restarts, or fails.
LEMMA IndicationSent ==
    ASSUME NoneIsNoFunction, SentInv, NEW e \in scenario.enbs, EnbRestarts(e) \/ EnbFails(e)
    PROVE  SentInv'
  <1>1. UNCHANGED <<scenario, active, job, todo, request>>
    BY DEF EnbRestarts, EnbFails
  <1>2. inbox' = Append(inbox, RestartIndication(e)) \/ inbox' = Append(inbox, FailureIndication(e))
    BY DEF EnbRestarts, EnbFails
  <1>3. Told(RestartIndication(e)) /\ Told(FailureIndication(e))
    BY EnbsServe, RestartIsTold, FailureIsTold, ScenariosAssumption DEF SentInv
  <1>4. InboxTold'
    BY <1>2, <1>3, OneMoreTold DEF SentInv
  <1>5. Asking'
    BY <1>1, AskingKept DEF SentInv
  <1>6. ActiveSendable'
    BY <1>1, ActiveKept DEF SentInv
  <1>7. QED
    BY <1>1, <1>4, <1>5, <1>6 DEF SentInv, TodoSendable

\* sendAndAwait gives up.
LEMMA TimeoutSent ==
    ASSUME SentInv, Timeout
    PROVE  SentInv'
  <1>1. /\ job' = NoJob /\ request' = None
        /\ UNCHANGED <<scenario, active, todo, inbox>>
    BY DEF Timeout, Fails
  <1>2. Asking'
    BY <1>1, NothingAsked
  <1>3. ActiveSendable'
    BY <1>1, ActiveKept DEF SentInv
  <1>4. QED
    BY <1>1, <1>2, <1>3 DEF SentInv, TodoSendable, InboxTold

\* Whatever restarted, what handleRestart sends again can be sent.
LEMMA RestartIsSendable ==
    ASSUME SentInv, NEW ri
    PROVE  \A t \in HandleRestart(ri) : Sendable(t)
  <1> DEFINE ecis == {ri.cells[i].id : i \in 1..Len(ri.cells)}
             tacs == {ri.tais[i].id : i \in 1..Len(ri.tais)}
             part(m) == [m EXCEPT !.target = NarrowTargetToRestart(@, ecis, tacs)]
  <1>1. \A t \in HandleRestart(ri) : \E m \in active : t = part(m)
    BY DEF HandleRestart
  <1>2. ASSUME NEW m \in active PROVE Sendable(part(m))
    <2>1. PICK d \in scenario.drafts : m = Prepared(d) /\ Sendable(m)
      BY DEF SentInv, ActiveSendable
    <2> HIDE DEF ecis, tacs
    <2>2. QED
      BY <2>1, NarrowedIsSendable
  <1> HIDE DEF part
  <1>3. QED
    BY <1>1, <1>2

\* readLoop reads the next PDU.
LEMMA ReadLoopSent ==
    ASSUME IInv, SentInv, ReadLoop
    PROVE  SentInv'
  <1> DEFINE h == inbox[1]
             d == Dispatch(h.pdu)
  <1>1. /\ inbox # <<>> /\ inbox' = Tail(inbox) /\ UNCHANGED <<scenario, request, air, events>>
        /\ TakeIn(d)
    BY DEF ReadLoop
  <1>2. InboxTold' /\ Told(h)
    BY <1>1, OneLessTold DEF SentInv
  <1>3. d.kind = h.kind /\ d.procedure = h.procedure /\ d.what = h.what
    BY <1>2 DEF Told, Read
  <1> HIDE DEF d
  <1>4. TodoSendable'
    <2>1. todo' \subseteq todo \cup HandleRestart(d.what)
      BY <1>1 DEF TakeIn
    <2>2. QED
      BY <2>1, RestartIsSendable DEF SentInv, TodoSendable
  <1>5. CASE IsAnswer(d)
    <2>1. request = None
      <3>1. 1 \in 1..Len(inbox)
        BY <1>1, OneLess DEF IInv, InboxInv
      <3>2. h.kind \in {"accepted", "rejected"}
        BY <1>3, <1>5 DEF IsAnswer
      <3>3. QED
        BY <3>1, <3>2 DEF IInv, InboxInv
    <2>2. job' = NoJob /\ (active' \subseteq active \/ (job.origin = "publish" /\ active' = active \cup {job.message}))
      <3>1. Succeeds \/ Fails
        BY <1>1, <1>5 DEF TakeIn
      <3>2. QED
        BY <3>1 DEF Succeeds, Fails
    <2>3. Asking'
      BY <1>1, <2>1, <2>2, NothingAsked
    <2>4. ActiveSendable'
      <3>1. CASE active' \subseteq active
        BY <1>1, <3>1, ActiveKept DEF SentInv
      <3>2. CASE job.origin = "publish" /\ active' = active \cup {job.message}
        <4>1. Sendable(job.message) /\ \E x \in scenario.drafts : job.message = Prepared(x)
          BY <3>2 DEF SentInv, Asking
        <4>2. scenario' = scenario /\ \A x : Prepared(x)' = Prepared(x)
          BY <1>1, ScenarioKept
        <4>3. \A m \in active' : Sendable(m) /\ \E x \in scenario.drafts : m = Prepared(x)
          BY <3>2, <4>1 DEF SentInv, ActiveSendable
        <4>4. QED
          BY <4>2, <4>3 DEF ActiveSendable
      <3>3. QED
        BY <2>2, <3>1, <3>2
    <2>5. QED
      BY <1>1, <1>2, <1>4, <2>3, <2>4 DEF SentInv
  <1>6. CASE ~IsAnswer(d)
    <2>1. UNCHANGED <<job, active>>
      BY <1>1, <1>6 DEF TakeIn
    <2>2. Asking'
      BY <1>1, <2>1, AskingKept DEF SentInv
    <2>3. ActiveSendable'
      BY <1>1, <2>1, ActiveKept DEF SentInv
    <2>4. QED
      BY <1>1, <1>2, <1>4, <2>2, <2>3 DEF SentInv
  <1>7. QED
    BY <1>5, <1>6

\* Every step keeps it.
LEMMA EveryStepSent ==
    ASSUME NoneIsNoFunction, IInv, SentInv, [Next]_vars
    PROVE  SentInv'
  <1>1. CASE UNCHANGED vars
    <2>1. UNCHANGED <<scenario, active, job, todo, request, inbox>>
      BY <1>1 DEF vars
    <2>2. Asking'
      BY <2>1, AskingKept DEF SentInv
    <2>3. ActiveSendable'
      BY <2>1, ActiveKept DEF SentInv
    <2>4. QED
      BY <2>1, <2>2, <2>3 DEF SentInv, TodoSendable, InboxTold
  <1>2. CASE \E d \in scenario.drafts : Publish(d)
    BY <1>2, PublishSent
  <1>3. CASE \E m \in active : Cancel(m)
    BY <1>3, CancelSent
  <1>4. CASE \E t \in todo : Rebroadcast(t)
    BY <1>4, RebroadcastSent
  <1>5. CASE ReadLoop
    BY <1>5, ReadLoopSent
  <1>6. CASE Timeout
    BY <1>6, TimeoutSent
  <1>7. CASE MmeAccepts \/ MmeRefuses
    BY <1>7, AnswerSent
  <1>8. CASE \E e \in scenario.enbs : EnbRestarts(e) \/ EnbFails(e)
    BY <1>8, IndicationSent
  <1>9. QED
    BY <1>1, <1>2, <1>3, <1>4, <1>5, <1>6, <1>7, <1>8 DEF Next

\* What is sent so is understood.
LEMMA SentIsUnderstood == SentInv => Understood
  <1> SUFFICES ASSUME SentInv PROVE Understood
    OBVIOUS
  <1>1. \A i \in 1..Len(inbox) :
           Dispatch(inbox[i].pdu) = Read(inbox[i].kind, inbox[i].procedure, inbox[i].what)
    BY DEF SentInv, InboxTold, Told
  <1>2. ASSUME request # None
        PROVE  LET r == Understand(request)
               IN  /\ r # None /\ r.procedure = job.procedure
                   /\ r.ids = <<job.message.messageID, job.message.serial>>
                   /\ r.cells = Meant(job.message.target)
    BY <1>2 DEF SentInv, Asking, Request
  <1>3. QED
    BY <1>1, <1>2 DEF Understood

\* And what is cut short is refused.
LEMMA SentIsRefusedShort ==
    ASSUME NoneIsNoFunction, SentInv
    PROVE  CutShortIsRefused
  <1> SUFFICES ASSUME NEW pdu \in {inbox[i].pdu : i \in 1..Len(inbox)} \cup ({request} \ {None}),
                      NEW n \in 0..(Len(pdu) \div 8) - 1
               PROVE  Header(SubSeq(pdu, 1, 8 * n)) = None
    BY DEF CutShortIsRefused
  <1>1. \E choice, procedure, ies : Sent(pdu, choice, procedure, ies)
    <2>1. CASE pdu \in {inbox[i].pdu : i \in 1..Len(inbox)}
      BY <2>1 DEF SentInv, InboxTold, Told
    <2>2. CASE pdu = request /\ request # None
      BY <2>2 DEF SentInv, Asking, Request
    <2>3. QED
      BY <2>1, <2>2
  <1>2. QED
    BY <1>1, SentCutShort

\* Both invariants hold, each for the other.
LEMMA SentHolds == NoneIsNoFunction => (Spec => [](IInv /\ SentInv))
  <1> SUFFICES ASSUME NoneIsNoFunction
               PROVE  Spec => [](IInv /\ SentInv)
    OBVIOUS
  <1>1. Init => IInv /\ SentInv
    BY Start, SentStart
  <1>2. IInv /\ SentInv /\ [Next]_vars => IInv' /\ SentInv'
    BY EveryStep, EveryStepSent, SentIsUnderstood
  <1>3. QED
    BY <1>1, <1>2, PTL DEF Spec

\* What readLoop takes a PDU for is what the MME meant by it, and what the MME
\* makes of a request is what the CBC asks for: for every message, every eNB
\* and every area, whatever the length of its lists.
THEOREM UnderstoodHolds == NoneIsNoFunction => (Spec => []Understood)
  <1> SUFFICES ASSUME NoneIsNoFunction
               PROVE  Spec => []Understood
    OBVIOUS
  <1>1. Spec => [](IInv /\ SentInv)
    BY SentHolds
  <1>2. SentInv => Understood
    BY SentIsUnderstood
  <1>3. QED
    BY <1>1, <1>2, PTL

\* A PDU that arrives cut short is refused by decodePDU: no proper prefix of
\* anything either side sends has a header.
THEOREM CutShortIsRefusedHolds == NoneIsNoFunction => (Spec => []CutShortIsRefused)
  <1> SUFFICES ASSUME NoneIsNoFunction
               PROVE  Spec => []CutShortIsRefused
    OBVIOUS
  <1>1. Spec => [](IInv /\ SentInv)
    BY SentHolds
  <1>2. SentInv => CutShortIsRefused
    BY SentIsRefusedShort
  <1>3. QED
    BY <1>1, <1>2, PTL

\* When nothing is going on, an alert is on the air in exactly the cells its
\* target means if it is active and in none if it is not: publish, Cancel and
\* handleRestart together with the codec at both ends.
THEOREM OnAirIsTargetAlways == NoneIsNoFunction => (Spec => []OnAirIsTarget)
  <1> SUFFICES ASSUME NoneIsNoFunction
               PROVE  Spec => []OnAirIsTarget
    OBVIOUS
  <1>1. Spec => []Understood
    BY UnderstoodHolds
  <1>2. QED
    BY <1>1, OnAirIsTargetHolds, PTL

=============================================================================
