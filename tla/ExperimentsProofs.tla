-------------------------- MODULE ExperimentsProofs --------------------------
(***************************************************************************)
(* Proofs about the verdict on two captures, for every baseline: it has its *)
(* types, an SDK that ignores a setting never passes, one that obeys it is   *)
(* never reported as a gap, and a pass is evidence that every record of the  *)
(* workload is still there.                                                 *)
(***************************************************************************)
EXTENDS Experiments, Induction, TLAPS, FiniteSetTheorems, FunctionTheorems

(* The baseline does not already look as a setting would leave it, as it may   *)
(* for an SDK that reads nothing of its environment (experimentEnvironment     *)
(* names the service and captures no headers), and is well formed: its spans    *)
(* have identities, and no export repeats a point.                            *)
Telling ==
  /\ \A r \in AllRecords(baseline) : r.res.service # "unknown" /\ r.res.probe # "visible"
  /\ \A i \in ProbeSpans(baseline) : \A a \in baseline.spans[i].attrs : a.key # "header"
  /\ ValidStructure(baseline)
  /\ ~Duplicated(baseline)

(* The types of the state; an SDK that ignores the setting exports the baseline
   until the first defect. *)
Fields ==
  /\ case \in Cases /\ baseline \in Baselines /\ defects \in 0 .. MaxDefects
  /\ DOMAIN changed = {"spans", "logs", "points"}
  /\ defects = 0 /\ ~obeyed => changed = baseline

(* A defect is counted, and leaves a capture of the three signals. *)
LEMMA SufferingKeepsFields ==
  ASSUME Fields, NEW capture, DOMAIN capture = DOMAIN changed, Suffer(capture)
  PROVE  Fields'
<1>1. defects + 1 \in 0 .. MaxDefects /\ defects + 1 # 0
  BY ExperimentsAssumption DEF Fields, Suffer
<1> QED
  BY <1>1 DEF Fields, Suffer

(* A run starts with one of the captures an SDK exports. *)
LEMMA InitialFields == Init => Fields
<1> SUFFICES ASSUME Init PROVE Fields
  OBVIOUS
<1>1. DOMAIN changed = {"spans", "logs", "points"}
  BY ExperimentsAssumption DEF Init, Obeying, Nothing, Captures
<1>2. 0 \in 0 .. MaxDefects
  BY ExperimentsAssumption
<1> QED
  BY <1>1, <1>2 DEF Init, Fields

(* Whatever the defect, the capture goes through Suffer. *)
LEMMA DefectsSuffer ==
  ASSUME Next
  PROVE  \E capture : DOMAIN capture = DOMAIN changed /\ Suffer(capture)
<1>1. CASE Lose
  BY <1>1 DEF Lose
<1>2. CASE Repeat
  BY <1>2 DEF Repeat
<1>3. CASE LoseAttribute
  BY <1>3 DEF LoseAttribute
<1>4. CASE Damage
  BY <1>4 DEF Damage
<1>5. CASE Miscount
  BY <1>5 DEF Miscount
<1>6. CASE LoseEvent
  BY <1>6 DEF LoseEvent
<1>7. CASE ForgetLostEvents
  BY <1>7 DEF ForgetLostEvents
<1>8. CASE Move
  BY <1>8 DEF Move
<1>9. CASE Misattribute
  BY <1>9 DEF Misattribute
<1>10. CASE Batch
  BY <1>10 DEF Batch
<1>11. CASE Disown
  BY <1>11 DEF Disown
<1>12. CASE ChangeExemplars
  BY <1>12 DEF ChangeExemplars
<1>13. CASE Miscollect
  BY <1>13 DEF Miscollect
<1> QED
  BY <1>1, <1>2, <1>3, <1>4, <1>5, <1>6, <1>7, <1>8, <1>9, <1>10, <1>11, <1>12, <1>13 DEF Next

(* The fields keep their types whatever the defects. *)
LEMMA FieldsAreKept == Spec => []Fields
<1>1. ASSUME Fields, [Next]_vars
      PROVE  Fields'
  <2>1. CASE Next
    <3>1. PICK capture : DOMAIN capture = DOMAIN changed /\ Suffer(capture)
      BY <2>1, DefectsSuffer
    <3> QED
      BY <1>1, <3>1, SufferingKeepsFields
  <2>2. CASE UNCHANGED vars
    BY <1>1, <2>2 DEF Fields, vars
  <2> QED
    BY <1>1, <2>1, <2>2
<1> QED
  BY InitialFields, <1>1, PTL DEF Spec

(* evaluate answers only with the statuses that fit what the baseline lets the *)
(* setting act on, for every baseline and every sequence of defects.          *)
THEOREM TypeCorrect == Spec => []TypeOK
<1>1. Fields => TypeOK
  <2> SUFFICES ASSUME Fields PROVE TypeOK
    OBVIOUS
  <2>1. Exercised(baseline) => Verdict(baseline, changed) \in {"pass", "gap"}
    BY DEF Verdict
  <2>2. ~Exercised(baseline) => Verdict(baseline, changed) \in {"not_exercised", "gap"}
    BY DEF Verdict
  <2> QED
    BY <2>1, <2>2 DEF Fields, TypeOK, Nothing
<1> QED
  BY FieldsAreKept, <1>1, PTL
-----------------------------------------------------------------------------
(* No case but these. *)
LEMMA CaseOf ==
  ASSUME Fields
  PROVE  case \in LengthCases \cup CountCases \cup
           {"default-service", "resource", "span-batch", "log-batch", "request-headers",
            "propagation-none", "disabled", "sampler", "events", "exemplars",
            "exemplars-always-on", "histogram"}
BY ExperimentsAssumption DEF Fields

(* A capture holds finitely many spans, and so finitely many of the probe. *)
LEMMA FiniteSpans ==
  ASSUME NEW b \in Baselines
  PROVE  /\ IsFiniteSet(DOMAIN b.spans)
         /\ IsFiniteSet(ProbeSpans(b)) /\ Cardinality(ProbeSpans(b)) \in Nat
<1>1. b.spans \in Seq(SpanRecords)
  BY ExperimentsAssumption DEF Captures
<1>2. DOMAIN b.spans = 1 .. Len(b.spans) /\ Len(b.spans) \in Nat
  BY <1>1
<1>3. IsFiniteSet(DOMAIN b.spans)
  BY <1>2, FS_Interval
<1>4. ProbeSpans(b) \subseteq DOMAIN b.spans
  BY DEF ProbeSpans
<1>5. IsFiniteSet(ProbeSpans(b))
  BY <1>3, <1>4, FS_Subset
<1> QED
  BY <1>3, <1>5, FS_CardinalityType

(* A capture compared with itself: an export cannot be as small as one record  *)
(* and larger, nor a value as long as the limit and longer.                   *)
LEMMA NotTheLimits ==
  ASSUME Fields, case \in LengthCases \cup CountCases, Exercised(baseline)
  PROVE  ~Effective(baseline, baseline)
<1>1. Limit \in Nat /\ Cap \in Nat
  BY ExperimentsAssumption DEF Cap
<1>2. CASE case \in LengthCases
  <2>1. LengthOf(Limited(baseline)) > Limit
    BY <1>2 DEF Exercised, LengthCases, CountCases
  <2>2. LengthOf(Limited(baseline)) # Limit
    BY <1>1, <2>1
  <2> QED
    BY <1>2, <2>2 DEF Effective, LengthCases, LengthsLimited, CountCases
<1>3. CASE case \in CountCases
  <2>1. CountOf(Limited(baseline)) > Cap
    BY <1>3 DEF Exercised, CountCases, LengthCases
  <2>2. CountOf(Limited(baseline)) # Cap
    BY <1>1, <2>1
  <2> QED
    BY <1>3, <2>2 DEF Effective, CountCases, LengthCases, CountsLimited
<1> QED
  BY <1>2, <1>3

(* The records an experiment looks for are not there and missing at once. *)
LEMMA NotTheSignals ==
  ASSUME Fields, case \in {"span-batch", "log-batch", "disabled", "sampler", "events",
                           "exemplars", "histogram"},
         Exercised(baseline)
  PROVE  ~Effective(baseline, baseline)
<1>1. CASE case = "span-batch"
  BY <1>1 DEF Exercised, Effective, LengthCases, CountCases
<1>2. CASE case = "log-batch"
  BY <1>2 DEF Exercised, Effective, LengthCases, CountCases
<1>3. CASE case = "disabled"
  <2>1. baseline.spans # <<>> /\ Nothing.spans = <<>>
    BY <1>3 DEF Exercised, Nothing, LengthCases, CountCases
  <2> QED
    BY <1>3, <2>1 DEF Effective, LengthCases, CountCases
<1>7. CASE case = "sampler"
  BY <1>7 DEF Exercised, Effective, LengthCases, CountCases
<1>4. CASE case = "events"
  BY <1>4 DEF Exercised, Effective, LengthCases, CountCases
<1>5. CASE case = "exemplars"
  <2>1. PICK p \in Records(baseline, "points") : p.exemplars # "none"
    BY <1>5 DEF Exercised, WithExemplars, LengthCases, CountCases
  <2> QED
    BY <1>5, <2>1 DEF Effective, ExemplarsSuppressed, LengthCases, CountCases
<1>6. CASE case = "histogram"
  <2>1. PICK p \in Records(baseline, "points") : p.type = "histogram"
    BY <1>6 DEF Exercised, Series, LengthCases, CountCases
  <2> QED
    BY <1>6, <2>1 DEF Effective, HistogramsConverted, LengthCases, CountCases
<1> QED
  BY <1>1, <1>2, <1>3, <1>4, <1>5, <1>6, <1>7

(* A stream without an exemplar has no point with one. *)
LEMMA NotTheUnsampled ==
  ASSUME case = "exemplars-always-on", Exercised(baseline)
  PROVE  ~Effective(baseline, baseline)
<1>1. PICK p \in Records(baseline, "points") :
        ~Transient(p) /\ StreamID(p) \notin {StreamID(q) : q \in WithExemplars(baseline)}
  BY DEF Exercised, Unsampled, LengthCases, CountCases
<1>2. PointID(p) \in Unsampled(baseline)
  BY <1>1 DEF Unsampled
<1>3. SUFFICES ASSUME UnsampledGained(baseline, baseline) PROVE FALSE
  BY DEF Effective, LengthCases, CountCases
<1>4. PICK q \in Records(baseline, "points") : q.exemplars = "valid" /\ PointID(q) = PointID(p)
  BY <1>2, <1>3 DEF UnsampledGained
<1>5. StreamID(q) = StreamID(p) /\ ~Transient(q)
  BY <1>1, <1>4 DEF PointID, StreamID, Transient
<1> QED
  BY <1>1, <1>4, <1>5 DEF WithExemplars

(* Every request's span cannot have the probe's parent and none. *)
LEMMA NotThePropagation ==
  ASSUME Fields, case = "propagation-none", Exercised(baseline)
  PROVE  ~Effective(baseline, baseline)
<1> DEFINE P == ProbeSpans(baseline)
           R == {i \in P : baseline.spans[i].parent = Remote}
           N == {i \in P : baseline.spans[i].parent = Nowhere}
           Of(S) == {baseline.spans[i].trace : i \in S}
<1>1. IsFiniteSet(P) /\ Cardinality(P) = Probes /\ Probes \in Nat \ {0}
  BY FiniteSpans, ExperimentsAssumption DEF Fields, Exercised, LengthCases, CountCases
<1>2. Cardinality(Of(R) \cap Incoming) = Probes
  BY DEF Exercised, LengthCases, CountCases
<1>3. SUFFICES ASSUME Cardinality(Of(N) \ (Incoming \cup {0})) = Probes
               PROVE  FALSE
  BY DEF Effective, LengthCases, CountCases
<1>4. N # {}
  <2>1. N = {} => Of(N) \ (Incoming \cup {0}) = {}
    OBVIOUS
  <2> QED
    BY <1>1, <1>3, <2>1, FS_EmptySet
<1>5. R \subseteq P /\ R # P
  BY <1>4 DEF Remote, Nowhere
<1>6. IsFiniteSet(R) /\ Cardinality(R) < Cardinality(P)
  <2> HIDE DEF P, R
  <2> QED
    BY <1>1, <1>5, FS_Subset, FS_CardinalityType
<1>7. IsFiniteSet(Of(R)) /\ Cardinality(Of(R)) <= Cardinality(R)
  <2>1. \A x \in Of(R) : \E i \in R : baseline.spans[i].trace = x
    OBVIOUS
  <2> DEFINE f == [i \in R |-> baseline.spans[i].trace]
  <2>2. f \in Surjection(R, Of(R))
    BY DEF Surjection
  <2> HIDE DEF f, R, Of
  <2> QED
    BY <1>6, <2>2, FS_Surjection
<1>8. Cardinality(Of(R) \cap Incoming) <= Cardinality(Of(R))
  <2> HIDE DEF R, Of
  <2> QED
    BY <1>7, FS_Subset
<1>9. Cardinality(R) \in Nat /\ Cardinality(Of(R)) \in Nat
  <2> HIDE DEF R, Of
  <2> QED
    BY <1>6, <1>7, FS_CardinalityType
<1> QED
  BY <1>1, <1>2, <1>6, <1>7, <1>8, <1>9

(* What a setting adds is not in the baseline. *)
LEMMA NotTheAddition ==
  ASSUME Fields, Telling, case \in {"default-service", "resource", "request-headers"},
         Exercised(baseline)
  PROVE  ~Effective(baseline, baseline)
<1>1. CASE case = "default-service"
  BY <1>1 DEF Exercised, Effective, Telling, LengthCases, CountCases
<1>2. CASE case = "resource"
  BY <1>2 DEF Exercised, Effective, Telling, LengthCases, CountCases
<1>3. CASE case = "request-headers"
  <2>1. Cardinality(ProbeSpans(baseline)) # 0
    BY <1>3, ExperimentsAssumption DEF Exercised, AllProbes, LengthCases, CountCases
  <2>2. PICK i \in ProbeSpans(baseline) : TRUE
    BY <2>1, FS_EmptySet
  <2>3. {a \in baseline.spans[i].attrs : a.key = "header"} = {}
    BY <2>2 DEF Telling
  <2> QED
    BY <1>3, <2>2, <2>3 DEF Effective, LengthCases, CountCases
<1> QED
  BY <1>1, <1>2, <1>3

(* A well-formed capture has lost nothing in comparison with itself. *)
LEMMA KeptByItself ==
  ASSUME Telling, case = "histogram"
  PROVE  AllKept(baseline, baseline)
<1>1. SpansKept(baseline, baseline)
  BY DEF SpansKept, SameSpans, Telling
<1>2. LogsKept(baseline, baseline)
  BY DEF LogsKept
<1>3. MetricsKept(baseline, baseline)
  BY DEF MetricsKept, Telling
<1> QED
  BY <1>1, <1>2, <1>3 DEF AllKept

(* The comment of cases.go: absence alone is never evidence.  evaluate does not *)
(* pass an SDK that ignores the setting, for any experiment and any telling     *)
(* baseline, however many spans, logs and points it has.                      *)
THEOREM DisregardNeverPasses == Spec => [](Telling => DisregardIsSeen)
<1>1. ASSUME Fields, Telling
      PROVE  DisregardIsSeen
  <2> SUFFICES ASSUME ~obeyed, defects = 0
               PROVE  Verdict(baseline, baseline) =
                        IF Exercised(baseline) THEN "gap" ELSE "not_exercised"
    BY <1>1 DEF Fields, DisregardIsSeen
  <2>1. Exercised(baseline) => ~Effective(baseline, baseline)
    BY <1>1, CaseOf, NotTheLimits, NotTheSignals, NotTheUnsampled, NotThePropagation,
       NotTheAddition
  <2>2. case = "histogram" => AllKept(baseline, baseline)
    BY <1>1, KeptByItself
  <2> QED
    BY <2>1, <2>2 DEF Verdict
<1>2. Fields => (Telling => DisregardIsSeen)
  BY <1>1
<1> QED
  BY FieldsAreKept, <1>2, PTL

-----------------------------------------------------------------------------

(* The three sequences of a baseline, and the types of their records. *)
LEMMA BaselineFields ==
  ASSUME NEW b \in Baselines
  PROVE  /\ DOMAIN b = {"spans", "logs", "points"}
         /\ b.spans \in Seq(SpanRecords) /\ b.logs \in Seq(LogRecords)
         /\ b.points \in Seq(PointRecords)
         /\ DOMAIN b.spans = 1 .. Len(b.spans) /\ DOMAIN b.logs = 1 .. Len(b.logs)
         /\ DOMAIN b.points = 1 .. Len(b.points)
         /\ \A i \in DOMAIN b.spans : b.spans[i] \in SpanRecords
         /\ \A i \in DOMAIN b.logs : b.logs[i] \in LogRecords
         /\ \A i \in DOMAIN b.points : b.points[i] \in PointRecords
<1>1. b \in Captures
  BY ExperimentsAssumption
<1>2. /\ DOMAIN b = {"spans", "logs", "points"}
      /\ b.spans \in Seq(SpanRecords) /\ b.logs \in Seq(LogRecords)
      /\ b.points \in Seq(PointRecords)
  BY <1>1 DEF Captures
<1> QED
  BY <1>2

(* The spans of two captures differ at most in what the experiment leaves out. *)
Alike(b, c) ==
  /\ DOMAIN b.spans = DOMAIN c.spans
  /\ \A i \in DOMAIN b.spans :
       /\ b.spans[i].id = c.spans[i].id /\ b.spans[i].trace = c.spans[i].trace
       /\ b.spans[i].parent = c.spans[i].parent /\ b.spans[i].name = c.spans[i].name
       /\ b.spans[i].server = c.spans[i].server
       /\ SpanForm(b.spans[i]) = SpanForm(c.spans[i])
       /\ Context(b.spans[i]) = Context(c.spans[i])
       /\ IsPropagationProbe(b.spans[i]) <=> IsPropagationProbe(c.spans[i])

(* A set of numbers has a smallest. *)
LEMMA SmallestIsIn ==
  ASSUME NEW S \in SUBSET Nat, S # {}
  PROVE  Smallest(S) \in S /\ \A m \in S : Smallest(S) <= m
<1> DEFINE T == {n \in Nat : \A m \in S : n < m}
<1>1. PICK n \in S : \A m \in S : n <= m
  <2>1. PICK s \in S : TRUE
    OBVIOUS
  <2>2. s \notin T /\ s \in Nat
    BY <2>1
  <2>3. CASE 0 \in S
    BY <2>3
  <2>4. CASE 0 \notin S
    <3>1. 0 \in T
      BY <2>4
    <3>2. PICK k \in T : k + 1 \notin T
      BY <2>2, <3>1, NaturalInduction
    <3>3. PICK m \in S : ~(k + 1 < m)
      BY <3>2
    <3>4. m = k + 1
      BY <3>2, <3>3
    <3> QED
      BY <3>2, <3>4
  <2> QED
    BY <2>3, <2>4
<1> QED
  BY <1>1 DEF Smallest

(* The records of a signal by their positions. *)
LEMMA SameRecords ==
  ASSUME NEW b, NEW signal
  PROVE  Records(b, signal) = {b[signal][i] : i \in DOMAIN b[signal]}
BY DEF Records, ToSet

(* Such captures agree on traces, parents and identities. *)
LEMMA AlikeSpans ==
  ASSUME NEW b, NEW c, Alike(b, c), DOMAIN b.spans \subseteq Nat
  PROVE  /\ WorkloadSpans(b) = WorkloadSpans(c)
         /\ IncomingServerTraces(b) = IncomingServerTraces(c)
         /\ \A trace, id : At(b, trace, id) = At(c, trace, id)
         /\ \A i \in DOMAIN b.spans : Relationship(b, b.spans[i]) = Relationship(c, c.spans[i])
         /\ ValidStructure(b) => SameSpans(b, c)
<1> DEFINE x(i) == b.spans[i]
           y(i) == c.spans[i]
           D == DOMAIN b.spans
<1>1. DOMAIN c.spans = D
  BY DEF Alike
<1>2. ASSUME NEW i \in D
      PROVE  /\ x(i).id = y(i).id /\ x(i).trace = y(i).trace /\ x(i).parent = y(i).parent
             /\ x(i).name = y(i).name /\ x(i).server = y(i).server
             /\ IsProbeServer(x(i)) <=> IsProbeServer(y(i))
             /\ SpanForm(x(i)) = SpanForm(y(i)) /\ Context(x(i)) = Context(y(i))
             /\ IsPropagationProbe(x(i)) <=> IsPropagationProbe(y(i))
  BY DEF Alike, IsProbeServer
<1>3. WorkloadTraces(b) = WorkloadTraces(c)
  <2>1. WorkloadTraces(b) = {x(i).trace : i \in {i \in D : IsProbeServer(x(i))}} \ {0}
    BY SameRecords DEF WorkloadTraces
  <2>2. WorkloadTraces(c) = {y(i).trace : i \in {i \in D : IsProbeServer(y(i))}} \ {0}
    BY SameRecords, <1>1 DEF WorkloadTraces
  <2> HIDE DEF x, y, D
  <2> QED
    BY <1>2, <2>1, <2>2
<1>4. WorkloadSpans(b) = WorkloadSpans(c)
  BY <1>1, <1>2, <1>3 DEF WorkloadSpans
<1>5. IncomingServerTraces(b) = IncomingServerTraces(c)
  <2>1. IncomingServerTraces(b) = {x(i).trace : i \in {i \in D : x(i).server}} \cap Incoming
    BY SameRecords DEF IncomingServerTraces
  <2>2. IncomingServerTraces(c) = {y(i).trace : i \in {i \in D : y(i).server}} \cap Incoming
    BY SameRecords, <1>1 DEF IncomingServerTraces
  <2> HIDE DEF x, y, D
  <2> QED
    BY <1>2, <2>1, <2>2
<1>6. \A trace, id : At(b, trace, id) = At(c, trace, id)
  BY <1>1, <1>2 DEF At
<1>7. ASSUME NEW i \in D
      PROVE  Relationship(b, x(i)) = Relationship(c, y(i))
  <2> DEFINE parents == At(b, x(i).trace, x(i).parent)
             p == Smallest(parents)
  <2>1. At(c, y(i).trace, y(i).parent) = parents
    BY <1>2, <1>6, <1>7
  <2>2. parents # {} => /\ b.spans[p].name = c.spans[p].name
                        /\ Context(b.spans[p]) = Context(c.spans[p])
    <3>1. parents \subseteq D
      BY DEF At
    <3> HIDE DEF parents
    <3>2. parents # {} => p \in D
      BY <3>1, SmallestIsIn
    <3> QED
      BY <1>2, <3>2
  <2>3. At(b, x(i).trace, x(i).parent) = parents /\ p = Smallest(parents)
    OBVIOUS
  <2>4. /\ x(i).parent = y(i).parent
        /\ IsPropagationProbe(x(i)) <=> IsPropagationProbe(y(i))
    BY <1>2, <1>7
  <2> HIDE DEF x, y, D, parents, p
  <2>5. CASE case = "propagation-none" /\ IsPropagationProbe(x(i))
    BY <2>4, <2>5 DEF Relationship
  <2>6. CASE ~(case = "propagation-none" /\ IsPropagationProbe(x(i)))
    <3>1. CASE x(i).parent = Nowhere
      BY <2>4, <2>6, <3>1 DEF Relationship
    <3>2. CASE x(i).parent # Nowhere /\ parents # {}
      BY <2>1, <2>2, <2>3, <2>4, <2>6, <3>2 DEF Relationship
    <3>3. CASE x(i).parent # Nowhere /\ parents = {} /\ IsPropagationProbe(x(i))
      BY <2>1, <2>3, <2>4, <2>6, <3>3 DEF Relationship
    <3>4. CASE x(i).parent # Nowhere /\ parents = {} /\ ~IsPropagationProbe(x(i))
      BY <2>1, <2>3, <2>4, <2>6, <3>4 DEF Relationship
    <3> QED
      BY <3>1, <3>2, <3>3, <3>4
  <2> QED
    BY <2>5, <2>6
<1>8. ASSUME ValidStructure(b)
      PROVE  SameSpans(b, c)
  <2> DEFINE W == WorkloadSpans(b)
  <2>1. W \subseteq D /\ W = WorkloadSpans(c)
    BY <1>4 DEF WorkloadSpans
  <2>2. \A i \in W : SpanIdentity(b, x(i)) = SpanIdentity(c, y(i))
    BY <1>2, <1>7, <2>1 DEF SpanIdentity
  <2>3. [i \in WorkloadSpans(b) |-> SpanIdentity(b, b.spans[i])]
          = [i \in WorkloadSpans(c) |-> SpanIdentity(c, c.spans[i])]
    BY <2>1, <2>2
  <2>4. ValidStructure(c)
    <3>1. \A i \in D : IsProbeServer(y(i)) => y(i).trace # 0
      BY <1>2, <1>8, SameRecords DEF ValidStructure
    <3>2. \A i, j \in W : i # j => <<y(i).trace, y(i).id>> # <<y(j).trace, y(j).id>>
      <4>1. \A i, j \in W : i # j => <<x(i).trace, x(i).id>> # <<x(j).trace, x(j).id>>
        BY <1>8 DEF ValidStructure
      <4> HIDE DEF x, y, W, D
      <4> QED
        BY <1>2, <2>1, <4>1
    <3>3. \A s \in Records(c, "spans") : \E i \in D : s = y(i)
      BY <1>1, SameRecords
    <3> QED
      BY <2>1, <3>1, <3>2, <3>3 DEF ValidStructure
  <2>5. Partitions(b) = Partitions(c)
    <3> DEFINE Members(d, trace) == {i \in DOMAIN d.spans : d.spans[i].trace = trace}
               Entry(d, trace) ==
                 <<Cardinality(Members(d, trace)),
                   Cardinality({i \in Members(d, trace) : IsProbeServer(d.spans[i])}),
                   Cardinality({i \in Members(d, trace) : \A j \in Members(d, trace) :
                                  d.spans[j].id # d.spans[i].parent})>>
    <3>1. ASSUME NEW trace
          PROVE  Entry(b, trace) = Entry(c, trace)
      <4>1. Members(b, trace) = Members(c, trace) /\ Members(b, trace) \subseteq D
        BY <1>1, <1>2
      <4>2. {i \in Members(b, trace) : IsProbeServer(b.spans[i])}
              = {i \in Members(c, trace) : IsProbeServer(c.spans[i])}
        <5> HIDE DEF Members
        <5> QED
          BY <1>2, <4>1
      <4>3. {i \in Members(b, trace) : \A j \in Members(b, trace) : b.spans[j].id # b.spans[i].parent}
              = {i \in Members(c, trace) :
                   \A j \in Members(c, trace) : c.spans[j].id # c.spans[i].parent}
        <5> HIDE DEF Members
        <5> QED
          BY <1>2, <4>1
      <4> HIDE DEF Members
      <4> QED
        BY <4>1, <4>2, <4>3
    <3>2. /\ Partitions(b) = Counts([trace \in WorkloadTraces(b) |-> Entry(b, trace)])
          /\ Partitions(c) = Counts([trace \in WorkloadTraces(c) |-> Entry(c, trace)])
      BY DEF Partitions
    <3> HIDE DEF Entry
    <3>3. [trace \in WorkloadTraces(b) |-> Entry(b, trace)]
            = [trace \in WorkloadTraces(c) |-> Entry(c, trace)]
      BY <1>3, <3>1
    <3> QED
      BY <3>2, <3>3
  <2> QED
    BY <2>3, <2>4, <2>5 DEF SameSpans
<1> QED
  BY <1>4, <1>5, <1>6, <1>7, <1>8

(* Logs that keep their form and their place are identified alike (logCorrelationID). *)
LEMMA AlikeLogs ==
  ASSUME NEW b, NEW c, DOMAIN b.spans \subseteq Nat,
         (Alike(b, c) /\ case # "propagation-none") \/ case = "sampler",
         DOMAIN b.logs = DOMAIN c.logs,
         \A i \in DOMAIN b.logs :
           /\ b.logs[i].trace = c.logs[i].trace /\ b.logs[i].span = c.logs[i].span
           /\ LogForm(b.logs[i]) = LogForm(c.logs[i])
           /\ Context(b.logs[i]) = Context(c.logs[i])
  PROVE  LogIdentities(b) = LogIdentities(c)
<1>1. ASSUME NEW i \in DOMAIN b.logs
      PROVE  Correlation(b, b.logs[i]) = Correlation(c, c.logs[i])
  <2> DEFINE x == b.logs[i]
             y == c.logs[i]
  <2>1. x.trace = y.trace /\ x.span = y.span
    OBVIOUS
  <2>2. CASE case = "sampler"
    BY <2>1, <2>2 DEF Correlation
  <2>3. CASE Alike(b, c) /\ case # "propagation-none" /\ case # "sampler"
    <3>1. At(b, x.trace, x.span) = At(c, y.trace, y.span)
      BY <2>1, <2>3, AlikeSpans
    <3>2. [j \in DOMAIN b.spans |-> <<b.spans[j].name, Context(b.spans[j])>>]
            = [j \in DOMAIN c.spans |-> <<c.spans[j].name, Context(c.spans[j])>>]
      BY <2>3 DEF Alike
    <3>3. \A k : Occurrence(b, k) = Occurrence(c, k)
      BY <3>2 DEF Occurrence
    <3> DEFINE at == At(b, x.trace, x.span)
    <3>4. at = At(b, x.trace, x.span) /\ at = At(c, y.trace, y.span)
      BY <3>1
    <3> HIDE DEF at
    <3>5. CASE x.trace = 0 /\ x.span = 0
      BY <2>1, <3>5 DEF Correlation
    <3>6. CASE x.trace = 0 /\ x.span # 0
      BY <2>1, <3>6 DEF Correlation
    <3>7. CASE x.trace # 0 /\ x.span = 0
      BY <2>1, <3>7 DEF Correlation
    <3>8. CASE x.trace # 0 /\ x.span # 0 /\ at = {}
      BY <2>1, <2>3, <3>4, <3>8 DEF Correlation
    <3>9. CASE x.trace # 0 /\ x.span # 0 /\ at # {}
      BY <2>1, <2>3, <3>3, <3>4, <3>9 DEF Correlation
    <3> QED
      BY <3>5, <3>6, <3>7, <3>8, <3>9
  <2> QED
    BY <2>2, <2>3
<1>2. [i \in DOMAIN b.logs |->
         <<LogForm(b.logs[i]), Context(b.logs[i]), Correlation(b, b.logs[i])>>]
        = [i \in DOMAIN c.logs |->
             <<LogForm(c.logs[i]), Context(c.logs[i]), Correlation(c, c.logs[i])>>]
  BY <1>1
<1> QED
  BY <1>2 DEF LogIdentities

(* Points that keep their identity are kept, and none is repeated. *)
LEMMA AlikePoints ==
  ASSUME NEW b, NEW c, Compared(b) = Compared(c), ~Duplicated(b),
         \A i \in Compared(b) :
           /\ b.points[i].name = c.points[i].name /\ b.points[i].group = c.points[i].group
           /\ PointIdentity(b.points[i]) = PointIdentity(c.points[i])
  PROVE  MetricsKept(b, c)
<1>1. MetricIdentities(b) = MetricIdentities(c)
  BY DEF MetricIdentities
<1>2. ~Duplicated(c)
  BY DEF Duplicated, Transient
<1> QED
  BY <1>1, <1>2 DEF MetricsKept

(* The capture of an SDK that obeys, record by record. *)
LEMMA ObeyingFields ==
  ASSUME NEW b, case # "disabled"
  PROVE  LET c == Obeying(b)
         IN /\ case # "sampler" => /\ DOMAIN c.spans = DOMAIN b.spans
                                   /\ \A i \in DOMAIN b.spans :
                                        c.spans[i] = ObeyingSpan(b.spans[i], i)
            /\ case = "sampler" => c.spans = <<>>
            /\ DOMAIN c.logs = DOMAIN b.logs
            /\ \A i \in DOMAIN b.logs : c.logs[i] = ObeyingLog(b.logs[i], i)
            /\ DOMAIN c.points = DOMAIN b.points
            /\ \A i \in DOMAIN b.points : c.points[i] = ObeyingPoint(b.points[i])
BY DEF Obeying

(* Cutting attributes to the limit twice cuts them once, and hides no user agent. *)
LEMMA Shortening ==
  ASSUME NEW attrs \in SUBSET Attributes
  PROVE  /\ Shortened(attrs) \in SUBSET Attributes
         /\ Shortened(Shortened(attrs)) = Shortened(attrs)
         /\ (\E a \in Shortened(attrs) : a.key = "agent" /\ a.len > 0)
              <=> (\E a \in attrs : a.key = "agent" /\ a.len > 0)
<1> DEFINE short(a) == [a EXCEPT !.len = IF @ > Limit THEN Limit ELSE @]
<1>1. Limit \in Nat /\ Limit > 0
  BY ExperimentsAssumption
<1>2. ASSUME NEW a \in Attributes
      PROVE  /\ short(a) \in Attributes /\ short(a).len <= Limit
             /\ short(a).key = a.key /\ (short(a).len > 0 <=> a.len > 0)
             /\ short(short(a)) = short(a)
  <2>1. a.len \in Nat /\ a = [key |-> a.key, len |-> a.len] /\ a.key \in STRING
    BY DEF Attributes
  <2>2. CASE a.len > Limit
    <3>1. short(a) = [key |-> a.key, len |-> Limit]
      BY <2>1, <2>2
    <3>2. short(short(a)) = short(a)
      BY <1>1, <3>1
    <3> HIDE DEF short
    <3> QED
      BY <1>1, <2>1, <2>2, <3>1, <3>2 DEF Attributes
  <2>3. CASE ~(a.len > Limit)
    <3>1. short(a) = a
      BY <2>1, <2>3
    <3> HIDE DEF short
    <3> QED
      BY <1>1, <2>1, <2>3, <3>1 DEF Attributes
  <2> QED
    BY <2>2, <2>3
<1>3. Shortened(attrs) = {short(a) : a \in attrs}
  BY DEF Shortened
<1>4. Shortened(Shortened(attrs)) = {short(a) : a \in Shortened(attrs)}
  BY DEF Shortened
<1> HIDE DEF short
<1>5. Shortened(Shortened(attrs)) = Shortened(attrs)
  BY <1>2, <1>3, <1>4
<1>6. Shortened(attrs) \in SUBSET Attributes
  BY <1>2, <1>3
<1>7. (\E a \in Shortened(attrs) : a.key = "agent" /\ a.len > 0)
        <=> (\E a \in attrs : a.key = "agent" /\ a.len > 0)
  BY <1>2, <1>3
<1> QED
  BY <1>5, <1>6, <1>7

(* The same for the attributes of events. *)
LEMMA ShorteningEvents ==
  ASSUME NEW events \in Seq(SpanEvents)
  PROVE  ShortenedEvents(ShortenedEvents(events)) = ShortenedEvents(events)
<1> DEFINE short(e) == [e EXCEPT !.attrs = Shortened(@)]
<1>1. ASSUME NEW k \in DOMAIN events
      PROVE  short(short(events[k])) = short(events[k])
  <2> DEFINE e == events[k]
  <2>1. e \in SpanEvents
    OBVIOUS
  <2>2. e = [name |-> e.name, attrs |-> e.attrs, dropped |-> e.dropped]
        /\ e.attrs \in SUBSET Attributes
    BY <2>1 DEF SpanEvents, AttributeSets
  <2>3. Shortened(Shortened(e.attrs)) = Shortened(e.attrs)
    BY <2>2, Shortening
  <2> HIDE DEF e
  <2> QED
    BY <2>2, <2>3 DEF e
<1>2. ShortenedEvents(events) = [k \in DOMAIN events |-> short(events[k])]
  BY DEF ShortenedEvents
<1>3. ShortenedEvents(ShortenedEvents(events))
        = [k \in DOMAIN events |-> short(ShortenedEvents(events)[k])]
  BY DEF ShortenedEvents
<1> HIDE DEF short
<1> QED
  BY <1>1, <1>2, <1>3

(* What of a span tells its experiment nothing is the same before and after. *)
SameSpan(s, t) ==
  /\ s.id = t.id /\ s.trace = t.trace /\ s.parent = t.parent /\ s.name = t.name
  /\ s.server = t.server
  /\ SpanForm(s) = SpanForm(t) /\ Context(s) = Context(t)
  /\ IsPropagationProbe(s) <=> IsPropagationProbe(t)

(* What a setting changes of a span is what its experiment leaves out. *)
LEMMA ObeyedSpan ==
  ASSUME NEW s \in SpanRecords, NEW i \in Nat,
         case \in LengthCases \cup
           {"default-service", "resource", "span-batch", "log-batch", "request-headers",
            "events", "exemplars", "exemplars-always-on", "histogram", "log-count"}
  PROVE  SameSpan(s, ObeyingSpan(s, i))
<1> SUFFICES ASSUME NEW t, t = ObeyingSpan(s, i)
             PROVE  SameSpan(s, t)
  OBVIOUS
<1>0. /\ DOMAIN s = {"id", "trace", "parent", "name", "server", "attrs", "dropped", "events",
                     "lost", "res", "batch"}
      /\ s.attrs \in SUBSET Attributes /\ s.events \in Seq(SpanEvents)
      /\ s.res \in Resources
  BY DEF SpanRecords, AttributeSets
<1>1. CASE case = "default-service"
  <2>1. t = [s EXCEPT !.res.service = "unknown"]
    BY <1>1 DEF ObeyingSpan, Named
  <2>2. /\ t.id = s.id /\ t.trace = s.trace /\ t.parent = s.parent /\ t.name = s.name
        /\ t.server = s.server /\ t.attrs = s.attrs /\ t.dropped = s.dropped
        /\ t.events = s.events /\ t.lost = s.lost /\ t.res = [s.res EXCEPT !.service = "unknown"]
    BY <1>0, <2>1
  <2>3. [t.res EXCEPT !.service = "ignored"] = [s.res EXCEPT !.service = "ignored"]
    BY <1>0, <2>2 DEF Resources
  <2>4. SpanForm(t) = Whole(t) /\ SpanForm(s) = Whole(s)
    BY <1>1 DEF SpanForm
  <2>5. Whole(t) = Whole(s)
    BY <2>2 DEF Whole
  <2>6. IsPropagationProbe(s) <=> IsPropagationProbe(t)
    BY <2>2 DEF IsPropagationProbe
  <2>7. Context(s) = Context(t)
    BY <1>1, <2>3 DEF Context
  <2> QED
    BY <2>2, <2>4, <2>5, <2>6, <2>7 DEF SameSpan
<1>2. CASE case = "resource"
  <2>1. t = [s EXCEPT !.res.service = "external-probe", !.res.probe = "visible"]
    BY <1>2 DEF ObeyingSpan, Named
  <2>2. /\ t.id = s.id /\ t.trace = s.trace /\ t.parent = s.parent /\ t.name = s.name
        /\ t.server = s.server /\ t.attrs = s.attrs /\ t.dropped = s.dropped
        /\ t.events = s.events /\ t.lost = s.lost
        /\ t.res = [s.res EXCEPT !.service = "external-probe", !.probe = "visible"]
    BY <1>0, <2>1
  <2>3. [t.res EXCEPT !.service = "ignored", !.probe = "ignored"]
          = [s.res EXCEPT !.service = "ignored", !.probe = "ignored"]
    BY <1>0, <2>2 DEF Resources
  <2>4. SpanForm(t) = Whole(t) /\ SpanForm(s) = Whole(s)
    BY <1>2 DEF SpanForm
  <2>5. Whole(t) = Whole(s)
    BY <2>2 DEF Whole
  <2>6. IsPropagationProbe(s) <=> IsPropagationProbe(t)
    BY <2>2 DEF IsPropagationProbe
  <2>7. Context(s) = Context(t)
    BY <1>2, <2>3 DEF Context
  <2> QED
    BY <2>2, <2>4, <2>5, <2>6, <2>7 DEF SameSpan
<1>3. CASE case = "span-batch"
  <2>1. t = [s EXCEPT !.batch = i]
    BY <1>3 DEF ObeyingSpan
  <2>2. /\ t.id = s.id /\ t.trace = s.trace /\ t.parent = s.parent /\ t.name = s.name
        /\ t.server = s.server /\ t.attrs = s.attrs /\ t.dropped = s.dropped
        /\ t.events = s.events /\ t.lost = s.lost /\ t.res = s.res
    BY <1>0, <2>1
  <2>4. SpanForm(t) = Whole(t) /\ SpanForm(s) = Whole(s)
    BY <1>3 DEF SpanForm
  <2>5. Whole(t) = Whole(s)
    BY <2>2 DEF Whole
  <2>6. IsPropagationProbe(s) <=> IsPropagationProbe(t)
    BY <2>2 DEF IsPropagationProbe
  <2>7. Context(s) = Context(t)
    BY <1>3, <2>2 DEF Context
  <2> QED
    BY <2>2, <2>4, <2>5, <2>6, <2>7 DEF SameSpan
<1>4. CASE case = "request-headers" /\ IsPropagationProbe(s)
  <2>1. t = [s EXCEPT !.attrs = @ \cup {Header}]
    BY <1>4 DEF ObeyingSpan
  <2>2. /\ t.id = s.id /\ t.trace = s.trace /\ t.parent = s.parent /\ t.name = s.name
        /\ t.server = s.server /\ t.attrs = s.attrs \cup {Header} /\ t.dropped = s.dropped
        /\ t.events = s.events /\ t.lost = s.lost /\ t.res = s.res
    BY <1>0, <2>1
  <2>3. IsPropagationProbe(t)
    BY <1>4, <2>2 DEF IsPropagationProbe
  <2>4. /\ SpanForm(t) = [Whole(t) EXCEPT !.attrs = {a \in @ : a.key # "header"}]
        /\ SpanForm(s) = [Whole(s) EXCEPT !.attrs = {a \in @ : a.key # "header"}]
    BY <1>4, <2>3 DEF SpanForm
  <2>5. {a \in t.attrs : a.key # "header"} = {a \in s.attrs : a.key # "header"}
    BY <2>2 DEF Header
  <2>6. SpanForm(t) = SpanForm(s)
    <3>1. /\ SpanForm(t) = [name |-> t.name, attrs |-> {a \in t.attrs : a.key # "header"},
                            dropped |-> t.dropped, events |-> t.events, lost |-> t.lost]
          /\ SpanForm(s) = [name |-> s.name, attrs |-> {a \in s.attrs : a.key # "header"},
                            dropped |-> s.dropped, events |-> s.events, lost |-> s.lost]
      BY <2>4 DEF Whole
    <3> QED
      BY <2>2, <2>5, <3>1
  <2>7. Context(s) = Context(t)
    BY <1>4, <2>2 DEF Context
  <2> QED
    BY <1>4, <2>2, <2>3, <2>6, <2>7 DEF SameSpan
<1>5. CASE case = "span-length"
  <2>1. t = [s EXCEPT !.attrs = Shortened(@)]
    BY <1>5 DEF ObeyingSpan
  <2>2. /\ t.id = s.id /\ t.trace = s.trace /\ t.parent = s.parent /\ t.name = s.name
        /\ t.server = s.server /\ t.attrs = Shortened(s.attrs) /\ t.dropped = s.dropped
        /\ t.events = s.events /\ t.lost = s.lost /\ t.res = s.res
    BY <1>0, <2>1
  <2>3. IsPropagationProbe(s) <=> IsPropagationProbe(t)
    BY <1>0, <2>2, Shortening DEF IsPropagationProbe
  <2>4. /\ SpanForm(t) = [LengthLimited(t) EXCEPT !.events = t.events]
        /\ SpanForm(s) = [LengthLimited(s) EXCEPT !.events = s.events]
    BY <1>5 DEF SpanForm
  <2>5. Shortened(t.attrs) = Shortened(s.attrs)
    BY <1>0, <2>2, Shortening
  <2>6. SpanForm(t) = SpanForm(s)
    <3>1. /\ LengthLimited(t).name = s.name /\ LengthLimited(t).attrs = Shortened(t.attrs)
          /\ LengthLimited(t).dropped = s.dropped /\ LengthLimited(t).lost = s.lost
          /\ LengthLimited(s).name = s.name /\ LengthLimited(s).attrs = Shortened(s.attrs)
          /\ LengthLimited(s).dropped = s.dropped /\ LengthLimited(s).lost = s.lost
          /\ DOMAIN LengthLimited(s) = {"name", "attrs", "dropped", "events", "lost"}
          /\ DOMAIN LengthLimited(t) = {"name", "attrs", "dropped", "events", "lost"}
      BY <2>2 DEF Whole, LengthLimited
    <3> QED
      BY <2>2, <2>4, <2>5, <3>1
  <2>7. Context(s) = Context(t)
    BY <1>5, <2>2 DEF Context
  <2> QED
    BY <2>2, <2>3, <2>6, <2>7 DEF SameSpan
<1>6. CASE case = "attribute-length"
  <2>1. t = [s EXCEPT !.attrs = Shortened(@), !.events = ShortenedEvents(@)]
    BY <1>6 DEF ObeyingSpan
  <2>2. /\ t.id = s.id /\ t.trace = s.trace /\ t.parent = s.parent /\ t.name = s.name
        /\ t.server = s.server /\ t.attrs = Shortened(s.attrs) /\ t.dropped = s.dropped
        /\ t.events = ShortenedEvents(s.events) /\ t.lost = s.lost /\ t.res = s.res
    BY <1>0, <2>1
  <2>3. IsPropagationProbe(s) <=> IsPropagationProbe(t)
    BY <1>0, <2>2, Shortening DEF IsPropagationProbe
  <2>4. SpanForm(t) = LengthLimited(t) /\ SpanForm(s) = LengthLimited(s)
    BY <1>6 DEF SpanForm
  <2>5. Shortened(t.attrs) = Shortened(s.attrs)
    BY <1>0, <2>2, Shortening
  <2>8. ShortenedEvents(t.events) = ShortenedEvents(s.events)
    BY <1>0, <2>2, ShorteningEvents
  <2>6. SpanForm(t) = SpanForm(s)
    <3>1. /\ LengthLimited(t).name = s.name /\ LengthLimited(t).attrs = Shortened(t.attrs)
          /\ LengthLimited(t).dropped = s.dropped /\ LengthLimited(t).lost = s.lost
          /\ LengthLimited(t).events = ShortenedEvents(t.events)
          /\ DOMAIN LengthLimited(t) = {"name", "attrs", "dropped", "events", "lost"}
          /\ LengthLimited(t) = [k \in DOMAIN LengthLimited(t) |-> LengthLimited(t)[k]]
      BY <2>2 DEF Whole, LengthLimited
    <3>2. /\ LengthLimited(s).name = s.name /\ LengthLimited(s).attrs = Shortened(s.attrs)
          /\ LengthLimited(s).dropped = s.dropped /\ LengthLimited(s).lost = s.lost
          /\ LengthLimited(s).events = ShortenedEvents(s.events)
          /\ DOMAIN LengthLimited(s) = {"name", "attrs", "dropped", "events", "lost"}
          /\ LengthLimited(s) = [k \in DOMAIN LengthLimited(s) |-> LengthLimited(s)[k]]
      BY DEF Whole, LengthLimited
    <3> QED
      BY <2>4, <2>5, <2>8, <3>1, <3>2
  <2>7. Context(s) = Context(t)
    BY <1>6, <2>2 DEF Context
  <2> QED
    BY <2>2, <2>3, <2>6, <2>7 DEF SameSpan
<1>7. CASE case = "events"
  <2>1. t = [s EXCEPT !.events = <<>>, !.lost = @ + Len(s.events)]
    BY <1>7 DEF ObeyingSpan
  <2>2. /\ t.id = s.id /\ t.trace = s.trace /\ t.parent = s.parent /\ t.name = s.name
        /\ t.server = s.server /\ t.attrs = s.attrs /\ t.dropped = s.dropped /\ t.res = s.res
    BY <1>0, <2>1
  <2>3. IsPropagationProbe(s) <=> IsPropagationProbe(t)
    BY <2>2 DEF IsPropagationProbe
  <2>4. /\ SpanForm(t) = [Whole(t) EXCEPT !.events = <<>>, !.lost = 0]
        /\ SpanForm(s) = [Whole(s) EXCEPT !.events = <<>>, !.lost = 0]
    BY <1>7 DEF SpanForm
  <2>6. SpanForm(t) = SpanForm(s)
    <3>1. /\ SpanForm(t) = [name |-> t.name, attrs |-> t.attrs, dropped |-> t.dropped,
                            events |-> <<>>, lost |-> 0]
          /\ SpanForm(s) = [name |-> s.name, attrs |-> s.attrs, dropped |-> s.dropped,
                            events |-> <<>>, lost |-> 0]
      BY <2>4 DEF Whole
    <3> QED
      BY <2>2, <3>1
  <2>7. Context(s) = Context(t)
    BY <1>7, <2>2 DEF Context
  <2> QED
    BY <2>2, <2>3, <2>6, <2>7 DEF SameSpan
<1>8. CASE \/ case \in {"log-batch", "exemplars", "exemplars-always-on", "histogram",
                        "log-length", "log-count"}
           \/ case = "request-headers" /\ ~IsPropagationProbe(s)
  <2>1. t = s
    BY <1>8 DEF ObeyingSpan, Named
  <2> QED
    BY <2>1 DEF SameSpan
<1> QED
  BY <1>1, <1>2, <1>3, <1>4, <1>5, <1>6, <1>7, <1>8 DEF LengthCases

(* What a setting changes of a log is what its experiment leaves out. *)
LEMMA ObeyedLog ==
  ASSUME NEW l \in LogRecords, NEW i \in Nat,
         case \in LengthCases \cup
           {"default-service", "resource", "span-batch", "log-batch", "request-headers",
            "sampler", "events", "exemplars", "exemplars-always-on", "histogram"},
         NEW m, m = ObeyingLog(l, i)
  PROVE  /\ m.body = l.body /\ m.trace = l.trace /\ m.span = l.span
         /\ LogForm(m) = LogForm(l) /\ Context(m) = Context(l)
<1>0. /\ DOMAIN l = {"body", "attrs", "dropped", "trace", "span", "res", "batch"}
      /\ l.attrs \in SUBSET Attributes /\ l.res \in Resources
  BY DEF LogRecords, AttributeSets
<1>1. CASE case = "default-service"
  <2>1. m = [l EXCEPT !.res.service = "unknown"]
    BY <1>1 DEF ObeyingLog, Named, LengthCases
  <2>2. /\ m.body = l.body /\ m.trace = l.trace /\ m.span = l.span /\ m.attrs = l.attrs
        /\ m.dropped = l.dropped /\ m.res = [l.res EXCEPT !.service = "unknown"]
    BY <1>0, <2>1
  <2>3. [m.res EXCEPT !.service = "ignored"] = [l.res EXCEPT !.service = "ignored"]
    BY <1>0, <2>2 DEF Resources
  <2>4. LogForm(m) = LogForm(l)
    BY <1>1, <2>2 DEF LogForm
  <2> QED
    BY <1>1, <2>2, <2>3, <2>4 DEF Context
<1>2. CASE case = "resource"
  <2>1. m = [l EXCEPT !.res.service = "external-probe", !.res.probe = "visible"]
    BY <1>2 DEF ObeyingLog, Named, LengthCases
  <2>2. /\ m.body = l.body /\ m.trace = l.trace /\ m.span = l.span /\ m.attrs = l.attrs
        /\ m.dropped = l.dropped
        /\ m.res = [l.res EXCEPT !.service = "external-probe", !.probe = "visible"]
    BY <1>0, <2>1
  <2>3. [m.res EXCEPT !.service = "ignored", !.probe = "ignored"]
          = [l.res EXCEPT !.service = "ignored", !.probe = "ignored"]
    BY <1>0, <2>2 DEF Resources
  <2>4. LogForm(m) = LogForm(l)
    BY <1>2, <2>2 DEF LogForm
  <2> QED
    BY <1>2, <2>2, <2>3, <2>4 DEF Context
<1>3. CASE case = "log-batch"
  <2>1. m = [l EXCEPT !.batch = i]
    BY <1>3 DEF ObeyingLog
  <2>2. /\ m.body = l.body /\ m.trace = l.trace /\ m.span = l.span /\ m.attrs = l.attrs
        /\ m.dropped = l.dropped /\ m.res = l.res
    BY <1>0, <2>1
  <2>3. LogForm(m) = LogForm(l)
    BY <1>3, <2>2 DEF LogForm
  <2> QED
    BY <1>3, <2>2, <2>3 DEF Context
<1>4. CASE case \in {"attribute-length", "log-length"}
  <2>1. m = [l EXCEPT !.attrs = Shortened(@)]
    BY <1>4 DEF ObeyingLog
  <2>2. /\ m.body = l.body /\ m.trace = l.trace /\ m.span = l.span
        /\ m.attrs = Shortened(l.attrs) /\ m.dropped = l.dropped /\ m.res = l.res
    BY <1>0, <2>1
  <2>3. Shortened(m.attrs) = Shortened(l.attrs)
    BY <1>0, <2>2, Shortening
  <2>4. /\ LogForm(m) = [body |-> m.body, attrs |-> Shortened(m.attrs), dropped |-> m.dropped]
        /\ LogForm(l) = [body |-> l.body, attrs |-> Shortened(l.attrs), dropped |-> l.dropped]
    BY <1>4 DEF LogForm
  <2>5. LogForm(m) = LogForm(l)
    BY <2>2, <2>3, <2>4
  <2> QED
    BY <1>4, <2>2, <2>5 DEF Context
<1>5. CASE case \in {"span-batch", "request-headers", "sampler", "span-length", "events",
                     "exemplars", "exemplars-always-on", "histogram"}
  <2>1. m = l
    BY <1>5 DEF ObeyingLog, Named
  <2> QED
    BY <2>1
<1> QED
  BY <1>1, <1>2, <1>3, <1>4, <1>5 DEF LengthCases

(* What a setting changes of a metric point is what its experiment leaves out. *)
LEMMA ObeyedPoint ==
  ASSUME NEW p \in PointRecords, case # "disabled", case = "histogram" => p.type = "sum",
         NEW q, q = ObeyingPoint(p)
  PROVE  /\ q.name = p.name /\ q.group = p.group /\ q.type = p.type
         /\ PointIdentity(q) = PointIdentity(p) /\ PointID(q) = PointID(p)
<1>0. /\ DOMAIN p = {"name", "state", "type", "count", "exemplars", "res", "group"}
      /\ p.res \in Resources /\ p.type \in {"histogram", "exponential", "sum"}
  BY DEF PointRecords
<1>1. CASE case \in {"sampler", "exemplars", "exemplars-always-on"}
  <2>1. q = [p EXCEPT !.exemplars = "none"] \/ q = [p EXCEPT !.exemplars = "valid"]
    BY <1>1 DEF ObeyingPoint
  <2>2. /\ q.name = p.name /\ q.state = p.state /\ q.type = p.type /\ q.count = p.count
        /\ q.res = p.res /\ q.group = p.group
    BY <1>0, <2>1
  <2>3. Context(q) = Context(p)
    BY <1>1, <2>2 DEF Context
  <2>4. PointID(q) = PointID(p) /\ StreamID(q) = StreamID(p)
    BY <2>2, <2>3 DEF PointID, StreamID
  <2>5. (Transient(q) <=> Transient(p)) /\ Measured(q) = Measured(p)
    BY <2>2 DEF Transient, Measured
  <2>6. PointIdentity(q) = PointIdentity(p)
    BY <1>1, <2>2, <2>4, <2>5 DEF PointIdentity
  <2> QED
    BY <2>2, <2>4, <2>6
<1>2. CASE case = "default-service"
  <2>1. q = [p EXCEPT !.res.service = "unknown"]
    BY <1>2 DEF ObeyingPoint, Named
  <2>2. /\ q.name = p.name /\ q.state = p.state /\ q.type = p.type /\ q.count = p.count
        /\ q.exemplars = p.exemplars /\ q.group = p.group
        /\ q.res = [p.res EXCEPT !.service = "unknown"]
    BY <1>0, <2>1
  <2>3. [q.res EXCEPT !.service = "ignored"] = [p.res EXCEPT !.service = "ignored"]
    BY <1>0, <2>2 DEF Resources
  <2>4. Context(q) = Context(p)
    BY <1>2, <2>3 DEF Context
  <2>5. PointID(q) = PointID(p) /\ StreamID(q) = StreamID(p)
    BY <2>2, <2>4 DEF PointID, StreamID
  <2>6. (Transient(q) <=> Transient(p)) /\ Measured(q) = Measured(p)
    BY <2>2 DEF Transient, Measured
  <2>7. PointIdentity(q) = PointIdentity(p)
    BY <2>2, <2>5, <2>6 DEF PointIdentity
  <2> QED
    BY <2>2, <2>5, <2>7
<1>3. CASE case = "resource"
  <2>1. q = [p EXCEPT !.res.service = "external-probe", !.res.probe = "visible"]
    BY <1>3 DEF ObeyingPoint, Named
  <2>2. /\ q.name = p.name /\ q.state = p.state /\ q.type = p.type /\ q.count = p.count
        /\ q.exemplars = p.exemplars /\ q.group = p.group
        /\ q.res = [p.res EXCEPT !.service = "external-probe", !.probe = "visible"]
    BY <1>0, <2>1
  <2>3. [q.res EXCEPT !.service = "ignored", !.probe = "ignored"]
          = [p.res EXCEPT !.service = "ignored", !.probe = "ignored"]
    BY <1>0, <2>2 DEF Resources
  <2>4. Context(q) = Context(p)
    BY <1>3, <2>3 DEF Context
  <2>5. PointID(q) = PointID(p) /\ StreamID(q) = StreamID(p)
    BY <2>2, <2>4 DEF PointID, StreamID
  <2>6. (Transient(q) <=> Transient(p)) /\ Measured(q) = Measured(p)
    BY <2>2 DEF Transient, Measured
  <2>7. PointIdentity(q) = PointIdentity(p)
    BY <2>2, <2>5, <2>6 DEF PointIdentity
  <2> QED
    BY <2>2, <2>5, <2>7
<1>4. CASE case = "histogram"
  <2>1. q = [p EXCEPT !.type = p.type]
    BY <1>4 DEF ObeyingPoint
  <2>2. q = p
    BY <1>0, <2>1 DEF PointRecords
  <2> QED
    BY <2>2
<1>5. CASE case \notin {"sampler", "exemplars", "exemplars-always-on", "default-service",
                        "resource", "histogram"}
  <2>1. q = p
    BY <1>5 DEF ObeyingPoint, Named
  <2> QED
    BY <2>1
<1> QED
  BY <1>1, <1>2, <1>3, <1>4, <1>5

(* The settings whose obedience is proved to be seen; the others are limits of  *)
(* counts, and the setting that gives every request a trace of its own.        *)
Settled ==
  LengthCases \cup
    {"default-service", "resource", "span-batch", "log-batch", "request-headers", "disabled",
     "sampler", "events", "exemplars", "exemplars-always-on", "histogram"}

(* The spans of a baseline and those of an SDK that obeys are alike. *)
LEMMA ObeyedSpans ==
  ASSUME NEW b \in Baselines, case \in Settled \ {"disabled", "sampler"}
  PROVE  Alike(b, Obeying(b)) /\ DOMAIN b.spans \subseteq Nat
<1> DEFINE c == Obeying(b)
<1>1. DOMAIN c.spans = DOMAIN b.spans /\ DOMAIN b.spans \subseteq Nat
  BY ObeyingFields, BaselineFields
<1>2. ASSUME NEW i \in DOMAIN b.spans
      PROVE  SameSpan(b.spans[i], c.spans[i])
  <2>1. b.spans[i] \in SpanRecords /\ i \in Nat
    BY BaselineFields, <1>1
  <2>2. c.spans[i] = ObeyingSpan(b.spans[i], i)
    BY ObeyingFields
  <2>3. SameSpan(b.spans[i], ObeyingSpan(b.spans[i], i))
    BY <2>1, ObeyedSpan DEF Settled
  <2> QED
    BY <2>2, <2>3
<1> HIDE DEF c
<1>3. Alike(b, c)
  BY <1>1, <1>2 DEF Alike, SameSpan
<1> QED
  BY <1>1, <1>3 DEF c

(* Their logs have the same identities. *)
LEMMA ObeyedLogs ==
  ASSUME NEW b \in Baselines, case \in Settled \ {"disabled"}
  PROVE  LogIdentities(b) = LogIdentities(Obeying(b))
<1> DEFINE c == Obeying(b)
<1>1. DOMAIN c.logs = DOMAIN b.logs /\ DOMAIN b.spans \subseteq Nat /\ DOMAIN b.logs \subseteq Nat
  BY ObeyingFields, BaselineFields
<1>2. ASSUME NEW i \in DOMAIN b.logs
      PROVE  /\ b.logs[i].trace = c.logs[i].trace /\ b.logs[i].span = c.logs[i].span
             /\ LogForm(b.logs[i]) = LogForm(c.logs[i])
             /\ Context(b.logs[i]) = Context(c.logs[i])
  <2>1. b.logs[i] \in LogRecords /\ i \in Nat
    BY BaselineFields, <1>1
  <2>2. c.logs[i] = ObeyingLog(b.logs[i], i)
    BY ObeyingFields
  <2> HIDE DEF c
  <2> QED
    BY <2>1, <2>2, ObeyedLog DEF Settled
<1>3. (Alike(b, c) /\ case # "propagation-none") \/ case = "sampler"
  BY ObeyedSpans DEF Settled, LengthCases
<1> HIDE DEF c
<1>4. LogIdentities(b) = LogIdentities(c)
  BY <1>1, <1>2, <1>3, AlikeLogs
<1> QED
  BY <1>4 DEF c

(* Their metric points have the same identities, none of them twice. *)
LEMMA ObeyedPoints ==
  ASSUME NEW b \in Baselines, case # "disabled", ~Duplicated(b)
  PROVE  MetricsKept(b, Obeying(b))
<1> DEFINE c == Obeying(b)
<1>1. DOMAIN c.points = DOMAIN b.points
  BY ObeyingFields
<1>2. ASSUME NEW i \in DOMAIN b.points
      PROVE  b.points[i] \in PointRecords /\ c.points[i] = ObeyingPoint(b.points[i])
  BY ObeyingFields, BaselineFields
<1> HIDE DEF c
<1>3. Compared(b) = Compared(c)
  <2>1. ASSUME NEW i \in DOMAIN b.points, case = "histogram"
        PROVE  c.points[i].type = "sum" <=> b.points[i].type = "sum"
    <3>1. c.points[i] = [b.points[i] EXCEPT !.type = IF @ = "histogram" THEN "exponential" ELSE @]
      BY <1>2, <2>1 DEF ObeyingPoint
    <3>2. "type" \in DOMAIN b.points[i]
      BY <1>2 DEF PointRecords
    <3> QED
      BY <3>1, <3>2
  <2> QED
    BY <1>1, <2>1 DEF Compared
<1>4. ASSUME NEW i \in Compared(b)
      PROVE  /\ b.points[i].name = c.points[i].name /\ b.points[i].group = c.points[i].group
             /\ PointIdentity(b.points[i]) = PointIdentity(c.points[i])
  <2>1. i \in DOMAIN b.points /\ (case = "histogram" => b.points[i].type = "sum")
    BY DEF Compared
  <2> QED
    BY <1>2, <2>1, ObeyedPoint
<1>5. MetricsKept(b, c)
  BY <1>3, <1>4, AlikePoints
<1> QED
  BY <1>5 DEF c

(* Nothing of the workload is missing from the capture of an SDK that obeys. *)
LEMMA ObeyedIsKept ==
  ASSUME NEW b \in Baselines, case \in Settled, ValidStructure(b), ~Duplicated(b),
         \/ WorkloadSpans(b) # {}
         \/ case \in {"default-service", "resource", "exemplars"} /\ b.spans = <<>>
         \/ case \in {"disabled", "sampler", "exemplars-always-on", "log-batch", "log-length",
                      "events", "histogram"}
  PROVE  AllKept(b, Obeying(b))
<1>1. SpansKept(b, Obeying(b))
  <2>1. CASE case \in {"disabled", "sampler"}
    BY <2>1 DEF SpansKept
  <2>2. CASE case \in Settled \ {"disabled", "sampler"}
    <3>1. SameSpans(b, Obeying(b))
      BY <2>2, ObeyedSpans, AlikeSpans
    <3> QED
      BY <3>1 DEF SpansKept
  <2> QED
    BY <2>1, <2>2
<1>2. LogsKept(b, Obeying(b))
  BY ObeyedLogs DEF LogsKept
<1>3. MetricsKept(b, Obeying(b))
  BY ObeyedPoints DEF MetricsKept
<1> QED
  BY <1>1, <1>2, <1>3 DEF AllKept

(* A baseline such as the workload gives: if there are spans there is one for   *)
(* every tagged request, and none in their traces without one; no header is      *)
(* captured yet, and histograms are explicit and have measurements.            *)
Ordinary(b) ==
  /\ ValidStructure(b) /\ ~Duplicated(b)
  /\ b.spans # <<>> => WorkloadSpans(b) # {} /\ AllProbes(b)
  /\ IncomingServerTraces(b) \subseteq IncomingProbeTraces(b)
  /\ \A i \in ProbeSpans(b) :
       b.spans[i].name = "tags" /\ \A a \in b.spans[i].attrs : a.key # "header"
  /\ \A p \in Records(b, "points") :
       p.type # "exponential" /\ (p.type = "histogram" => p.count > 0)

(* The traces the tagged requests started are those of the probe spans. *)
LEMMA SameIncoming ==
  ASSUME NEW b, Ordinary(b)
  PROVE  IncomingServerTraces(b) = IncomingProbeTraces(b)
<1>1. ProbeSpans(b) \subseteq DOMAIN b.spans /\ \A i \in ProbeSpans(b) : b.spans[i].server
  BY DEF ProbeSpans
<1>2. IncomingProbeTraces(b) \subseteq IncomingServerTraces(b)
  BY <1>1, SameRecords DEF IncomingProbeTraces, IncomingServerTraces
<1> QED
  BY <1>2 DEF Ordinary

(* The four settings that leave the user agents alone. *)
LEMMA ObeyedProbes ==
  ASSUME NEW b \in Baselines,
         case \in {"default-service", "resource", "span-batch", "request-headers"}
  PROVE  /\ ProbeSpans(Obeying(b)) = ProbeSpans(b)
         /\ IncomingProbeTraces(Obeying(b)) = IncomingProbeTraces(b)
<1> DEFINE c == Obeying(b)
           agent == [key |-> "agent", len |-> UserAgent]
<1>1. Alike(b, c) /\ DOMAIN c.spans = DOMAIN b.spans /\ DOMAIN b.spans \subseteq Nat
  BY ObeyedSpans, ObeyingFields, BaselineFields DEF Settled
<1>2. ASSUME NEW i \in DOMAIN b.spans
      PROVE  agent \in c.spans[i].attrs <=> agent \in b.spans[i].attrs
  <2> DEFINE s == b.spans[i]
  <2>1. s \in SpanRecords /\ c.spans[i] = ObeyingSpan(s, i)
    BY BaselineFields, ObeyingFields
  <2>2. DOMAIN s = {"id", "trace", "parent", "name", "server", "attrs", "dropped", "events",
                    "lost", "res", "batch"}
    BY <2>1 DEF SpanRecords
  <2>3. agent.key # Header.key
    BY DEF Header
  <2> HIDE DEF c, s, agent
  <2>4. c.spans[i].attrs = s.attrs \/ c.spans[i].attrs = s.attrs \cup {Header}
    <3>1. CASE case = "default-service"
      BY <2>1, <2>2, <3>1 DEF ObeyingSpan, Named
    <3>2. CASE case = "resource"
      BY <2>1, <2>2, <3>2 DEF ObeyingSpan, Named
    <3>3. CASE case = "span-batch"
      BY <2>1, <2>2, <3>3 DEF ObeyingSpan
    <3>4. CASE case = "request-headers" /\ IsPropagationProbe(s)
      BY <2>1, <2>2, <3>4 DEF ObeyingSpan
    <3>5. CASE case = "request-headers" /\ ~IsPropagationProbe(s)
      BY <2>1, <2>2, <3>5 DEF ObeyingSpan, Named
    <3> QED
      BY <3>1, <3>2, <3>3, <3>4, <3>5
  <2>5. agent # Header
    BY <2>3
  <2> QED
    BY <2>4, <2>5 DEF s
<1> HIDE DEF c
<1>3. ProbeSpans(c) = ProbeSpans(b)
  BY <1>1, <1>2 DEF ProbeSpans, Alike
<1>4. IncomingProbeTraces(c) = IncomingProbeTraces(b)
  <2>1. ProbeSpans(b) \subseteq DOMAIN b.spans
    BY DEF ProbeSpans
  <2> QED
    BY <1>1, <1>3, <2>1 DEF IncomingProbeTraces, Alike
<1> QED
  BY <1>3, <1>4 DEF c

(* Every record names the service the setting gives it. *)
LEMMA SeenService ==
  ASSUME NEW b \in Baselines, Ordinary(b), case \in {"default-service", "resource"}, Exercised(b)
  PROVE  Effective(b, Obeying(b))
<1> DEFINE c == Obeying(b)
           R == IF case = "default-service" THEN "unknown" ELSE "external-probe"
<1>1. /\ DOMAIN c.spans = DOMAIN b.spans /\ DOMAIN c.logs = DOMAIN b.logs
      /\ DOMAIN c.points = DOMAIN b.points
  BY ObeyingFields
<1>2. ASSUME NEW r, NEW q, q = Named(r), {"res"} \subseteq DOMAIN r, r.res \in Resources
      PROVE  /\ case = "default-service" => q.res.service = "unknown"
             /\ case = "resource" => q.res.service = "external-probe" /\ q.res.probe = "visible"
  <2>1. CASE case = "default-service"
    <3>1. q = [r EXCEPT !.res.service = "unknown"]
      BY <1>2, <2>1 DEF Named
    <3>2. q.res = [r.res EXCEPT !.service = "unknown"]
      BY <1>2, <3>1
    <3> QED
      BY <1>2, <2>1, <3>2 DEF Resources
  <2>2. CASE case = "resource"
    <3>1. q = [r EXCEPT !.res.service = "external-probe", !.res.probe = "visible"]
      BY <1>2, <2>2 DEF Named
    <3>2. q.res = [r.res EXCEPT !.service = "external-probe", !.probe = "visible"]
      BY <1>2, <3>1
    <3> QED
      BY <1>2, <2>2, <3>2 DEF Resources
  <2> QED
    BY <2>1, <2>2
<1>3. ASSUME NEW r \in AllRecords(c)
      PROVE  /\ case = "default-service" => r.res.service = "unknown"
             /\ case = "resource" => r.res.service = "external-probe" /\ r.res.probe = "visible"
  <2>1. ASSUME NEW i \in DOMAIN b.spans, r = c.spans[i]
        PROVE  \E x : r = Named(x) /\ {"res"} \subseteq DOMAIN x /\ x.res \in Resources
    <3>1. b.spans[i] \in SpanRecords /\ r = ObeyingSpan(b.spans[i], i)
      BY <2>1, BaselineFields, ObeyingFields
    <3>2. r = Named(b.spans[i])
      BY <3>1 DEF ObeyingSpan
    <3>3. {"res"} \subseteq DOMAIN b.spans[i] /\ b.spans[i].res \in Resources
      BY <3>1 DEF SpanRecords
    <3> QED
      BY <3>2, <3>3
  <2>2. ASSUME NEW i \in DOMAIN b.logs, r = c.logs[i]
        PROVE  \E x : r = Named(x) /\ {"res"} \subseteq DOMAIN x /\ x.res \in Resources
    <3>1. b.logs[i] \in LogRecords /\ r = ObeyingLog(b.logs[i], i)
      BY <2>2, BaselineFields, ObeyingFields
    <3>2. r = Named(b.logs[i])
      BY <3>1 DEF ObeyingLog
    <3>3. {"res"} \subseteq DOMAIN b.logs[i] /\ b.logs[i].res \in Resources
      BY <3>1 DEF LogRecords
    <3> QED
      BY <3>2, <3>3
  <2>3. ASSUME NEW i \in DOMAIN b.points, r = c.points[i]
        PROVE  \E x : r = Named(x) /\ {"res"} \subseteq DOMAIN x /\ x.res \in Resources
    <3>1. b.points[i] \in PointRecords /\ r = ObeyingPoint(b.points[i])
      BY <2>3, BaselineFields, ObeyingFields
    <3>2. r = Named(b.points[i])
      BY <3>1 DEF ObeyingPoint
    <3>3. {"res"} \subseteq DOMAIN b.points[i] /\ b.points[i].res \in Resources
      BY <3>1 DEF PointRecords
    <3> QED
      BY <3>2, <3>3
  <2>4. \/ \E i \in DOMAIN b.spans : r = c.spans[i]
        \/ \E i \in DOMAIN b.logs : r = c.logs[i]
        \/ \E i \in DOMAIN b.points : r = c.points[i]
    BY <1>1, SameRecords DEF AllRecords
  <2>5. \E x : r = Named(x) /\ {"res"} \subseteq DOMAIN x /\ x.res \in Resources
    BY <2>1, <2>2, <2>3, <2>4
  <2> QED
    BY <1>2, <2>5
<1> HIDE DEF c
<1>4. AllRecords(c) # {}
  <2>1. AllRecords(b) # {}
    BY DEF Exercised, LengthCases, CountCases
  <2>2. DOMAIN b.spans # {} \/ DOMAIN b.logs # {} \/ DOMAIN b.points # {}
    <3>1. Records(b, "spans") # {} \/ Records(b, "logs") # {} \/ Records(b, "points") # {}
      BY <2>1 DEF AllRecords
    <3> QED
      BY <3>1, SameRecords
  <2>3. /\ Records(c, "spans") = {c.spans[i] : i \in DOMAIN b.spans}
        /\ Records(c, "logs") = {c.logs[i] : i \in DOMAIN b.logs}
        /\ Records(c, "points") = {c.points[i] : i \in DOMAIN b.points}
    BY <1>1, SameRecords
  <2>4. Records(c, "spans") # {} \/ Records(c, "logs") # {} \/ Records(c, "points") # {}
    BY <2>2, <2>3
  <2> QED
    BY <2>4 DEF AllRecords
<1>5. /\ ProbeSpans(c) = ProbeSpans(b)
      /\ IncomingServerTraces(c) = IncomingServerTraces(b)
      /\ IncomingServerTraces(b) = IncomingProbeTraces(b)
  BY ObeyedProbes, ObeyedSpans, AlikeSpans, SameIncoming DEF c, Settled
<1>6. Effective(b, c)
  BY <1>3, <1>4, <1>5 DEF Effective, RequestsPreserved, LengthCases, CountCases
<1> QED
  BY <1>6 DEF c

(* A number no member exceeds is the largest. *)
LEMMA LargestIsIn ==
  ASSUME NEW S \in SUBSET Nat, NEW n \in S, \A m \in S : m <= n
  PROVE  MaxOf(S) = n
<1>1. PICK k \in S : MaxOf(S) = k /\ \A m \in S : m <= k
  BY DEF MaxOf
<1>2. k <= n /\ n <= k /\ k \in Nat /\ n \in Nat
  BY <1>1
<1> QED
  BY <1>1, <1>2

(* A finite set of numbers has a largest. *)
LEMMA FiniteHasLargest ==
  ASSUME NEW S \in SUBSET Nat, IsFiniteSet(S), S # {}
  PROVE  MaxOf(S) \in S /\ \A m \in S : m <= MaxOf(S)
<1> DEFINE F == {T \in SUBSET S : T # {} => \E n \in T : \A m \in T : m <= n}
<1>1. {} \in F
  OBVIOUS
<1>2. ASSUME NEW T \in SUBSET S, NEW x \in S, T \in F, x \notin T
      PROVE  T \cup {x} \in F
  <2>1. CASE T = {}
    BY <2>1
  <2>2. CASE T # {}
    <3>1. PICK n \in T : \A m \in T : m <= n
      BY <1>2, <2>2
    <3>2. CASE x <= n
      BY <3>1, <3>2
    <3>3. CASE ~(x <= n)
      <4>1. \A m \in T \cup {x} : m <= x
        BY <3>1, <3>3
      <4> QED
        BY <4>1
    <3> QED
      BY <3>2, <3>3
  <2> QED
    BY <2>1, <2>2
<1>3. S \in F
  <2> HIDE DEF F
  <2> QED
    BY <1>1, <1>2, FiniteSetInduction
<1>4. PICK n \in S : \A m \in S : m <= n
  BY <1>3
<1> QED
  BY <1>4, LargestIsIn

(* Every record in a batch of its own. *)
LEMMA BatchesOfOne ==
  ASSUME NEW c, NEW signal, DOMAIN c[signal] # {},
         \A i \in DOMAIN c[signal] : c[signal][i].batch = i
  PROVE  BatchOf(c, signal) = 1
<1> DEFINE Alongside(i) == {j \in DOMAIN c[signal] : c[signal][j].batch = c[signal][i].batch}
<1>1. ASSUME NEW i \in DOMAIN c[signal]
      PROVE  Cardinality(Alongside(i)) = 1
  <2>1. Alongside(i) = {i}
    OBVIOUS
  <2> QED
    BY <2>1, FS_Singleton
<1>2. {Cardinality(Alongside(i)) : i \in DOMAIN c[signal]} = {1}
  <2> HIDE DEF Alongside
  <2> QED
    BY <1>1
<1>3. MaxOf({1}) = 1
  <2>1. {1} \in SUBSET Nat /\ 1 \in {1} /\ \A m \in {1} : m <= 1
    OBVIOUS
  <2> QED
    BY <2>1, LargestIsIn
<1> QED
  BY <1>2, <1>3 DEF BatchOf

(* Two records of one batch are two records. *)
LEMMA BatchIsThere ==
  ASSUME NEW c, NEW signal, NEW n \in Nat, DOMAIN c[signal] = 1 .. n, BatchOf(c, signal) > 1
  PROVE  n >= 2
<1> DEFINE Alongside(i) == {j \in DOMAIN c[signal] : c[signal][j].batch = c[signal][i].batch}
<1>1. CASE n = 0
  <2>1. {Cardinality(Alongside(i)) : i \in DOMAIN c[signal]} = {}
    BY <1>1
  <2>2. BatchOf(c, signal) = 0
    BY <2>1 DEF BatchOf, MaxOf
  <2> QED
    BY <2>2
<1>2. CASE n = 1
  <2>1. DOMAIN c[signal] = {1}
    BY <1>2
  <2>2. Alongside(1) = {1}
    BY <2>1
  <2>3. Cardinality({1}) = 1
    BY FS_Singleton
  <2>4. {Cardinality(Alongside(i)) : i \in DOMAIN c[signal]} = {1}
    <3> HIDE DEF Alongside
    <3> QED
      BY <2>1, <2>2, <2>3
  <2>5. MaxOf({1}) = 1
    <3>1. {1} \in SUBSET Nat /\ 1 \in {1} /\ \A m \in {1} : m <= 1
      OBVIOUS
    <3> QED
      BY <3>1, LargestIsIn
  <2>6. BatchOf(c, signal) = 1
    BY <2>4, <2>5 DEF BatchOf
  <2> QED
    BY <2>6
<1> QED
  BY <1>1, <1>2

(* Batches of one record are seen. *)
LEMMA SeenBatches ==
  ASSUME NEW b \in Baselines, Ordinary(b), case \in {"span-batch", "log-batch"}, Exercised(b)
  PROVE  Effective(b, Obeying(b))
<1> DEFINE c == Obeying(b)
<1>1. CASE case = "span-batch"
  <2>1. BatchOf(b, "spans") > 1
    BY <1>1 DEF Exercised, LengthCases, CountCases
  <2>2. /\ DOMAIN b.spans = 1 .. Len(b.spans) /\ Len(b.spans) \in Nat
        /\ DOMAIN c.spans = DOMAIN b.spans
    BY <1>1, BaselineFields, ObeyingFields
  <2>3. Len(b.spans) >= 2
    BY <2>1, <2>2, BatchIsThere
  <2>4. \A i \in DOMAIN b.spans : c.spans[i].batch = i
    <3> SUFFICES ASSUME NEW i \in DOMAIN b.spans PROVE c.spans[i].batch = i
      OBVIOUS
    <3>1. b.spans[i] \in SpanRecords /\ c.spans[i] = ObeyingSpan(b.spans[i], i)
      BY <1>1, BaselineFields, ObeyingFields
    <3>2. c.spans[i] = [b.spans[i] EXCEPT !.batch = i] /\ "batch" \in DOMAIN b.spans[i]
      BY <1>1, <3>1 DEF ObeyingSpan, SpanRecords
    <3> QED
      BY <3>2
  <2> HIDE DEF c
  <2>5. BatchOf(c, "spans") = 1
    BY <2>2, <2>3, <2>4, BatchesOfOne
  <2>6. AllProbes(b)
    BY <2>2, <2>3 DEF Ordinary
  <2>7. AllProbes(c)
    BY <1>1, <2>6, ObeyedProbes DEF AllProbes, c
  <2>8. Effective(b, c)
    BY <1>1, <2>5, <2>7 DEF Effective, LengthCases, CountCases
  <2> QED
    BY <2>8 DEF c
<1>2. CASE case = "log-batch"
  <2>1. BatchOf(b, "logs") > 1
    BY <1>2 DEF Exercised, LengthCases, CountCases
  <2>2. /\ DOMAIN b.logs = 1 .. Len(b.logs) /\ Len(b.logs) \in Nat
        /\ DOMAIN c.logs = DOMAIN b.logs
    BY <1>2, BaselineFields, ObeyingFields
  <2>3. Len(b.logs) >= 2
    BY <2>1, <2>2, BatchIsThere
  <2>4. \A i \in DOMAIN b.logs : c.logs[i].batch = i
    <3> SUFFICES ASSUME NEW i \in DOMAIN b.logs PROVE c.logs[i].batch = i
      OBVIOUS
    <3>1. b.logs[i] \in LogRecords /\ c.logs[i] = ObeyingLog(b.logs[i], i)
      BY <1>2, BaselineFields, ObeyingFields
    <3>2. c.logs[i] = [b.logs[i] EXCEPT !.batch = i] /\ "batch" \in DOMAIN b.logs[i]
      BY <1>2, <3>1 DEF ObeyingLog, LogRecords
    <3> QED
      BY <3>2
  <2>5. Len(c.logs) = Len(b.logs)
    BY <1>2, <2>2 DEF Obeying
  <2> HIDE DEF c
  <2>6. BatchOf(c, "logs") = 1
    BY <2>2, <2>3, <2>4, BatchesOfOne
  <2>7. Effective(b, c)
    BY <1>2, <2>3, <2>5, <2>6 DEF Effective, LengthCases, CountCases
  <2> QED
    BY <2>7 DEF c
<1> QED
  BY <1>1, <1>2

(* A signal that was switched off is seen to be missing. *)
LEMMA SeenSwitches ==
  ASSUME NEW b \in Baselines, case \in {"disabled", "sampler"}
  PROVE  Effective(b, Obeying(b))
<1>1. CASE case = "disabled"
  BY <1>1 DEF Effective, Obeying, LengthCases, CountCases
<1>2. CASE case = "sampler"
  BY <1>2, ObeyingFields DEF Effective, LengthCases, CountCases
<1> QED
  BY <1>1, <1>2

(* Exemplars gained or lost are seen. *)
LEMMA SeenExemplars ==
  ASSUME NEW b \in Baselines, case \in {"exemplars", "exemplars-always-on"}, Exercised(b)
  PROVE  Effective(b, Obeying(b))
<1> DEFINE c == Obeying(b)
           E == IF case = "exemplars" THEN "none" ELSE "valid"
<1>1. DOMAIN c.points = DOMAIN b.points
  BY ObeyingFields
<1>2. ASSUME NEW i \in DOMAIN b.points
      PROVE  c.points[i].exemplars = E /\ PointID(c.points[i]) = PointID(b.points[i])
  <2>1. b.points[i] \in PointRecords /\ c.points[i] = ObeyingPoint(b.points[i])
    BY BaselineFields, ObeyingFields
  <2>2. c.points[i] = [b.points[i] EXCEPT !.exemplars = E] /\ "exemplars" \in DOMAIN b.points[i]
    BY <2>1 DEF ObeyingPoint, PointRecords
  <2>3. PointID(c.points[i]) = PointID(b.points[i])
    <3> HIDE DEF c
    <3> QED
      BY <2>1, ObeyedPoint
  <2> QED
    BY <2>2, <2>3
<1> HIDE DEF c
<1>3. {PointID(p) : p \in Records(b, "points")} \subseteq {PointID(p) : p \in Records(c, "points")}
  BY <1>1, <1>2, SameRecords
<1>4. \A p \in Records(c, "points") : p.exemplars = E
  BY <1>1, <1>2, SameRecords
<1>5. CASE case = "exemplars"
  <2>1. {PointID(p) : p \in WithExemplars(b)} \subseteq {PointID(p) : p \in Records(c, "points")}
    BY <1>3 DEF WithExemplars
  <2>2. Effective(b, c)
    BY <1>4, <1>5, <2>1 DEF Effective, ExemplarsSuppressed, LengthCases, CountCases
  <2> QED
    BY <2>2 DEF c
<1>6. CASE case = "exemplars-always-on"
  <2>1. Unsampled(b) \subseteq {PointID(p) : p \in {p \in Records(c, "points") : p.exemplars = "valid"}}
    BY <1>3, <1>4, <1>6 DEF Unsampled
  <2>2. c.spans = <<>>
    <3>1. b.spans = <<>>
      BY <1>6 DEF Exercised, LengthCases, CountCases
    <3> QED
      BY <1>6, <3>1 DEF c, Obeying
  <2>3. Effective(b, c)
    BY <1>6, <2>1, <2>2 DEF Effective, UnsampledGained, LengthCases, CountCases
  <2> QED
    BY <2>3 DEF c
<1> QED
  BY <1>5, <1>6

(* The captured header is seen on the span of every tagged request. *)
LEMMA SeenHeaders ==
  ASSUME NEW b \in Baselines, Ordinary(b), case = "request-headers", Exercised(b)
  PROVE  Effective(b, Obeying(b))
<1> DEFINE c == Obeying(b)
<1>1. AllProbes(c)
  <2>1. AllProbes(b)
    BY DEF Exercised, LengthCases, CountCases
  <2> QED
    BY <2>1, ObeyedProbes DEF AllProbes
<1>2. ASSUME NEW i \in ProbeSpans(b)
      PROVE  {a \in c.spans[i].attrs : a.key = "header"} = {Header}
  <2> DEFINE s == b.spans[i]
             agent == [key |-> "agent", len |-> UserAgent]
  <2>1. i \in DOMAIN b.spans /\ s.server /\ agent \in s.attrs
    BY DEF ProbeSpans
  <2>2. s \in SpanRecords /\ c.spans[i] = ObeyingSpan(s, i)
    BY <2>1, BaselineFields, ObeyingFields
  <2>3. s.name = "tags" /\ \A a \in s.attrs : a.key # "header"
    BY DEF Ordinary
  <2>4. agent.key = "agent" /\ agent.len > 0
    BY ExperimentsAssumption DEF UserAgent
  <2> HIDE DEF s, agent, c
  <2>5. IsPropagationProbe(s)
    BY <2>1, <2>3, <2>4 DEF IsPropagationProbe
  <2>6. c.spans[i] = [s EXCEPT !.attrs = @ \cup {Header}] /\ "attrs" \in DOMAIN s
    BY <2>2, <2>5 DEF ObeyingSpan, SpanRecords
  <2>7. c.spans[i].attrs = s.attrs \cup {Header} /\ Header.key = "header"
    BY <2>6 DEF Header
  <2> QED
    BY <2>3, <2>7
<1>3. ProbeSpans(c) = ProbeSpans(b)
  BY ObeyedProbes
<1> HIDE DEF c
<1>4. Effective(b, c)
  BY <1>1, <1>2, <1>3 DEF Effective, LengthCases, CountCases
<1> QED
  BY <1>4 DEF c

(* Events that were dropped are seen, with the count of them. *)
LEMMA SeenEvents ==
  ASSUME NEW b \in Baselines, case = "events", Exercised(b)
  PROVE  Effective(b, Obeying(b))
<1> DEFINE c == Obeying(b)
           D == DOMAIN b.spans
           Ids(x) == [i \in DOMAIN x.spans |->
                        <<x.spans[i].name, x.spans[i].attrs, x.spans[i].res>>]
<1>1. DOMAIN c.spans = D
  BY ObeyingFields
<1>2. ASSUME NEW i \in D
      PROVE  /\ c.spans[i].name = b.spans[i].name /\ c.spans[i].attrs = b.spans[i].attrs
             /\ c.spans[i].res = b.spans[i].res /\ c.spans[i].events = <<>>
             /\ c.spans[i].lost = b.spans[i].lost + Len(b.spans[i].events)
             /\ b.spans[i].lost \in Nat /\ b.spans[i].events \in Seq(SpanEvents)
  <2> DEFINE s == b.spans[i]
  <2>1. s \in SpanRecords /\ c.spans[i] = ObeyingSpan(s, i)
    BY BaselineFields, ObeyingFields
  <2>2. c.spans[i] = [s EXCEPT !.events = <<>>, !.lost = @ + Len(s.events)]
    BY <2>1 DEF ObeyingSpan
  <2>3. DOMAIN s = {"id", "trace", "parent", "name", "server", "attrs", "dropped", "events",
                    "lost", "res", "batch"}
        /\ s.lost \in Nat /\ s.events \in Seq(SpanEvents)
    BY <2>1 DEF SpanRecords
  <2> HIDE DEF c
  <2> QED
    BY <2>2, <2>3
<1> HIDE DEF c
<1>3. PICK n \in D : b.spans[n].events # <<>>
  <2>1. Events(b) # {}
    BY DEF Exercised, LengthCases, CountCases
  <2>2. PICK s \in Records(b, "spans") : ToSet(s.events) # {}
    BY <2>1 DEF Events
  <2>3. s.events # <<>>
    BY <2>2 DEF ToSet
  <2> QED
    BY <2>2, <2>3, SameRecords
<1>4. c.spans # <<>>
  BY <1>1, <1>3
<1>5. Events(c) = {}
  <2>1. \A s \in Records(c, "spans") : s.events = <<>>
    BY <1>1, <1>2, SameRecords
  <2>2. ToSet(<<>>) = {}
    BY DEF ToSet
  <2> QED
    BY <2>1, <2>2 DEF Events
<1>6. EventsSuppressed(b, c)
  <2>1. Ids(b) = Ids(c) /\ DOMAIN Ids(b) = D /\ DOMAIN Ids(c) = D
    BY <1>1, <1>2
  <2>2. /\ IdentifiedSpans(b) = {[id |-> Ordinal(Ids(b), i), of |-> b.spans[i]] : i \in D}
        /\ IdentifiedSpans(c) = {[id |-> Ordinal(Ids(c), i), of |-> c.spans[i]] : i \in D}
    BY <2>1 DEF IdentifiedSpans
  <2> HIDE DEF Ids, D
  <2>3. ASSUME NEW x \in IdentifiedSpans(b)
        PROVE  \E y \in IdentifiedSpans(c) :
                 y.id = x.id /\ y.of.events = <<>> /\ y.of.lost = x.of.lost + Len(x.of.events)
    <3>1. PICK k \in D : x = [id |-> Ordinal(Ids(b), k), of |-> b.spans[k]]
      BY <2>2
    <3>2. [id |-> Ordinal(Ids(b), k), of |-> c.spans[k]] \in IdentifiedSpans(c)
      BY <2>1, <2>2
    <3> QED
      BY <1>2, <3>1, <3>2
  <2> QED
    BY <2>3 DEF EventsSuppressed
<1>7. \E s \in Records(c, "spans") : s.lost > 0
  <2>1. Len(b.spans[n].events) \in Nat \ {0}
    BY <1>2, <1>3
  <2>2. c.spans[n].lost > 0
    BY <1>2, <2>1
  <2> QED
    BY <1>1, <2>2, SameRecords
<1>8. Effective(b, c)
  BY <1>4, <1>5, <1>6, <1>7 DEF Effective, LengthCases, CountCases
<1> QED
  BY <1>8 DEF c

(* The series by the positions of their points. *)
LEMMA SeriesByPosition ==
  ASSUME NEW c, NEW type
  PROVE  LET H == {i \in DOMAIN c.points : c.points[i].type = type /\ c.points[i].count > 0}
             Key(i) == <<c.points[i].name, c.points[i].state, Context(c.points[i])>>
         IN Series(c, type) =
              [k \in {Key(i) : i \in H} |->
                 MaxOf({c.points[i].count : i \in {i \in H : Key(i) = k}})]
<1> DEFINE H == {i \in DOMAIN c.points : c.points[i].type = type /\ c.points[i].count > 0}
           Of(p) == <<p.name, p.state, Context(p)>>
           P == {p \in Records(c, "points") : p.type = type /\ p.count > 0}
<1>1. P = {c.points[i] : i \in H}
  BY SameRecords
<1>2. {Of(p) : p \in P} = {Of(c.points[i]) : i \in H}
  BY <1>1
<1>3. ASSUME NEW k
      PROVE  {p.count : p \in {p \in P : Of(p) = k}}
               = {c.points[i].count : i \in {i \in H : Of(c.points[i]) = k}}
  <2> HIDE DEF H, Of, P
  <2> QED
    BY <1>1
<1>4. Series(c, type) = [k \in {Of(p) : p \in P} |->
                           MaxOf({p.count : p \in {p \in P : Of(p) = k}})]
  BY DEF Series
<1>5. Series(c, type) = [k \in {Of(c.points[i]) : i \in H} |->
                           MaxOf({c.points[i].count : i \in {i \in H : Of(c.points[i]) = k}})]
  <2> HIDE DEF H, Of, P
  <2> QED
    BY <1>2, <1>3, <1>4
<1> QED
  BY <1>5

(* Histograms that became exponential are seen. *)
LEMMA SeenHistogram ==
  ASSUME NEW b \in Baselines, Ordinary(b), case = "histogram"
  PROVE  Effective(b, Obeying(b))
<1> DEFINE c == Obeying(b)
           D == DOMAIN b.points
           H(x, type) == {i \in DOMAIN x.points : x.points[i].type = type /\ x.points[i].count > 0}
           Key(x, i) == <<x.points[i].name, x.points[i].state, Context(x.points[i])>>
<1>1. DOMAIN c.points = D
  BY ObeyingFields
<1>2. ASSUME NEW i \in D
      PROVE  /\ c.points[i].name = b.points[i].name /\ c.points[i].state = b.points[i].state
             /\ c.points[i].count = b.points[i].count
             /\ Context(c.points[i]) = Context(b.points[i])
             /\ c.points[i].type =
                  IF b.points[i].type = "histogram" THEN "exponential" ELSE b.points[i].type
             /\ b.points[i].type # "exponential"
             /\ b.points[i].type = "histogram" => b.points[i].count > 0
  <2> DEFINE p == b.points[i]
  <2>1. p \in PointRecords /\ c.points[i] = ObeyingPoint(p)
    BY BaselineFields, ObeyingFields
  <2>2. c.points[i] = [p EXCEPT !.type = IF @ = "histogram" THEN "exponential" ELSE @]
    BY <2>1 DEF ObeyingPoint
  <2>3. DOMAIN p = {"name", "state", "type", "count", "exemplars", "res", "group"}
    BY <2>1 DEF PointRecords
  <2>4. p \in Records(b, "points")
    BY SameRecords
  <2>5. p.type # "exponential" /\ (p.type = "histogram" => p.count > 0)
    BY <2>4 DEF Ordinary
  <2> HIDE DEF c, p
  <2>6. /\ c.points[i].name = p.name /\ c.points[i].state = p.state
        /\ c.points[i].count = p.count /\ c.points[i].res = p.res
        /\ c.points[i].type = IF p.type = "histogram" THEN "exponential" ELSE p.type
    BY <2>2, <2>3
  <2>7. Context(c.points[i]) = Context(p)
    BY <2>6 DEF Context
  <2> QED
    BY <2>5, <2>6, <2>7 DEF p
<1> HIDE DEF c, D
<1>3. H(b, "histogram") = H(c, "exponential") /\ H(b, "histogram") \subseteq D
  BY <1>1, <1>2 DEF D
<1>4. \A i \in H(b, "histogram") :
        Key(b, i) = Key(c, i) /\ b.points[i].count = c.points[i].count
  BY <1>2, <1>3
<1>5. Series(b, "histogram") = Series(c, "exponential")
  <2>1. Series(b, "histogram") =
          [k \in {Key(b, i) : i \in H(b, "histogram")} |->
             MaxOf({b.points[i].count : i \in {i \in H(b, "histogram") : Key(b, i) = k}})]
    BY SeriesByPosition
  <2>2. Series(c, "exponential") =
          [k \in {Key(c, i) : i \in H(c, "exponential")} |->
             MaxOf({c.points[i].count : i \in {i \in H(c, "exponential") : Key(c, i) = k}})]
    BY SeriesByPosition
  <2> HIDE DEF H, Key
  <2>3. \A k : {b.points[i].count : i \in {i \in H(b, "histogram") : Key(b, i) = k}}
                 = {c.points[i].count : i \in {i \in H(c, "exponential") : Key(c, i) = k}}
    BY <1>3, <1>4
  <2>4. {Key(b, i) : i \in H(b, "histogram")} = {Key(c, i) : i \in H(c, "exponential")}
    BY <1>3, <1>4
  <2> QED
    BY <2>1, <2>2, <2>3, <2>4
<1>6. \A p \in Records(c, "points") :
        p.type # "histogram" /\ (p.type = "exponential" => p.count > 0)
  BY <1>1, <1>2, SameRecords
<1>7. Effective(b, c)
  BY <1>5, <1>6 DEF Effective, HistogramsConverted, LengthCases, CountCases
<1> QED
  BY <1>7 DEF c

(* A function of finitely many arguments has finitely many values. *)
LEMMA ImageIsFinite ==
  ASSUME NEW f, IsFiniteSet(DOMAIN f)
  PROVE  IsFiniteSet({f[x] : x \in DOMAIN f})
<1> DEFINE S == DOMAIN f
           T == {f[x] : x \in S}
           g == [x \in S |-> f[x]]
<1>1. g \in Surjection(S, T)
  BY DEF Surjection
<1> HIDE DEF S, T, g
<1>2. IsFiniteSet(S)
  BY DEF S
<1>3. IsFiniteSet(T)
  BY <1>1, <1>2, FS_Surjection
<1> QED
  BY <1>3 DEF S, T

(* If the longest value is longer than the limit there is one that is. *)
LEMMA LongAttribute ==
  ASSUME NEW R, IsFiniteSet(R), \A r \in R : r.attrs \in AttributeSets, LengthOf(R) > Limit
  PROVE  \E r \in R : \E a \in r.attrs : a.len > Limit
<1> DEFINE L == UNION {{a.len : a \in r.attrs} : r \in R}
           lens == [r \in R |-> {a.len : a \in r.attrs}]
<1>1. \A r \in R : IsFiniteSet(lens[r]) /\ lens[r] \subseteq Nat
  <2> SUFFICES ASSUME NEW r \in R PROVE IsFiniteSet(lens[r]) /\ lens[r] \subseteq Nat
    OBVIOUS
  <2>1. IsFiniteSet(r.attrs) /\ r.attrs \subseteq Attributes
    BY DEF AttributeSets
  <2> DEFINE f == [a \in r.attrs |-> a.len]
  <2>2. IsFiniteSet({f[a] : a \in DOMAIN f})
    <3>1. DOMAIN f = r.attrs
      OBVIOUS
    <3> HIDE DEF f
    <3> QED
      BY <2>1, <3>1, ImageIsFinite
  <2>3. {f[a] : a \in DOMAIN f} = lens[r]
    OBVIOUS
  <2>4. lens[r] \subseteq Nat
    BY <2>1 DEF Attributes
  <2> QED
    BY <2>2, <2>3, <2>4
<1>2. L = UNION {lens[r] : r \in DOMAIN lens}
  OBVIOUS
<1>3. IsFiniteSet({lens[r] : r \in DOMAIN lens})
  <2>1. DOMAIN lens = R
    OBVIOUS
  <2> HIDE DEF lens
  <2> QED
    BY <2>1, ImageIsFinite
<1>4. IsFiniteSet(L) /\ L \subseteq Nat
  <2>1. DOMAIN lens = R
    OBVIOUS
  <2> HIDE DEF lens, L
  <2>2. \A T \in {lens[r] : r \in DOMAIN lens} : IsFiniteSet(T) /\ T \subseteq Nat
    BY <1>1, <2>1
  <2>3. IsFiniteSet(UNION {lens[r] : r \in DOMAIN lens})
    BY <1>3, <2>2, FS_UNION
  <2> QED
    BY <1>2, <2>2, <2>3
<1>5. LengthOf(R) = MaxOf(L) /\ Limit \in Nat
  BY ExperimentsAssumption DEF LengthOf
<1>6. MaxOf(L) > Limit
  BY <1>5
<1>7. MaxOf(L) \in L
  <2> HIDE DEF L
  <2>1. L # {}
    BY <1>5, <1>6 DEF MaxOf
  <2> QED
    BY <1>4, <2>1, FiniteHasLargest
<1> HIDE DEF lens
<1> QED
  BY <1>6, <1>7

(* Records that are cut to the limit, some of which were longer. *)
LEMMA CutToTheLimit ==
  ASSUME NEW R, \A r \in R : \E A \in SUBSET Attributes : r.attrs = Shortened(A),
         \E r \in R : \E A \in SUBSET Attributes :
           r.attrs = Shortened(A) /\ \E a \in A : a.len > Limit
  PROVE  LengthOf(R) = Limit
<1> DEFINE L == UNION {{a.len : a \in r.attrs} : r \in R}
           short(a) == [a EXCEPT !.len = IF @ > Limit THEN Limit ELSE @]
<1>1. Limit \in Nat
  BY ExperimentsAssumption
<1>2. ASSUME NEW a \in Attributes
      PROVE  /\ short(a).len \in Nat /\ short(a).len <= Limit
             /\ a.len > Limit => short(a).len = Limit
  <2>1. a.len \in Nat /\ DOMAIN a = {"key", "len"}
    BY DEF Attributes
  <2> QED
    BY <1>1, <2>1
<1>3. \A A : Shortened(A) = {short(a) : a \in A}
  BY DEF Shortened
<1> HIDE DEF short
<1>4. ASSUME NEW n \in L
      PROVE  n \in Nat /\ n <= Limit
  <2>1. PICK r \in R : n \in {a.len : a \in r.attrs}
    OBVIOUS
  <2>2. PICK A \in SUBSET Attributes : r.attrs = Shortened(A)
    OBVIOUS
  <2>3. PICK a \in A : n = short(a).len
    BY <1>3, <2>1, <2>2
  <2> QED
    BY <1>2, <2>3
<1>5. Limit \in L
  <2>1. PICK r \in R : \E A \in SUBSET Attributes :
          r.attrs = Shortened(A) /\ \E a \in A : a.len > Limit
    OBVIOUS
  <2>2. PICK A \in SUBSET Attributes : r.attrs = Shortened(A) /\ \E a \in A : a.len > Limit
    BY <2>1
  <2>3. PICK a \in A : a.len > Limit
    BY <2>2
  <2>4. short(a) \in r.attrs /\ short(a).len = Limit
    BY <1>2, <1>3, <2>2, <2>3
  <2>5. Limit \in {x.len : x \in r.attrs}
    BY <2>4
  <2> QED
    BY <2>5
<1>6. LengthOf(R) = MaxOf(L)
  BY DEF LengthOf
<1> HIDE DEF L
<1>7. L \in SUBSET Nat
  BY <1>4
<1> QED
  BY <1>4, <1>5, <1>6, <1>7, LargestIsIn

(* Every value that was too long is found on the record of the same identity. *)
LEMMA CutIsFound ==
  ASSUME NEW before, NEW after,
         \A r \in before : r.of.attrs \in SUBSET Attributes,
         \A r \in before : \E q \in after : q.id = r.id /\ q.of.attrs = Shortened(r.of.attrs),
         \E r \in before : \E a \in r.of.attrs : a.len > Limit
  PROVE  LongPreserved(before, after)
<1> DEFINE TooLong(r) == {<<r.id, [a EXCEPT !.len = Limit]>> : a \in {a \in r.of.attrs : a.len > Limit}}
           cut == UNION {TooLong(r) : r \in before}
<1>1. cut # {}
  <2>1. PICK r \in before : \E a \in r.of.attrs : a.len > Limit
    OBVIOUS
  <2>2. PICK a \in r.of.attrs : a.len > Limit
    BY <2>1
  <2>3. <<r.id, [a EXCEPT !.len = Limit]>> \in TooLong(r)
    BY <2>2
  <2> HIDE DEF TooLong
  <2> QED
    BY <2>3
<1>2. ASSUME NEW l \in cut
      PROVE  \E q \in after : q.id = l[1] /\ l[2] \in q.of.attrs
  <2>1. PICK r \in before : l \in TooLong(r)
    OBVIOUS
  <2>2. PICK a \in r.of.attrs : a.len > Limit /\ l = <<r.id, [a EXCEPT !.len = Limit]>>
    BY <2>1
  <2>3. PICK q \in after : q.id = r.id /\ q.of.attrs = Shortened(r.of.attrs)
    OBVIOUS
  <2>4. [a EXCEPT !.len = Limit] \in Shortened(r.of.attrs)
    <3>1. [a EXCEPT !.len = IF @ > Limit THEN Limit ELSE @] = [a EXCEPT !.len = Limit]
      <4>1. a \in Attributes
        OBVIOUS
      <4> QED
        BY <2>2, <4>1 DEF Attributes
    <3> QED
      BY <2>2, <3>1 DEF Shortened
  <2> QED
    BY <2>2, <2>3, <2>4
<1> QED
  BY <1>1, <1>2 DEF LongPreserved

(* Two captures whose nested sequences correspond entry by entry. *)
LEMMA FlattenAlike ==
  ASSUME NEW S, NEW R, NEW n \in Nat \ {0},
         NEW X \in [1 .. n -> Seq(S)], NEW Y \in [1 .. n -> Seq(S)],
         \A i \in 1 .. n : Len(X[i]) = Len(Y[i]) /\
           \A k \in 1 .. Len(X[i]) : <<X[i][k], Y[i][k]>> \in R
  PROVE  /\ FlattenSeq(X) \in Seq(S) /\ FlattenSeq(Y) \in Seq(S)
         /\ Len(FlattenSeq(X)) = Len(FlattenSeq(Y))
         /\ \A k \in 1 .. Len(FlattenSeq(X)) : <<FlattenSeq(X)[k], FlattenSeq(Y)[k]>> \in R
<1> DEFINE Agree(s, t) ==
             /\ s \in Seq(S) /\ t \in Seq(S) /\ Len(s) = Len(t)
             /\ \A k \in 1 .. Len(s) : <<s[k], t[k]>> \in R
<1>1. ASSUME NEW s, NEW t, NEW u, NEW v, Agree(s, t), Agree(u, v)
      PROVE  Agree(s \o u, t \o v)
  <2>0. /\ {s, t, u, v} \subseteq Seq(S) /\ Len(s) = Len(t) /\ Len(u) = Len(v)
        /\ Len(s) \in Nat /\ Len(u) \in Nat
    BY <1>1
  <2>1. /\ s \o u \in Seq(S) /\ t \o v \in Seq(S)
        /\ Len(s \o u) = Len(s) + Len(u) /\ Len(t \o v) = Len(s) + Len(u)
    <3>1. s \in Seq(S) /\ t \in Seq(S) /\ u \in Seq(S) /\ v \in Seq(S)
      BY <2>0
    <3> HIDE DEF Agree
    <3>2. s \o u \in Seq(S) /\ Len(s \o u) = Len(s) + Len(u)
      BY <3>1, ConcatProperties
    <3>3. t \o v \in Seq(S) /\ Len(t \o v) = Len(t) + Len(v)
      BY <3>1, ConcatProperties
    <3> QED
      BY <2>0, <3>2, <3>3
  <2>2. ASSUME NEW k \in 1 .. Len(s \o u)
        PROVE  <<(s \o u)[k], (t \o v)[k]>> \in R
    <3>1. CASE k <= Len(s)
      <4>1. (s \o u)[k] = s[k] /\ (t \o v)[k] = t[k] /\ k \in 1 .. Len(s)
        BY <2>0, <2>1, <3>1
      <4> QED
        BY <1>1, <4>1
    <3>2. CASE ~(k <= Len(s))
      <4>1. /\ (s \o u)[k] = u[k - Len(s)] /\ (t \o v)[k] = v[k - Len(s)]
            /\ k - Len(s) \in 1 .. Len(u)
        BY <2>0, <2>1, <3>2
      <4> QED
        BY <1>1, <4>1
    <3> QED
      BY <3>1, <3>2
  <2> QED
    BY <2>1, <2>2
<1>2. \A i \in 1 .. n : Agree(X[i], Y[i])
  OBVIOUS
<1>3. Len(X) = n /\ Len(Y) = n
  OBVIOUS
<1>4. PICK f : /\ f[1] = X[1] /\ \A i \in 2 .. n : f[i] = f[i - 1] \o X[i]
               /\ FlattenSeq(X) = f[n]
  BY <1>3, FlattenUnfolds
<1>5. PICK g : /\ g[1] = Y[1] /\ \A i \in 2 .. n : g[i] = g[i - 1] \o Y[i]
               /\ FlattenSeq(Y) = g[n]
  BY <1>3, FlattenUnfolds
<1> HIDE DEF Agree
<1> DEFINE T == {j \in Nat : j + 1 <= n => Agree(f[j + 1], g[j + 1])}
<1>6. 0 \in T
  BY <1>2, <1>4, <1>5
<1>7. ASSUME NEW j \in Nat, j \in T
      PROVE  j + 1 \in T
  <2> SUFFICES ASSUME j + 2 <= n PROVE Agree(f[j + 2], g[j + 2])
    OBVIOUS
  <2>1. j + 2 \in 2 .. n /\ (j + 2) - 1 = j + 1
    OBVIOUS
  <2>2. f[j + 2] = f[j + 1] \o X[j + 2] /\ g[j + 2] = g[j + 1] \o Y[j + 2]
    BY <1>4, <1>5, <2>1
  <2>3. Agree(f[j + 1], g[j + 1]) /\ Agree(X[j + 2], Y[j + 2])
    BY <1>2, <1>7, <2>1
  <2> QED
    BY <1>1, <2>2, <2>3
<1>8. n - 1 \in T
  <2>1. n - 1 \in Nat
    OBVIOUS
  <2> HIDE DEF T
  <2> QED
    BY <1>6, <1>7, <2>1, NaturalInduction
<1>9. Agree(FlattenSeq(X), FlattenSeq(Y))
  BY <1>4, <1>5, <1>8
<1> QED
  BY <1>9 DEF Agree

(* What an SDK that obeys a length setting changes. *)
LEMMA Shorter ==
  ASSUME NEW b \in Baselines, case \in LengthCases
  PROVE  LET c == Obeying(b)
         IN /\ DOMAIN c.spans = DOMAIN b.spans /\ DOMAIN c.logs = DOMAIN b.logs
            /\ \A i \in DOMAIN b.spans :
                 /\ c.spans[i].trace = b.spans[i].trace /\ c.spans[i].name = b.spans[i].name
                 /\ c.spans[i].res = b.spans[i].res
                 /\ b.spans[i].attrs \in AttributeSets /\ b.spans[i].events \in Seq(SpanEvents)
                 /\ case # "log-length" => c.spans[i].attrs = Shortened(b.spans[i].attrs)
                 /\ case = "attribute-length" =>
                      c.spans[i].events = ShortenedEvents(b.spans[i].events)
            /\ \A i \in DOMAIN b.logs :
                 /\ c.logs[i].body = b.logs[i].body /\ c.logs[i].res = b.logs[i].res
                 /\ b.logs[i].attrs \in AttributeSets
                 /\ case # "span-length" => c.logs[i].attrs = Shortened(b.logs[i].attrs)
<1> DEFINE c == Obeying(b)
<1>1. /\ DOMAIN c.spans = DOMAIN b.spans /\ DOMAIN c.logs = DOMAIN b.logs
      /\ \A i \in DOMAIN b.spans :
           b.spans[i] \in SpanRecords /\ c.spans[i] = ObeyingSpan(b.spans[i], i)
      /\ \A i \in DOMAIN b.logs :
           b.logs[i] \in LogRecords /\ c.logs[i] = ObeyingLog(b.logs[i], i)
  BY ObeyingFields, BaselineFields DEF LengthCases
<1> HIDE DEF c
<1>2. ASSUME NEW i \in DOMAIN b.spans
      PROVE  /\ c.spans[i].trace = b.spans[i].trace /\ c.spans[i].name = b.spans[i].name
             /\ c.spans[i].res = b.spans[i].res
             /\ b.spans[i].attrs \in AttributeSets /\ b.spans[i].events \in Seq(SpanEvents)
             /\ case # "log-length" => c.spans[i].attrs = Shortened(b.spans[i].attrs)
             /\ case = "attribute-length" =>
                  c.spans[i].events = ShortenedEvents(b.spans[i].events)
  <2> DEFINE s == b.spans[i]
  <2>1. /\ DOMAIN s = {"id", "trace", "parent", "name", "server", "attrs", "dropped", "events",
                       "lost", "res", "batch"}
        /\ s.attrs \in AttributeSets /\ s.events \in Seq(SpanEvents)
        /\ c.spans[i] = ObeyingSpan(s, i)
    BY <1>1 DEF SpanRecords
  <2> HIDE DEF s
  <2>2. CASE case = "span-length"
    <3>1. c.spans[i] = [s EXCEPT !.attrs = Shortened(@)]
      BY <2>1, <2>2 DEF ObeyingSpan
    <3> QED
      BY <2>1, <2>2, <3>1 DEF s
  <2>3. CASE case = "attribute-length"
    <3>1. c.spans[i] = [s EXCEPT !.attrs = Shortened(@), !.events = ShortenedEvents(@)]
      BY <2>1, <2>3 DEF ObeyingSpan
    <3> QED
      BY <2>1, <2>3, <3>1 DEF s
  <2>4. CASE case = "log-length"
    <3>1. c.spans[i] = s
      BY <2>1, <2>4 DEF ObeyingSpan, Named
    <3> QED
      BY <2>1, <2>4, <3>1 DEF s
  <2> QED
    BY <2>2, <2>3, <2>4 DEF LengthCases
<1>3. ASSUME NEW i \in DOMAIN b.logs
      PROVE  /\ c.logs[i].body = b.logs[i].body /\ c.logs[i].res = b.logs[i].res
             /\ b.logs[i].attrs \in AttributeSets
             /\ case # "span-length" => c.logs[i].attrs = Shortened(b.logs[i].attrs)
  <2> DEFINE l == b.logs[i]
  <2>1. /\ DOMAIN l = {"body", "attrs", "dropped", "trace", "span", "res", "batch"}
        /\ l.attrs \in AttributeSets /\ c.logs[i] = ObeyingLog(l, i)
    BY <1>1 DEF LogRecords
  <2> HIDE DEF l
  <2>2. CASE case = "span-length"
    <3>1. c.logs[i] = l
      BY <2>1, <2>2 DEF ObeyingLog, Named
    <3> QED
      BY <2>1, <2>2, <3>1 DEF l
  <2>3. CASE case \in {"attribute-length", "log-length"}
    <3>1. c.logs[i] = [l EXCEPT !.attrs = Shortened(@)]
      BY <2>1, <2>3 DEF ObeyingLog
    <3> QED
      BY <2>1, <2>3, <3>1 DEF l
  <2> QED
    BY <2>2, <2>3 DEF LengthCases
<1> QED
  BY <1>1, <1>2, <1>3 DEF c

(* The user agent of a tagged request is longer than the limit. *)
LEMMA ProbesAreLong ==
  ASSUME NEW b, AllProbes(b)
  PROVE  \E i \in DOMAIN b.spans :
           b.spans[i].trace \in Incoming /\ \E a \in b.spans[i].attrs : a.len > Limit
<1> DEFINE agent == [key |-> "agent", len |-> UserAgent]
<1>1. Cardinality(IncomingProbeTraces(b)) # 0
  BY ExperimentsAssumption DEF AllProbes
<1>2. IncomingProbeTraces(b) # {}
  BY <1>1, FS_EmptySet
<1>3. PICK i \in ProbeSpans(b) : b.spans[i].trace \in Incoming
  BY <1>2 DEF IncomingProbeTraces
<1>4. agent.len = 2 * Limit + 4 /\ 2 * Limit + 4 > Limit
  BY ExperimentsAssumption DEF UserAgent
<1>5. i \in DOMAIN b.spans /\ agent \in b.spans[i].attrs
  BY <1>3 DEF ProbeSpans
<1> HIDE DEF agent
<1> QED
  BY <1>3, <1>4, <1>5

(* Every long attribute of an incoming span is found (identifiedIncomingSpans). *)
LEMMA IncomingAreFound ==
  ASSUME NEW b \in Baselines, case \in {"span-length", "attribute-length"}
  PROVE  LET before == IdentifiedIncoming(b)
             after == IdentifiedIncoming(Obeying(b))
         IN /\ \A r \in before : r.of.attrs \in SUBSET Attributes
            /\ \A r \in before : \E q \in after : q.id = r.id /\ q.of.attrs = Shortened(r.of.attrs)
            /\ AllProbes(b) => \E r \in before : \E a \in r.of.attrs : a.len > Limit
<1> DEFINE c == Obeying(b)
           D == DOMAIN b.spans
           Ids(x) == [i \in DOMAIN x.spans |->
                        <<x.spans[i].trace, x.spans[i].name, x.spans[i].res>>]
           before == IdentifiedIncoming(b)
           after == IdentifiedIncoming(c)
<1>1. /\ DOMAIN c.spans = D
      /\ \A i \in D : /\ c.spans[i].trace = b.spans[i].trace /\ c.spans[i].name = b.spans[i].name
                      /\ c.spans[i].res = b.spans[i].res
                      /\ b.spans[i].attrs \in SUBSET Attributes
                      /\ c.spans[i].attrs = Shortened(b.spans[i].attrs)
  BY Shorter DEF LengthCases, AttributeSets
<1> HIDE DEF c
<1>2. Ids(b) = Ids(c) /\ DOMAIN Ids(b) = D /\ DOMAIN Ids(c) = D
  BY <1>1
<1>3. /\ before = {[id |-> <<"span", Ordinal(Ids(b), i)>>, of |-> b.spans[i]] :
                     i \in {i \in D : b.spans[i].trace \in Incoming}}
      /\ after = {[id |-> <<"span", Ordinal(Ids(c), i)>>, of |-> c.spans[i]] :
                    i \in {i \in D : c.spans[i].trace \in Incoming}}
  BY <1>2 DEF IdentifiedIncoming
<1> HIDE DEF Ids, D, before, after
<1>4. ASSUME NEW r \in before
      PROVE  /\ r.of.attrs \in SUBSET Attributes
             /\ \E q \in after : q.id = r.id /\ q.of.attrs = Shortened(r.of.attrs)
  <2>1. PICK i \in D : /\ b.spans[i].trace \in Incoming
                       /\ r = [id |-> <<"span", Ordinal(Ids(b), i)>>, of |-> b.spans[i]]
    BY <1>3
  <2>2. [id |-> <<"span", Ordinal(Ids(b), i)>>, of |-> c.spans[i]] \in after
    BY <1>1, <1>2, <1>3, <2>1
  <2> QED
    BY <1>1, <2>1, <2>2
<1>5. ASSUME AllProbes(b)
      PROVE  \E r \in before : \E a \in r.of.attrs : a.len > Limit
  <2>1. PICK i \in D : b.spans[i].trace \in Incoming /\ \E a \in b.spans[i].attrs : a.len > Limit
    BY <1>5, ProbesAreLong DEF D
  <2>2. [id |-> <<"span", Ordinal(Ids(b), i)>>, of |-> b.spans[i]] \in before
    BY <1>3, <2>1
  <2> QED
    BY <2>1, <2>2
<1> QED
  BY <1>4, <1>5 DEF before, after, c

(* Every long attribute of a log is found (identifiedLogRecords). *)
LEMMA LogsAreFound ==
  ASSUME NEW b \in Baselines, case \in {"log-length", "attribute-length"}
  PROVE  LET before == IdentifiedLogs(b)
             after == IdentifiedLogs(Obeying(b))
         IN /\ \A r \in before : r.of.attrs \in SUBSET Attributes
            /\ \A r \in before : \E q \in after : q.id = r.id /\ q.of.attrs = Shortened(r.of.attrs)
            /\ (\E l \in Records(b, "logs") : \E a \in l.attrs : a.len > Limit) =>
                 \E r \in before : \E a \in r.of.attrs : a.len > Limit
<1> DEFINE c == Obeying(b)
           D == DOMAIN b.logs
           Ids(x) == [i \in DOMAIN x.logs |-> <<x.logs[i].body, x.logs[i].res>>]
           before == IdentifiedLogs(b)
           after == IdentifiedLogs(c)
<1>1. /\ DOMAIN c.logs = D
      /\ \A i \in D : /\ c.logs[i].body = b.logs[i].body /\ c.logs[i].res = b.logs[i].res
                      /\ b.logs[i].attrs \in SUBSET Attributes
                      /\ c.logs[i].attrs = Shortened(b.logs[i].attrs)
  BY Shorter DEF LengthCases, AttributeSets
<1> HIDE DEF c
<1>2. Ids(b) = Ids(c) /\ DOMAIN Ids(b) = D /\ DOMAIN Ids(c) = D
  BY <1>1
<1>3. /\ before = {[id |-> <<"log", Ordinal(Ids(b), i)>>, of |-> b.logs[i]] : i \in D}
      /\ after = {[id |-> <<"log", Ordinal(Ids(c), i)>>, of |-> c.logs[i]] : i \in D}
  BY <1>2 DEF IdentifiedLogs
<1>4. Records(b, "logs") = {b.logs[i] : i \in D}
  BY SameRecords
<1> HIDE DEF Ids, D, before, after
<1>5. ASSUME NEW r \in before
      PROVE  /\ r.of.attrs \in SUBSET Attributes
             /\ \E q \in after : q.id = r.id /\ q.of.attrs = Shortened(r.of.attrs)
  <2>1. PICK i \in D : r = [id |-> <<"log", Ordinal(Ids(b), i)>>, of |-> b.logs[i]]
    BY <1>3
  <2>2. [id |-> <<"log", Ordinal(Ids(b), i)>>, of |-> c.logs[i]] \in after
    BY <1>2, <1>3
  <2> QED
    BY <1>1, <2>1, <2>2
<1>6. ASSUME NEW l \in Records(b, "logs"), \E a \in l.attrs : a.len > Limit
      PROVE  \E r \in before : \E a \in r.of.attrs : a.len > Limit
  <2>1. PICK i \in D : l = b.logs[i]
    BY <1>4
  <2>2. [id |-> <<"log", Ordinal(Ids(b), i)>>, of |-> b.logs[i]] \in before
    BY <1>3
  <2> QED
    BY <1>6, <2>1, <2>2
<1> QED
  BY <1>5, <1>6 DEF before, after, c

(* Every event of a capture, one span after the other. *)
EventEntry(d, i, k) ==
  [id |-> <<LengthLimited(d.spans[i]), d.spans[i].res, Relationship(d, d.spans[i]),
            d.spans[i].events[k].name>>,
   of |-> d.spans[i].events[k]]
EventEntries(d) ==
  [i \in DOMAIN d.spans |-> [k \in DOMAIN d.spans[i].events |-> EventEntry(d, i, k)]]

LengthEvents(d) == IdentifiedEvents(d, LengthLimited)

(* The identified events by the position of their entries. *)
LEMMA EventsByPosition ==
  ASSUME NEW d
  PROVE  LET all == FlattenSeq(EventEntries(d))
             ids == [i \in DOMAIN all |-> all[i].id]
         IN LengthEvents(d) =
              {[id |-> <<"event", Ordinal(ids, i)>>, of |-> all[i].of] : i \in DOMAIN all}
BY DEF LengthEvents, IdentifiedEvents, EventEntries, EventEntry

(* The entries of a capture and of that of an SDK that obeys correspond. *)
LEMMA EntriesAlike ==
  ASSUME NEW b \in Baselines, case = "attribute-length", b.spans # <<>>
  PROVE  LET c == Obeying(b)
             X == FlattenSeq(EventEntries(b))
             Y == FlattenSeq(EventEntries(c))
         IN /\ DOMAIN X = DOMAIN Y
            /\ \A k \in DOMAIN X :
                 /\ X[k].id = Y[k].id /\ X[k].of.attrs \in SUBSET Attributes
                 /\ Y[k].of.attrs = Shortened(X[k].of.attrs)
<1> DEFINE c == Obeying(b)
           n == Len(b.spans)
           Of(d) == UNION {{EventEntry(d, i, k) : k \in DOMAIN d.spans[i].events} : i \in 1 .. n}
           S == Of(b) \cup Of(c)
           R == {xy \in S \X S : /\ xy[1].id = xy[2].id
                                 /\ xy[1].of.attrs \in SUBSET Attributes
                                 /\ xy[2].of.attrs = Shortened(xy[1].of.attrs)}
           X == EventEntries(b)
           Y == EventEntries(c)
<1>1. /\ n \in Nat \ {0} /\ DOMAIN b.spans = 1 .. n /\ DOMAIN c.spans = 1 .. n
      /\ Alike(b, c) /\ DOMAIN b.spans \subseteq Nat
  <2>1. b.spans \in Seq(SpanRecords) /\ DOMAIN b.spans = 1 .. n
    BY BaselineFields
  <2>2. n \in Nat \ {0}
    BY <2>1
  <2>3. DOMAIN c.spans = DOMAIN b.spans
    BY ObeyingFields
  <2>4. Alike(b, c) /\ DOMAIN b.spans \subseteq Nat
    BY ObeyedSpans DEF Settled, LengthCases
  <2> QED
    BY <2>1, <2>2, <2>3, <2>4
<1>2. ASSUME NEW i \in 1 .. n
      PROVE  /\ c.spans[i].res = b.spans[i].res
             /\ LengthLimited(c.spans[i]) = LengthLimited(b.spans[i])
             /\ Relationship(c, c.spans[i]) = Relationship(b, b.spans[i])
             /\ b.spans[i].events \in Seq(SpanEvents)
             /\ c.spans[i].events = ShortenedEvents(b.spans[i].events)
  <2>1. SpanForm(b.spans[i]) = SpanForm(c.spans[i])
    BY <1>1 DEF Alike
  <2>2. Relationship(c, c.spans[i]) = Relationship(b, b.spans[i])
    BY <1>1, AlikeSpans
  <2>3. LengthLimited(c.spans[i]) = LengthLimited(b.spans[i])
    BY <2>1 DEF SpanForm
  <2> QED
    BY <1>1, <2>2, <2>3, Shorter DEF LengthCases
<1> HIDE DEF c, n
<1>3. ASSUME NEW i \in 1 .. n
      PROVE  /\ DOMAIN c.spans[i].events = DOMAIN b.spans[i].events
             /\ DOMAIN b.spans[i].events = 1 .. Len(b.spans[i].events)
             /\ Len(b.spans[i].events) \in Nat
             /\ \A k \in DOMAIN b.spans[i].events :
                  /\ EventEntry(b, i, k).id = EventEntry(c, i, k).id
                  /\ EventEntry(b, i, k).of.attrs \in SUBSET Attributes
                  /\ EventEntry(c, i, k).of.attrs = Shortened(EventEntry(b, i, k).of.attrs)
  <2> DEFINE events == b.spans[i].events
             after == c.spans[i].events
  <2>1. events \in Seq(SpanEvents) /\ after = ShortenedEvents(events)
    BY <1>2
  <2>2. DOMAIN after = DOMAIN events /\ DOMAIN events = 1 .. Len(events) /\ Len(events) \in Nat
    BY <2>1 DEF ShortenedEvents
  <2>3. ASSUME NEW k \in DOMAIN events
        PROVE  /\ after[k].name = events[k].name /\ events[k].attrs \in SUBSET Attributes
               /\ after[k].attrs = Shortened(events[k].attrs)
    <3> DEFINE e == events[k]
    <3>0. e \in SpanEvents
      <4> HIDE DEF events
      <4> QED
        BY <2>1
    <3>1. DOMAIN e = {"name", "attrs", "dropped"} /\ e.attrs \in SUBSET Attributes
      BY <3>0 DEF SpanEvents, AttributeSets
    <3>2. after[k] = [e EXCEPT !.attrs = Shortened(@)]
      BY <2>1 DEF ShortenedEvents
    <3> HIDE DEF e
    <3> QED
      BY <3>1, <3>2 DEF e
  <2>4. ASSUME NEW k \in DOMAIN events
        PROVE  /\ EventEntry(b, i, k).id = EventEntry(c, i, k).id
               /\ EventEntry(b, i, k).of = events[k] /\ EventEntry(c, i, k).of = after[k]
    BY <1>2, <2>3 DEF EventEntry
  <2> QED
    BY <2>2, <2>3, <2>4
<1>4. /\ X = [i \in 1 .. n |-> [k \in DOMAIN b.spans[i].events |-> EventEntry(b, i, k)]]
      /\ Y = [i \in 1 .. n |-> [k \in DOMAIN c.spans[i].events |-> EventEntry(c, i, k)]]
  BY <1>1 DEF EventEntries
<1>5. ASSUME NEW i \in 1 .. n, NEW k \in DOMAIN b.spans[i].events
      PROVE  EventEntry(b, i, k) \in S /\ EventEntry(c, i, k) \in S
  <2>1. k \in DOMAIN c.spans[i].events
    BY <1>3
  <2>2. EventEntry(b, i, k) \in Of(b)
    OBVIOUS
  <2>3. EventEntry(c, i, k) \in Of(c)
    BY <2>1
  <2> QED
    BY <2>2, <2>3
<1> HIDE DEF S, X, Y
<1>6. ASSUME NEW i \in 1 .. n
      PROVE  /\ X[i] \in Seq(S) /\ Y[i] \in Seq(S) /\ Len(X[i]) = Len(Y[i])
             /\ \A k \in 1 .. Len(X[i]) : <<X[i][k], Y[i][k]>> \in R
  <2> DEFINE m == Len(b.spans[i].events)
  <2>1. m \in Nat /\ DOMAIN b.spans[i].events = 1 .. m /\ DOMAIN c.spans[i].events = 1 .. m
    BY <1>3
  <2> HIDE DEF m
  <2>2. /\ X[i] = [k \in 1 .. m |-> EventEntry(b, i, k)]
        /\ Y[i] = [k \in 1 .. m |-> EventEntry(c, i, k)]
    BY <1>4, <2>1
  <2>3. \A k \in 1 .. m : EventEntry(b, i, k) \in S /\ EventEntry(c, i, k) \in S
    BY <1>5, <2>1
  <2>4. X[i] \in Seq(S) /\ Y[i] \in Seq(S) /\ Len(X[i]) = m /\ Len(Y[i]) = m
    BY <2>1, <2>2, <2>3
  <2>5. ASSUME NEW k \in 1 .. m
        PROVE  <<X[i][k], Y[i][k]>> \in R
    <3>1. X[i][k] = EventEntry(b, i, k) /\ Y[i][k] = EventEntry(c, i, k)
      BY <2>2
    <3>2. /\ X[i][k] \in S /\ Y[i][k] \in S
          /\ X[i][k].id = Y[i][k].id /\ X[i][k].of.attrs \in SUBSET Attributes
          /\ Y[i][k].of.attrs = Shortened(X[i][k].of.attrs)
      BY <1>3, <2>1, <2>3, <3>1
    <3> QED
      BY <3>2
  <2> QED
    BY <2>4, <2>5
<1>7. X \in [1 .. n -> Seq(S)] /\ Y \in [1 .. n -> Seq(S)]
  <2>1. DOMAIN X = 1 .. n /\ DOMAIN Y = 1 .. n /\ X = [i \in 1 .. n |-> X[i]]
        /\ Y = [i \in 1 .. n |-> Y[i]]
    BY <1>4
  <2> QED
    BY <1>6, <2>1
<1> HIDE DEF R, Of
<1>a. \A i \in 1 .. n : Len(X[i]) = Len(Y[i]) /\
        \A k \in 1 .. Len(X[i]) : <<X[i][k], Y[i][k]>> \in R
  BY <1>6
<1>8. /\ FlattenSeq(X) \in Seq(S) /\ FlattenSeq(Y) \in Seq(S)
      /\ Len(FlattenSeq(X)) = Len(FlattenSeq(Y))
      /\ \A k \in 1 .. Len(FlattenSeq(X)) : <<FlattenSeq(X)[k], FlattenSeq(Y)[k]>> \in R
  BY <1>1, <1>7, <1>a, FlattenAlike, Zenon
<1> DEFINE x == FlattenSeq(X)
           y == FlattenSeq(Y)
<1>9. /\ DOMAIN x = 1 .. Len(x) /\ DOMAIN y = 1 .. Len(x)
      /\ \A k \in DOMAIN x : <<x[k], y[k]>> \in R
  <2>1. x \in Seq(S) /\ y \in Seq(S) /\ Len(x) = Len(y)
        /\ \A k \in 1 .. Len(x) : <<x[k], y[k]>> \in R
    BY <1>8
  <2> HIDE DEF x, y
  <2> QED
    BY <2>1
<1>10. /\ DOMAIN x = DOMAIN y
       /\ \A k \in DOMAIN x :
            /\ x[k].id = y[k].id /\ x[k].of.attrs \in SUBSET Attributes
            /\ y[k].of.attrs = Shortened(x[k].of.attrs)
  <2> HIDE DEF x, y
  <2> QED
    BY <1>9 DEF R
<1> QED
  BY <1>10 DEF X, Y, c

(* Every long attribute of an event is found (identifiedGlobalEvents). *)
LEMMA EventsAreFound ==
  ASSUME NEW b \in Baselines, case = "attribute-length", b.spans # <<>>,
         NEW before, before = LengthEvents(b),
         NEW after, after = LengthEvents(Obeying(b))
  PROVE  /\ \A r \in before : r.of.attrs \in SUBSET Attributes
         /\ \A r \in before : \E q \in after : q.id = r.id /\ q.of.attrs = Shortened(r.of.attrs)
         /\ {<<e.id, Shortened(e.of.attrs)>> : e \in before}
              = {<<e.id, Shortened(e.of.attrs)>> : e \in after}
<1> DEFINE X == FlattenSeq(EventEntries(b))
           Y == FlattenSeq(EventEntries(Obeying(b)))
           D == DOMAIN X
           Ids(all) == [i \in DOMAIN all |-> all[i].id]
<1>1. /\ D = DOMAIN Y
      /\ \A k \in D : /\ X[k].id = Y[k].id /\ X[k].of.attrs \in SUBSET Attributes
                      /\ Y[k].of.attrs = Shortened(X[k].of.attrs)
  BY EntriesAlike
<1>2. before = {[id |-> <<"event", Ordinal(Ids(X), i)>>, of |-> X[i].of] : i \in DOMAIN X}
  BY EventsByPosition, Zenon
<1>3. after = {[id |-> <<"event", Ordinal(Ids(Y), i)>>, of |-> Y[i].of] : i \in DOMAIN Y}
  BY EventsByPosition, Zenon
<1> HIDE DEF X, Y
<1>4. Ids(X) = Ids(Y)
  BY <1>1
<1> DEFINE F(k) == [id |-> <<"event", Ordinal(Ids(X), k)>>, of |-> X[k].of]
           G(k) == [id |-> <<"event", Ordinal(Ids(X), k)>>, of |-> Y[k].of]
<1>a. before = {F(k) : k \in D}
  BY <1>2
<1>b. after = {G(k) : k \in D}
  <2> HIDE DEF Ids
  <2> QED
    BY <1>1, <1>3, <1>4
<1>5. before = {F(k) : k \in D} /\ after = {G(k) : k \in D}
  BY <1>a, <1>b
<1>6. ASSUME NEW k \in D
      PROVE  /\ F(k).id = G(k).id /\ F(k).of.attrs \in SUBSET Attributes
             /\ G(k).of.attrs = Shortened(F(k).of.attrs)
             /\ Shortened(G(k).of.attrs) = Shortened(F(k).of.attrs)
  <2>1. Shortened(Shortened(X[k].of.attrs)) = Shortened(X[k].of.attrs)
    BY <1>1, Shortening
  <2> HIDE DEF Ids, D
  <2> QED
    BY <1>1, <2>1
<1> HIDE DEF F, G, D
<1>7. \A r \in before : r.of.attrs \in SUBSET Attributes
  BY <1>5, <1>6
<1>8. \A r \in before : \E q \in after : q.id = r.id /\ q.of.attrs = Shortened(r.of.attrs)
  BY <1>5, <1>6
<1>9. {<<e.id, Shortened(e.of.attrs)>> : e \in before}
        = {<<e.id, Shortened(e.of.attrs)>> : e \in after}
  BY <1>5, <1>6
<1> QED
  BY <1>7, <1>8, <1>9

(* Values cut to the limit are seen, none of them longer, none missing. *)
LEMMA SeenLengths ==
  ASSUME NEW b \in Baselines, Ordinary(b), case \in LengthCases, Exercised(b),
         case = "attribute-length" => AllProbes(b)
  PROVE  Effective(b, Obeying(b))
<1> SUFFICES ASSUME NEW c, c = Obeying(b) PROVE LengthsLimited(b, c)
  BY DEF Effective, LengthCases, CountCases
<1>1. /\ DOMAIN c.spans = DOMAIN b.spans /\ DOMAIN c.logs = DOMAIN b.logs
      /\ \A i \in DOMAIN b.spans :
           /\ b.spans[i].attrs \in SUBSET Attributes /\ b.spans[i].events \in Seq(SpanEvents)
           /\ case # "log-length" => c.spans[i].attrs = Shortened(b.spans[i].attrs)
           /\ case = "attribute-length" =>
                c.spans[i].events = ShortenedEvents(b.spans[i].events)
      /\ \A i \in DOMAIN b.logs :
           /\ b.logs[i].attrs \in AttributeSets
           /\ case # "span-length" => c.logs[i].attrs = Shortened(b.logs[i].attrs)
  BY Shorter DEF AttributeSets
<1>2. LengthOf(Limited(b)) > Limit
  BY DEF Exercised, LengthCases, CountCases
<1>3. case = "span-length" => AllProbes(b)
  <2> SUFFICES ASSUME case = "span-length" PROVE b.spans # <<>>
    BY DEF Ordinary
  <2>1. b.spans = <<>> => LengthOf(Limited(b)) = 0
    <3> SUFFICES ASSUME b.spans = <<>> PROVE LengthOf(Limited(b)) = 0
      OBVIOUS
    <3>1. Limited(b) = {}
      BY SameRecords DEF Limited
    <3> QED
      BY <3>1 DEF LengthOf, MaxOf
  <2> QED
    BY <1>2, <2>1, ExperimentsAssumption
<1>4. case # "log-length" =>
        /\ Cardinality(IncomingProbeTraces(b)) = Probes
        /\ Cardinality(IncomingServerTraces(c)) = Probes
  <2> SUFFICES ASSUME case # "log-length"
               PROVE  /\ Cardinality(IncomingProbeTraces(b)) = Probes
                      /\ Cardinality(IncomingServerTraces(c)) = Probes
    OBVIOUS
  <2>1. Cardinality(IncomingProbeTraces(b)) = Probes
    BY <1>3 DEF AllProbes, LengthCases
  <2>2. IncomingServerTraces(c) = IncomingServerTraces(b)
    BY ObeyedSpans, AlikeSpans DEF Settled, LengthCases
  <2> QED
    BY <2>1, <2>2, SameIncoming
<1>5. case # "log-length" =>
        \E i \in DOMAIN b.spans : \E a \in b.spans[i].attrs : a.len > Limit
  BY <1>3, ProbesAreLong DEF LengthCases
<1>6. CASE case = "span-length"
  <2>1. Records(c, "spans") = {c.spans[i] : i \in DOMAIN b.spans}
    BY <1>1, SameRecords
  <2>2. LengthOf(Records(c, "spans")) = Limit
    <3> DEFINE R == Records(c, "spans")
    <3>1. \A r \in R : \E A \in SUBSET Attributes : r.attrs = Shortened(A)
      BY <1>1, <1>6, <2>1
    <3>2. \E r \in R : \E A \in SUBSET Attributes :
            r.attrs = Shortened(A) /\ \E a \in A : a.len > Limit
      BY <1>1, <1>5, <1>6, <2>1
    <3> HIDE DEF R
    <3>3. LengthOf(R) = Limit
      BY <3>1, <3>2, CutToTheLimit
    <3> QED
      BY <3>3 DEF R
  <2>3. LongPreserved(IdentifiedIncoming(b), IdentifiedIncoming(c))
    <3>1. /\ \A r \in IdentifiedIncoming(b) : r.of.attrs \in SUBSET Attributes
          /\ \A r \in IdentifiedIncoming(b) : \E q \in IdentifiedIncoming(c) :
               q.id = r.id /\ q.of.attrs = Shortened(r.of.attrs)
          /\ \E r \in IdentifiedIncoming(b) : \E a \in r.of.attrs : a.len > Limit
      BY <1>3, <1>6, IncomingAreFound
    <3> QED
      BY <3>1, CutIsFound
  <2>4. Limited(c) = Records(c, "spans")
    BY <1>6 DEF Limited
  <2> QED
    BY <1>4, <1>6, <2>2, <2>3, <2>4 DEF LengthsLimited
<1>7. CASE case = "log-length"
  <2>1. /\ Records(b, "logs") = {b.logs[i] : i \in DOMAIN b.logs}
        /\ Records(c, "logs") = {c.logs[i] : i \in DOMAIN b.logs}
    BY <1>1, SameRecords
  <2>2. Limited(c) = Records(c, "logs") /\ Limited(b) = Records(b, "logs")
    BY <1>7 DEF Limited
  <2>3. \E l \in Records(b, "logs") : \E a \in l.attrs : a.len > Limit
    <3>1. \A r \in Records(b, "logs") : r.attrs \in AttributeSets
      BY <1>1, <2>1
    <3>2. IsFiniteSet(DOMAIN b.logs)
      <4>1. DOMAIN b.logs = 1 .. Len(b.logs) /\ b.logs \in Seq(LogRecords)
        BY BaselineFields
      <4>2. Len(b.logs) \in Nat
        BY <4>1
      <4> QED
        BY <4>1, <4>2, FS_Interval
    <3>3. IsFiniteSet(Records(b, "logs"))
      BY <2>1, <3>2, ImageIsFinite
    <3> QED
      BY <1>2, <2>2, <3>1, <3>3, LongAttribute
  <2>4. LengthOf(Records(c, "logs")) = Limit
    <3> DEFINE R == Records(c, "logs")
    <3>1. \A r \in R : \E A \in SUBSET Attributes : r.attrs = Shortened(A)
      BY <1>1, <1>7, <2>1 DEF AttributeSets
    <3>2. \E r \in R : \E A \in SUBSET Attributes :
            r.attrs = Shortened(A) /\ \E a \in A : a.len > Limit
      BY <1>1, <1>7, <2>1, <2>3 DEF AttributeSets
    <3> HIDE DEF R
    <3>3. LengthOf(R) = Limit
      BY <3>1, <3>2, CutToTheLimit
    <3> QED
      BY <3>3 DEF R
  <2>5. LongPreserved(IdentifiedLogs(b), IdentifiedLogs(c))
    <3>1. /\ \A r \in IdentifiedLogs(b) : r.of.attrs \in SUBSET Attributes
          /\ \A r \in IdentifiedLogs(b) : \E q \in IdentifiedLogs(c) :
               q.id = r.id /\ q.of.attrs = Shortened(r.of.attrs)
          /\ \E r \in IdentifiedLogs(b) : \E a \in r.of.attrs : a.len > Limit
      BY <1>7, <2>3, LogsAreFound
    <3> QED
      BY <3>1, CutIsFound
  <2> QED
    BY <1>7, <2>2, <2>4, <2>5 DEF LengthsLimited
<1>8. CASE case = "attribute-length"
  <2>1. PICK j \in DOMAIN b.spans : \E a \in b.spans[j].attrs : a.len > Limit
    BY <1>5, <1>8
  <2>2. b.spans # <<>>
    BY <2>1
  <2>3. LengthOf(Limited(c)) = Limit
    <3> DEFINE R == Limited(c)
    <3>1. R = Records(c, "spans") \cup Records(c, "logs") \cup Events(c)
      BY <1>8 DEF Limited, Attributed
    <3>2. /\ Records(c, "spans") = {c.spans[i] : i \in DOMAIN b.spans}
          /\ Records(c, "logs") = {c.logs[i] : i \in DOMAIN b.logs}
      BY <1>1, SameRecords
    <3> HIDE DEF R
    <3>3. ASSUME NEW r \in Events(c)
          PROVE  \E A \in SUBSET Attributes : r.attrs = Shortened(A)
      <4>1. PICK i \in DOMAIN b.spans : r \in ToSet(c.spans[i].events)
        BY <3>2 DEF Events
      <4>2. PICK k \in DOMAIN c.spans[i].events : r = c.spans[i].events[k]
        BY <4>1 DEF ToSet
      <4> DEFINE events == b.spans[i].events
      <4>3. events \in Seq(SpanEvents) /\ c.spans[i].events = ShortenedEvents(events)
        BY <1>1, <1>8
      <4> HIDE DEF events
      <4>4. k \in DOMAIN events /\ r = [events[k] EXCEPT !.attrs = Shortened(@)]
        BY <4>2, <4>3 DEF ShortenedEvents
      <4>5. events[k] \in SpanEvents
        BY <4>3, <4>4
      <4>6. DOMAIN events[k] = {"name", "attrs", "dropped"}
            /\ events[k].attrs \in SUBSET Attributes
        BY <4>5 DEF SpanEvents, AttributeSets
      <4> QED
        BY <4>4, <4>6
    <3>4. \A r \in R : \E A \in SUBSET Attributes : r.attrs = Shortened(A)
      <4>1. \A r \in Records(c, "spans") : \E A \in SUBSET Attributes : r.attrs = Shortened(A)
        BY <1>1, <1>8, <3>2
      <4>2. \A r \in Records(c, "logs") : \E A \in SUBSET Attributes : r.attrs = Shortened(A)
        BY <1>1, <1>8, <3>2 DEF AttributeSets
      <4> QED
        BY <3>1, <3>3, <4>1, <4>2
    <3>5. \E r \in R : \E A \in SUBSET Attributes :
            r.attrs = Shortened(A) /\ \E a \in A : a.len > Limit
      <4>1. /\ c.spans[j] \in R /\ c.spans[j].attrs = Shortened(b.spans[j].attrs)
            /\ b.spans[j].attrs \in SUBSET Attributes
        BY <1>1, <1>8, <3>1, <3>2
      <4> QED
        BY <2>1, <4>1
    <3>6. LengthOf(R) = Limit
      BY <3>4, <3>5, CutToTheLimit
    <3> QED
      BY <3>6 DEF R
  <2> DEFINE E(d) == LengthEvents(d)
             All(d) == IdentifiedLogs(d) \cup IdentifiedIncoming(d) \cup E(d)
             Kinds(d) == {<<e.id, Shortened(e.of.attrs)>> : e \in E(d)}
  <2>4. /\ \A r \in E(b) : r.of.attrs \in SUBSET Attributes
        /\ \A r \in E(b) : \E q \in E(c) : q.id = r.id /\ q.of.attrs = Shortened(r.of.attrs)
        /\ Kinds(b) = Kinds(c)
    BY <1>8, <2>2, EventsAreFound
  <2>5. /\ \A r \in IdentifiedIncoming(b) : r.of.attrs \in SUBSET Attributes
        /\ \A r \in IdentifiedIncoming(b) : \E q \in IdentifiedIncoming(c) :
             q.id = r.id /\ q.of.attrs = Shortened(r.of.attrs)
        /\ \E r \in IdentifiedIncoming(b) : \E a \in r.of.attrs : a.len > Limit
    BY <1>8, IncomingAreFound
  <2>6. /\ \A r \in IdentifiedLogs(b) : r.of.attrs \in SUBSET Attributes
        /\ \A r \in IdentifiedLogs(b) : \E q \in IdentifiedLogs(c) :
             q.id = r.id /\ q.of.attrs = Shortened(r.of.attrs)
    BY <1>8, LogsAreFound
  <2> HIDE DEF E
  <2>7. /\ \A r \in All(b) : r.of.attrs \in SUBSET Attributes
        /\ \A r \in All(b) : \E q \in All(c) : q.id = r.id /\ q.of.attrs = Shortened(r.of.attrs)
        /\ \E r \in All(b) : \E a \in r.of.attrs : a.len > Limit
    BY <2>4, <2>5, <2>6
  <2> HIDE DEF All, Kinds
  <2>8. LongPreserved(All(b), All(c)) /\ Kinds(b) = Kinds(c)
    BY <2>4, <2>7, CutIsFound
  <2>9. LET A(d) == IdentifiedLogs(d) \cup IdentifiedIncoming(d)
                      \cup IdentifiedEvents(d, LengthLimited)
            K(d) == {<<e.id, Shortened(e.of.attrs)>> : e \in IdentifiedEvents(d, LengthLimited)}
        IN LongPreserved(A(b), A(c)) /\ K(b) = K(c)
    BY <2>8, Zenon DEF All, Kinds, E, LengthEvents
  <2> QED
    BY <1>4, <1>8, <2>3, <2>9 DEF LengthsLimited
<1> QED
  BY <1>6, <1>7, <1>8 DEF LengthCases

(* An SDK that obeys the setting exports what it makes of the baseline, until   *)
(* the first defect.                                                         *)
Followed == obeyed /\ defects = 0 => changed = Obeying(baseline)

(* Only a defect parts the capture from what the SDK made of the baseline. *)
LEMMA StaysFollowed == Spec => []Followed
<1>1. Init => Followed
  BY DEF Init, Followed
<1>2. ASSUME Fields, Followed, [Next]_vars
      PROVE  Followed'
  <2>1. CASE Next
    <3>1. PICK capture : Suffer(capture)
      BY <2>1, DefectsSuffer
    <3>2. defects' # 0
      BY <1>2, <3>1 DEF Fields, Suffer
    <3> QED
      BY <3>2 DEF Followed
  <2>2. CASE UNCHANGED vars
    <3>1. case' = case /\ baseline' = baseline /\ changed' = changed
          /\ (obeyed' <=> obeyed) /\ defects' = defects
      BY <2>2 DEF vars
    <3>2. Obeying(baseline)' = Obeying(baseline)
      BY <3>1 DEF Obeying, ObeyingSpan, ObeyingLog, ObeyingPoint, Named
    <3> QED
      BY <1>2, <3>1, <3>2 DEF Followed
  <2> QED
    BY <1>2, <2>1, <2>2
<1> QED
  BY FieldsAreKept, <1>1, <1>2, PTL DEF Spec

(* The effect of every settled setting is seen. *)
LEMMA ObedienceIsEffective ==
  ASSUME NEW b \in Baselines, Ordinary(b), case \in Settled, Exercised(b),
         case = "attribute-length" => AllProbes(b)
  PROVE  Effective(b, Obeying(b))
BY SeenService, SeenBatches, SeenSwitches, SeenExemplars, SeenHeaders, SeenEvents, SeenHistogram,
   SeenLengths DEF Settled

(* An experiment that is exercised has spans to compare where it compares them. *)
LEMMA WorkloadIsThere ==
  ASSUME NEW b \in Baselines, Ordinary(b), case \in Settled, Exercised(b),
         case = "attribute-length" => AllProbes(b)
  PROVE  \/ WorkloadSpans(b) # {}
         \/ case \in {"default-service", "resource", "exemplars"} /\ b.spans = <<>>
         \/ case \in {"disabled", "sampler", "exemplars-always-on", "log-batch", "log-length",
                      "events", "histogram"}
<1>1. SUFFICES ASSUME b.spans = <<>>, case \in {"span-batch", "request-headers", "span-length",
                                               "attribute-length"}
               PROVE  FALSE
  BY DEF Ordinary, Settled, LengthCases
<1>2. ~AllProbes(b)
  <2>1. ~(\E i \in DOMAIN b.spans : TRUE)
    BY <1>1
  <2> QED
    BY <2>1, ProbesAreLong
<1>3. CASE case = "span-batch"
  <2>1. BatchOf(b, "spans") > 1
    BY <1>3 DEF Exercised, LengthCases, CountCases
  <2>2. DOMAIN b["spans"] = 1 .. 0 /\ 0 \in Nat /\ ~(0 >= 2)
    BY <1>1
  <2> QED
    BY <2>1, <2>2, BatchIsThere
<1>4. CASE case = "request-headers"
  BY <1>2, <1>4 DEF Exercised, LengthCases, CountCases
<1>5. CASE case = "span-length"
  <2>1. LengthOf(Limited(b)) > Limit
    BY <1>5 DEF Exercised, LengthCases, CountCases
  <2>2. Limited(b) = {}
    BY <1>1, <1>5, SameRecords DEF Limited
  <2>3. LengthOf(Limited(b)) = 0
    BY <2>2 DEF LengthOf, MaxOf
  <2> QED
    BY <2>1, <2>3, ExperimentsAssumption
<1>6. CASE case = "attribute-length"
  BY <1>2, <1>6
<1> QED
  BY <1>1, <1>3, <1>4, <1>5, <1>6

(* No false alarm (evaluate): an SDK that obeys a setting and loses nothing      *)
(* passes wherever the baseline lets the setting act, for any ordinary baseline, *)
(* however many spans, logs and points it has, and every settled experiment.     *)
THEOREM ObedienceAlwaysPasses ==
  Spec => [](Ordinary(baseline) /\ case \in Settled => ObedienceIsSeen)
<1>1. ASSUME Fields, Followed, Ordinary(baseline), case \in Settled
      PROVE  ObedienceIsSeen
  <2> SUFFICES ASSUME obeyed, defects = 0, case = "attribute-length" => AllProbes(baseline)
               PROVE  Verdict(baseline, changed) =
                        IF Exercised(baseline) THEN "pass" ELSE "not_exercised"
    BY DEF ObedienceIsSeen
  <2> DEFINE b == baseline
  <2>1. changed = Obeying(b) /\ b \in Baselines
    BY <1>1 DEF Followed, Fields
  <2>2. ASSUME Exercised(b)
        PROVE  Effective(b, Obeying(b)) /\ AllKept(b, Obeying(b))
    <3>1. Effective(b, Obeying(b))
      BY <1>1, <2>1, <2>2, ObedienceIsEffective
    <3>2. AllKept(b, Obeying(b))
      BY <1>1, <2>1, <2>2, WorkloadIsThere, ObeyedIsKept DEF Ordinary
    <3> QED
      BY <3>1, <3>2
  <2>3. case = "histogram" => AllKept(b, Obeying(b))
    BY <1>1, <2>1, ObeyedIsKept DEF Ordinary
  <2> QED
    BY <2>1, <2>2, <2>3 DEF Verdict
<1>2. Fields /\ Followed => (Ordinary(baseline) /\ case \in Settled => ObedienceIsSeen)
  BY <1>1
<1> QED
  BY FieldsAreKept, StaysFollowed, <1>2, PTL

-----------------------------------------------------------------------------
(* Two lists that have their values equally often are the same up to their order *)
(* (matchingIdentityCounts).                                                 *)
LEMMA EqualCounts ==
  ASSUME NEW f, NEW g, IsFiniteSet(DOMAIN f), IsFiniteSet(DOMAIN g), Counts(f) = Counts(g)
  PROVE  \E h \in Bijection(DOMAIN f, DOMAIN g) : \A i \in DOMAIN f : g[h[i]] = f[i]
<1> DEFINE S == DOMAIN f
           T == DOMAIN g
           A(v) == {i \in S : f[i] = v}
           B(v) == {j \in T : g[j] = v}
           to(v) == CHOOSE h : h \in Bijection(A(v), B(v))
           h == [i \in S |-> to(f[i])[i]]
<1>1. {f[i] : i \in S} = {g[j] : j \in T}
  <2>1. DOMAIN Counts(f) = {f[i] : i \in S} /\ DOMAIN Counts(g) = {g[j] : j \in T}
    BY DEF Counts
  <2> QED
    BY <2>1
<1>2. ASSUME NEW v \in {f[i] : i \in S}
      PROVE  to(v) \in Bijection(A(v), B(v))
  <2>1. Cardinality(A(v)) = Cardinality(B(v))
    <3>1. Counts(f)[v] = Cardinality(A(v))
      BY DEF Counts
    <3>2. Counts(g)[v] = Cardinality(B(v))
      BY <1>1 DEF Counts
    <3> QED
      BY <3>1, <3>2
  <2>2. IsFiniteSet(A(v)) /\ IsFiniteSet(B(v))
    BY FS_Subset
  <2>3. ExistsBijection(A(v), B(v))
    <3> HIDE DEF A, B
    <3> QED
      BY <2>1, <2>2, FS_SameCardinalityBij
  <2> QED
    BY <2>3 DEF ExistsBijection
<1>3. ASSUME NEW v \in {f[i] : i \in S}
      PROVE  /\ \A i \in A(v) : to(v)[i] \in B(v)
             /\ \A i, j \in A(v) : to(v)[i] = to(v)[j] => i = j
             /\ \A k \in B(v) : \E i \in A(v) : to(v)[i] = k
  <2>1. to(v) \in Bijection(A(v), B(v))
    BY <1>2
  <2> HIDE DEF to, A, B
  <2> QED
    BY <2>1, Fun_BijectionProperties
<1> HIDE DEF to
<1>4. \A i \in S : h[i] \in T /\ g[h[i]] = f[i]
  BY <1>3
<1>5. ASSUME NEW i \in S, NEW j \in S, h[i] = h[j]
      PROVE  i = j
  <2>1. f[i] = f[j]
    BY <1>4, <1>5
  <2>2. to(f[i])[i] = to(f[i])[j] /\ i \in A(f[i]) /\ j \in A(f[i])
    BY <1>5, <2>1
  <2> QED
    BY <1>3, <2>2
<1>6. ASSUME NEW k \in T
      PROVE  \E i \in S : h[i] = k
  <2>1. g[k] \in {f[i] : i \in S} /\ k \in B(g[k])
    BY <1>1
  <2>2. PICK i \in A(g[k]) : to(g[k])[i] = k
    BY <1>3, <2>1
  <2> QED
    BY <2>2
<1>7. h \in [S -> T]
  BY <1>4
<1> HIDE DEF h
<1>8. h \in Bijection(S, T)
  BY <1>5, <1>6, <1>7, Fun_IsBij
<1> QED
  BY <1>4, <1>8

(* A set of enough attributes has a part of just the size of the limit. *)
LEMMA LastingKeeps ==
  ASSUME NEW attrs, IsFiniteSet(attrs), NEW cap \in Nat
  PROVE  /\ Lasting(attrs, cap) \subseteq attrs
         /\ Cardinality(attrs) <= cap => Lasting(attrs, cap) = attrs
         /\ Cardinality(attrs) > cap => Cardinality(Lasting(attrs, cap)) = cap
<1>1. Cardinality(attrs) \in Nat
  BY FS_CardinalityType
<1>2. CASE Cardinality(attrs) <= cap
  BY <1>1, <1>2 DEF Lasting
<1>3. CASE Cardinality(attrs) > cap
  <2> DEFINE n == Cardinality(attrs)
  <2>1. PICK g : g \in Bijection(1 .. n, attrs)
    BY FS_CardinalityType DEF ExistsBijection
  <2> DEFINE S == {g[i] : i \in 1 .. cap}
             h == [i \in 1 .. cap |-> g[i]]
  <2>2. 1 .. cap \subseteq 1 .. n
    BY <1>1, <1>3
  <2>3. g \in [1 .. n -> attrs] /\ \A i, j \in 1 .. n : g[i] = g[j] => i = j
    <3> HIDE DEF n
    <3> QED
      BY <2>1, Fun_BijectionProperties
  <2> HIDE DEF n
  <2>4. S \subseteq attrs
    BY <2>2, <2>3
  <2>5. h \in Bijection(1 .. cap, S)
    <3>1. h \in [1 .. cap -> S] /\ \A i, j \in 1 .. cap : h[i] = h[j] => i = j
      BY <2>2, <2>3
    <3>2. \A s \in S : \E i \in 1 .. cap : h[i] = s
      OBVIOUS
    <3> HIDE DEF h, S
    <3> QED
      BY <3>1, <3>2, Fun_IsBij
  <2>6. Cardinality(S) = cap
    <3>1. IsFiniteSet(1 .. cap) /\ Cardinality(1 .. cap) = cap
      BY FS_Interval
    <3>2. ExistsBijection(1 .. cap, S)
      <4> HIDE DEF h, S
      <4> QED
        BY <2>5 DEF ExistsBijection
    <3> HIDE DEF h, S
    <3> QED
      BY <3>1, <3>2, FS_Bijection
  <2> HIDE DEF S
  <2>7. ~(Cardinality(attrs) <= cap)
    BY <1>1, <1>3
  <2>8. /\ Lasting(attrs, cap) \in SUBSET attrs
        /\ Cardinality(Lasting(attrs, cap)) = cap
    BY <2>4, <2>6, <2>7, Zenon DEF Lasting
  <2> QED
    BY <2>7, <2>8
<1> QED
  BY <1>1, <1>2, <1>3

(* What the records of a capture can be after defects: an attribute damaged     *)
(* too often has a length below zero.  (The provers do not know of a literal    *)
(* that it is in STRING.)                                                    *)
Texts == STRING \cup {"", "app", "external-probe", "header", "other", "unknown", "visible"}
LooseAttributes == [key : Texts, len : Int]
LooseSets == {A \in SUBSET LooseAttributes : IsFiniteSet(A)}
LooseEvents == [name : STRING, attrs : LooseSets, dropped : Int]
LooseResources == [service : Texts, probe : Texts, rest : Texts]
LooseSpans ==
  [id : Nat, trace : Nat, parent : Nat, name : STRING, server : BOOLEAN, attrs : LooseSets,
   dropped : Int, events : Seq(LooseEvents), lost : Int, res : LooseResources, batch : Nat]
LooseLogs ==
  [body : STRING, attrs : LooseSets, dropped : Int, trace : Nat, span : Nat,
   res : LooseResources, batch : Nat]
LoosePoints ==
  [name : STRING, state : STRING, type : {"histogram", "exponential", "sum"}, count : Nat,
   exemplars : {"none", "valid", "invalid"}, res : LooseResources, group : Nat]

(* The traces of the workload, renamed if their contexts are not extracted. *)
Renamed(trace) == IF obeyed /\ case = "propagation-none" THEN Fresh(trace) ELSE trace

(* No defect makes a record that none of the baseline stands for: its name, its  *)
(* kind and its identifiers are those of spans that were there.               *)
SpansOf(b) ==
  {y \in LooseSpans :
     /\ \E s \in Records(b, "spans") :
          /\ s.name = y.name /\ s.server = y.server
          /\ y.parent = Remote => s.parent = Remote
          /\ case = "events" => y.lost \in {0, s.lost, s.lost + Len(s.events)}
     /\ \E s \in Records(b, "spans") : s.id = y.id
     /\ \E s \in Records(b, "spans") : Renamed(s.trace) = y.trace}
LogsOf(b) == {l \in LooseLogs : b.logs # <<>>}
PointsOf(b) == {p \in LoosePoints : \E q \in Records(b, "points") : q.group = p.group}
CapturesOf(b) == [spans : Seq(SpansOf(b)), logs : Seq(LogsOf(b)), points : Seq(PointsOf(b))]

(* Every record that an SDK exports stands for one of the baseline. *)
Descends ==
  /\ changed \in CapturesOf(baseline)
  /\ \A s \in Records(baseline, "spans") : s.id # Remote /\ s.id \in Nat

(* What is left of a list is made of its records. *)
LEMMA PartsOfLists ==
  ASSUME NEW S, NEW s \in Seq(S), NEW i \in DOMAIN s
  PROVE  /\ RemoveAt(s, i) \in Seq(S) /\ Append(s, s[i]) \in Seq(S) /\ s[i] \in S
         /\ \A e \in S : [s EXCEPT ![i] = e] \in Seq(S)
<1>1. Len(s) \in Nat /\ i \in 1 .. Len(s) /\ \A j \in 1 .. Len(s) : s[j] \in S
  OBVIOUS
<1>2. SubSeq(s, 1, i - 1) \in Seq(S) /\ SubSeq(s, i + 1, Len(s)) \in Seq(S)
  BY <1>1, SubSeqProperties
<1>3. RemoveAt(s, i) \in Seq(S)
  BY <1>2, ConcatProperties DEF RemoveAt
<1>4. \A e \in S : [s EXCEPT ![i] = e] \in Seq(S)
  BY <1>1, ExceptSeq
<1> QED
  BY <1>1, <1>3, <1>4

(* A list with one of its records changed. *)
LEMMA ChangedRecord ==
  ASSUME NEW b, NEW c \in CapturesOf(b)
  PROVE  /\ DOMAIN c = {"spans", "logs", "points"}
         /\ \A e \in Seq(SpansOf(b)) : [c EXCEPT !["spans"] = e] \in CapturesOf(b)
         /\ \A e \in Seq(LogsOf(b)) : [c EXCEPT !["logs"] = e] \in CapturesOf(b)
         /\ \A e \in Seq(PointsOf(b)) : [c EXCEPT !["points"] = e] \in CapturesOf(b)
         /\ \A i \in DOMAIN c.spans, s \in SpansOf(b) :
              [c EXCEPT !["spans"][i] = s] \in CapturesOf(b)
         /\ \A i \in DOMAIN c.logs, l \in LogsOf(b) :
              [c EXCEPT !["logs"][i] = l] \in CapturesOf(b)
         /\ \A i \in DOMAIN c.points, p \in PointsOf(b) :
              [c EXCEPT !["points"][i] = p] \in CapturesOf(b)
<1>1. /\ \A e \in Seq(SpansOf(b)) : [c EXCEPT !["spans"] = e] \in CapturesOf(b)
      /\ \A e \in Seq(LogsOf(b)) : [c EXCEPT !["logs"] = e] \in CapturesOf(b)
      /\ \A e \in Seq(PointsOf(b)) : [c EXCEPT !["points"] = e] \in CapturesOf(b)
      /\ DOMAIN c = {"spans", "logs", "points"}
  BY DEF CapturesOf
<1>2. ASSUME NEW i \in DOMAIN c.spans, NEW s \in SpansOf(b)
      PROVE  [c EXCEPT !["spans"][i] = s] \in CapturesOf(b)
  <2>1. [c["spans"] EXCEPT ![i] = s] \in Seq(SpansOf(b))
    BY PartsOfLists DEF CapturesOf
  <2> QED
    BY <1>1, <2>1
<1>3. ASSUME NEW i \in DOMAIN c.logs, NEW l \in LogsOf(b)
      PROVE  [c EXCEPT !["logs"][i] = l] \in CapturesOf(b)
  <2>1. [c["logs"] EXCEPT ![i] = l] \in Seq(LogsOf(b))
    BY PartsOfLists DEF CapturesOf
  <2> QED
    BY <1>1, <2>1
<1>4. ASSUME NEW i \in DOMAIN c.points, NEW p \in PointsOf(b)
      PROVE  [c EXCEPT !["points"][i] = p] \in CapturesOf(b)
  <2>1. [c["points"] EXCEPT ![i] = p] \in Seq(PointsOf(b))
    BY PartsOfLists DEF CapturesOf
  <2> QED
    BY <1>1, <2>1
<1> QED
  BY <1>1, <1>2, <1>3, <1>4

(* A span stands for one of the baseline whatever happens to these fields. *)
LEMMA ChangedSpan ==
  ASSUME NEW b, NEW y \in SpansOf(b)
  PROVE  /\ \A A \in LooseSets : [y EXCEPT !.attrs = A] \in SpansOf(b)
         /\ \A n \in Int : [y EXCEPT !.dropped = n] \in SpansOf(b)
         /\ \A e \in Seq(LooseEvents) : [y EXCEPT !.events = e] \in SpansOf(b)
         /\ [y EXCEPT !.lost = 0] \in SpansOf(b)
         /\ [y EXCEPT !.batch = 1] \in SpansOf(b)
         /\ \A r \in LooseResources : [y EXCEPT !.res = r] \in SpansOf(b)
         /\ \A z \in SpansOf(b) : [y EXCEPT !.trace = z.trace] \in SpansOf(b)
         /\ \A z \in SpansOf(b) : z.id # Remote => [y EXCEPT !.parent = z.id] \in SpansOf(b)
<1>1. y \in LooseSpans
  BY DEF SpansOf
<1>2. ASSUME NEW z \in LooseSpans,
             z.name = y.name, z.server <=> y.server, z.id = y.id,
             z.parent = Remote => y.parent = Remote, z.lost \in {0, y.lost},
             \E s \in SpansOf(b) : z.trace = s.trace
      PROVE  z \in SpansOf(b)
  <2>1. \E s \in Records(b, "spans") :
          /\ s.name = z.name /\ s.server = z.server
          /\ z.parent = Remote => s.parent = Remote
          /\ case = "events" => z.lost \in {0, s.lost, s.lost + Len(s.events)}
    <3>1. PICK s \in Records(b, "spans") :
            /\ s.name = y.name /\ s.server = y.server
            /\ y.parent = Remote => s.parent = Remote
            /\ case = "events" => y.lost \in {0, s.lost, s.lost + Len(s.events)}
      BY DEF SpansOf
    <3>2. z.server = y.server
      BY <1>1, <1>2 DEF LooseSpans
    <3> QED
      BY <1>2, <3>1, <3>2
  <2>2. \E s \in Records(b, "spans") : s.id = z.id
    BY <1>2 DEF SpansOf
  <2>3. \E s \in Records(b, "spans") : Renamed(s.trace) = z.trace
    BY <1>2 DEF SpansOf
  <2> QED
    BY <2>1, <2>2, <2>3 DEF SpansOf
<1>3. \A s \in SpansOf(b) : s.trace \in Nat /\ s.id \in Nat
  BY DEF SpansOf, LooseSpans
<1> USE DEF LooseSpans
<1>4. \A A \in LooseSets : [y EXCEPT !.attrs = A] \in SpansOf(b)
  BY <1>1, <1>2
<1>5. \A n \in Int : [y EXCEPT !.dropped = n] \in SpansOf(b)
  BY <1>1, <1>2
<1>6. \A e \in Seq(LooseEvents) : [y EXCEPT !.events = e] \in SpansOf(b)
  BY <1>1, <1>2
<1>7. [y EXCEPT !.lost = 0] \in SpansOf(b)
  <2> DEFINE z == [y EXCEPT !.lost = 0]
  <2>1. z \in LooseSpans
    BY <1>1
  <2>2. z.lost = 0 /\ z.name = y.name /\ z.server = y.server
        /\ z.id = y.id /\ z.parent = y.parent /\ z.trace = y.trace
    BY <1>1
  <2> HIDE DEF z
  <2>3. z \in SpansOf(b)
    BY <1>2, <2>1, <2>2
  <2> QED
    BY <2>3 DEF z
<1>8. [y EXCEPT !.batch = 1] \in SpansOf(b)
  BY <1>1, <1>2
<1>9. \A r \in LooseResources : [y EXCEPT !.res = r] \in SpansOf(b)
  BY <1>1, <1>2
<1>10. \A z \in SpansOf(b) : [y EXCEPT !.trace = z.trace] \in SpansOf(b)
  BY <1>1, <1>2, <1>3
<1>11. \A z \in SpansOf(b) : z.id # Remote => [y EXCEPT !.parent = z.id] \in SpansOf(b)
  BY <1>1, <1>2, <1>3
<1> QED
  BY <1>4, <1>5, <1>6, <1>7, <1>8, <1>9, <1>10, <1>11

(* The same for the logs, which may also be attributed to another span. *)
LEMMA ChangedLog ==
  ASSUME NEW b, NEW y \in LogsOf(b)
  PROVE  /\ \A A \in LooseSets : [y EXCEPT !.attrs = A] \in LogsOf(b)
         /\ \A n \in Int : [y EXCEPT !.dropped = n] \in LogsOf(b)
         /\ [y EXCEPT !.batch = 1] \in LogsOf(b)
         /\ \A r \in LooseResources : [y EXCEPT !.res = r] \in LogsOf(b)
         /\ \A m \in Nat, n \in Nat : [y EXCEPT !.trace = m, !.span = n] \in LogsOf(b)
BY DEF LogsOf, LooseLogs

(* The same for the points, whose exemplars, count and resource defects change. *)
LEMMA ChangedPoint ==
  ASSUME NEW b, NEW y \in PointsOf(b)
  PROVE  /\ \A e \in {"none", "valid", "invalid"} : [y EXCEPT !.exemplars = e] \in PointsOf(b)
         /\ [y EXCEPT !.count = 0] \in PointsOf(b)
         /\ \A r \in LooseResources : [y EXCEPT !.res = r] \in PointsOf(b)
BY DEF PointsOf, LoosePoints

(* What a defect leaves still stands for records of the baseline. *)
LEMMA DefectsLeaveRemains ==
  ASSUME Fields, Descends, Next
  PROVE  \E capture \in CapturesOf(baseline) : Suffer(capture)
<1> DEFINE c == changed
           b == baseline
<1>1. c \in CapturesOf(b) /\ DOMAIN c = {"spans", "logs", "points"}
  BY ChangedRecord DEF Descends
<1>2. c.spans \in Seq(SpansOf(b)) /\ c.logs \in Seq(LogsOf(b)) /\ c.points \in Seq(PointsOf(b))
  BY <1>1 DEF CapturesOf
<1>3. \A s \in SpansOf(b) : s.id # Remote
  BY DEF Descends, SpansOf
<1>4. /\ \A i \in DOMAIN c.spans : c.spans[i] \in SpansOf(b)
      /\ \A i \in DOMAIN c.logs : c.logs[i] \in LogsOf(b)
      /\ \A i \in DOMAIN c.points : c.points[i] \in PointsOf(b)
  BY <1>2
<1>5. /\ \A s \in SpansOf(b) : s.attrs \in LooseSets /\ s.dropped \in Int
                               /\ s.events \in Seq(LooseEvents) /\ s.trace \in Nat /\ s.id \in Nat
      /\ \A l \in LogsOf(b) : l.attrs \in LooseSets /\ l.dropped \in Int
  BY DEF SpansOf, LogsOf, LooseSpans, LooseLogs
<1>6. ASSUME NEW A \in LooseSets, NEW a \in A
      PROVE  /\ A \ {a} \in LooseSets
             /\ (A \ {a}) \cup {[a EXCEPT !.len = @ - 1]} \in LooseSets
  <2>1. IsFiniteSet(A) /\ A \in SUBSET LooseAttributes /\ a \in LooseAttributes
    BY DEF LooseSets
  <2>2. [a EXCEPT !.len = @ - 1] \in LooseAttributes
    BY <2>1 DEF LooseAttributes
  <2>3. IsFiniteSet(A \ {a}) /\ IsFiniteSet((A \ {a}) \cup {[a EXCEPT !.len = @ - 1]})
    BY <2>1, FS_RemoveElement, FS_AddElement
  <2> QED
    BY <2>1, <2>2, <2>3 DEF LooseSets
<1>7. [service |-> "app", probe |-> "", rest |-> "other"] \in LooseResources
  BY DEF LooseResources, Texts
<1> HIDE DEF c, b
<1>8. CASE Lose
  <2>1. PICK signal, i :
          /\ signal \in DOMAIN c /\ i \in DOMAIN c[signal]
          /\ Suffer([c EXCEPT ![signal] = RemoveAt(@, i)])
    BY <1>8 DEF Lose, c
  <2>2. CASE signal = "spans"
    BY <1>1, <1>2, <2>1, <2>2, PartsOfLists, ChangedRecord DEF b
  <2>3. CASE signal = "logs"
    BY <1>1, <1>2, <2>1, <2>3, PartsOfLists, ChangedRecord DEF b
  <2>4. CASE signal = "points"
    BY <1>1, <1>2, <2>1, <2>4, PartsOfLists, ChangedRecord DEF b
  <2> QED
    BY <1>1, <2>1, <2>2, <2>3, <2>4
<1>9. CASE Repeat
  <2>1. PICK signal, i :
          /\ signal \in DOMAIN c /\ i \in DOMAIN c[signal]
          /\ Suffer([c EXCEPT ![signal] = Append(@, @[i])])
    BY <1>9 DEF Repeat, c
  <2>2. CASE signal = "spans"
    BY <1>1, <1>2, <2>1, <2>2, PartsOfLists, ChangedRecord DEF b
  <2>3. CASE signal = "logs"
    BY <1>1, <1>2, <2>1, <2>3, PartsOfLists, ChangedRecord DEF b
  <2>4. CASE signal = "points"
    BY <1>1, <1>2, <2>1, <2>4, PartsOfLists, ChangedRecord DEF b
  <2> QED
    BY <1>1, <2>1, <2>2, <2>3, <2>4
<1>10. CASE LoseAttribute
  <2>1. PICK signal, i, a :
          /\ signal \in {"spans", "logs"} /\ i \in DOMAIN c[signal] /\ a \in c[signal][i].attrs
          /\ Suffer([c EXCEPT ![signal][i].attrs = @ \ {a}])
    BY <1>10 DEF LoseAttribute, c
  <2> DEFINE r == [c[signal][i] EXCEPT !.attrs = @ \ {a}]
  <2>2. [c EXCEPT ![signal][i].attrs = @ \ {a}] = [c EXCEPT ![signal][i] = r]
    OBVIOUS
  <2>3. CASE signal = "spans"
    <3>1. r \in SpansOf(b)
      BY <1>4, <1>5, <1>6, <2>1, <2>3, ChangedSpan
    <3> QED
      BY <1>1, <2>1, <2>2, <2>3, <3>1, ChangedRecord DEF b
  <2>4. CASE signal = "logs"
    <3>1. r \in LogsOf(b)
      BY <1>4, <1>5, <1>6, <2>1, <2>4, ChangedLog
    <3> QED
      BY <1>1, <2>1, <2>2, <2>4, <3>1, ChangedRecord DEF b
  <2> QED
    BY <2>1, <2>3, <2>4
<1>11. CASE Damage
  <2>1. PICK signal, i, a :
          /\ signal \in {"spans", "logs"} /\ i \in DOMAIN c[signal] /\ a \in c[signal][i].attrs
          /\ Suffer([c EXCEPT ![signal][i].attrs = (@ \ {a}) \cup {[a EXCEPT !.len = @ - 1]}])
    BY <1>11 DEF Damage, c
  <2> DEFINE A == (c[signal][i].attrs \ {a}) \cup {[a EXCEPT !.len = @ - 1]}
             r == [c[signal][i] EXCEPT !.attrs = A]
  <2>2. [c EXCEPT ![signal][i].attrs = (@ \ {a}) \cup {[a EXCEPT !.len = @ - 1]}]
          = [c EXCEPT ![signal][i] = r]
    OBVIOUS
  <2>3. CASE signal = "spans"
    <3>1. A \in LooseSets
      BY <1>4, <1>5, <1>6, <2>1, <2>3
    <3> HIDE DEF A
    <3>2. r \in SpansOf(b)
      BY <1>4, <2>1, <2>3, <3>1, ChangedSpan
    <3> QED
      BY <1>1, <2>1, <2>2, <2>3, <3>2, ChangedRecord DEF b
  <2>4. CASE signal = "logs"
    <3>1. A \in LooseSets
      BY <1>4, <1>5, <1>6, <2>1, <2>4
    <3> HIDE DEF A
    <3>2. r \in LogsOf(b)
      BY <1>4, <2>1, <2>4, <3>1, ChangedLog
    <3> QED
      BY <1>1, <2>1, <2>2, <2>4, <3>2, ChangedRecord DEF b
  <2> QED
    BY <2>1, <2>3, <2>4
<1>12. CASE Miscount
  <2>1. PICK signal, i, n :
          /\ signal \in {"spans", "logs"} /\ i \in DOMAIN c[signal]
          /\ n \in {c[signal][i].dropped + 1, c[signal][i].dropped - 1} \cap Nat
          /\ Suffer([c EXCEPT ![signal][i].dropped = n])
    BY <1>12 DEF Miscount, c
  <2> DEFINE r == [c[signal][i] EXCEPT !.dropped = n]
  <2>2. [c EXCEPT ![signal][i].dropped = n] = [c EXCEPT ![signal][i] = r] /\ n \in Int
    BY <2>1
  <2>3. CASE signal = "spans"
    <3>1. r \in SpansOf(b)
      BY <1>4, <2>1, <2>2, <2>3, ChangedSpan
    <3> QED
      BY <1>1, <2>1, <2>2, <2>3, <3>1, ChangedRecord DEF b
  <2>4. CASE signal = "logs"
    <3>1. r \in LogsOf(b)
      BY <1>4, <2>1, <2>2, <2>4, ChangedLog
    <3> QED
      BY <1>1, <2>1, <2>2, <2>4, <3>1, ChangedRecord DEF b
  <2> QED
    BY <2>1, <2>3, <2>4
<1>13. CASE LoseEvent
  <2>1. PICK i, k :
          /\ i \in DOMAIN c.spans /\ k \in DOMAIN c.spans[i].events
          /\ Suffer([c EXCEPT !.spans[i].events = RemoveAt(@, k)])
    BY <1>13 DEF LoseEvent, c
  <2> DEFINE events == c.spans[i].events
             r == [c.spans[i] EXCEPT !.events = RemoveAt(events, k)]
  <2>2. [c EXCEPT !.spans[i].events = RemoveAt(@, k)] = [c EXCEPT !["spans"][i] = r]
    BY DEF RemoveAt
  <2>3. RemoveAt(events, k) \in Seq(LooseEvents)
    <3>1. events \in Seq(LooseEvents) /\ k \in DOMAIN events
      BY <1>4, <1>5, <2>1
    <3> HIDE DEF events
    <3> QED
      BY <3>1, PartsOfLists
  <2> HIDE DEF events
  <2>4. r \in SpansOf(b)
    BY <1>4, <2>1, <2>3, ChangedSpan
  <2> QED
    BY <1>1, <2>1, <2>2, <2>4, ChangedRecord DEF b
<1>14. CASE ForgetLostEvents
  <2>1. PICK i \in DOMAIN c.spans : Suffer([c EXCEPT !.spans[i].lost = 0])
    BY <1>14 DEF ForgetLostEvents, c
  <2> DEFINE r == [c.spans[i] EXCEPT !.lost = 0]
  <2>2. [c EXCEPT !.spans[i].lost = 0] = [c EXCEPT !["spans"][i] = r]
    OBVIOUS
  <2>3. r \in SpansOf(b)
    BY <1>4, ChangedSpan
  <2> QED
    BY <1>1, <2>1, <2>2, <2>3, ChangedRecord DEF b
<1>15. CASE Move
  <2>1. PICK i \in DOMAIN c.spans, j \in DOMAIN c.spans :
          \/ Suffer([c EXCEPT !.spans[i].trace = c.spans[j].trace])
          \/ Suffer([c EXCEPT !.spans[i].parent = c.spans[j].id])
    BY <1>15 DEF Move, c
  <2> DEFINE q == [c.spans[i] EXCEPT !.trace = c.spans[j].trace]
             r == [c.spans[i] EXCEPT !.parent = c.spans[j].id]
  <2>2. /\ [c EXCEPT !.spans[i].trace = c.spans[j].trace] = [c EXCEPT !["spans"][i] = q]
        /\ [c EXCEPT !.spans[i].parent = c.spans[j].id] = [c EXCEPT !["spans"][i] = r]
    OBVIOUS
  <2>3. q \in SpansOf(b) /\ r \in SpansOf(b)
    BY <1>3, <1>4, ChangedSpan
  <2> HIDE DEF q, r
  <2>4. [c EXCEPT !["spans"][i] = q] \in CapturesOf(b) /\ [c EXCEPT !["spans"][i] = r] \in CapturesOf(b)
    BY <1>1, <2>1, <2>3, ChangedRecord
  <2> QED
    BY <2>1, <2>2, <2>4 DEF b
<1>16. CASE Misattribute
  <2>1. PICK i \in DOMAIN c.logs :
          \/ Suffer([c EXCEPT !.logs[i].trace = 0, !.logs[i].span = 0])
          \/ \E j \in DOMAIN c.spans :
               Suffer([c EXCEPT !.logs[i].trace = c.spans[j].trace,
                                !.logs[i].span = c.spans[j].id])
    BY <1>16 DEF Misattribute, c
  <2>2. ASSUME NEW m \in Nat, NEW n \in Nat
        PROVE  [c EXCEPT !.logs[i].trace = m, !.logs[i].span = n] \in CapturesOf(b)
    <3> DEFINE r == [c.logs[i] EXCEPT !.trace = m, !.span = n]
    <3>1. [c EXCEPT !.logs[i].trace = m, !.logs[i].span = n] = [c EXCEPT !["logs"][i] = r]
      BY <1>1, <1>2
    <3>2. r \in LogsOf(b)
      BY <1>4, ChangedLog
    <3> QED
      BY <1>1, <3>1, <3>2, ChangedRecord
  <2> QED
    BY <1>4, <1>5, <2>1, <2>2 DEF b
<1>17. CASE Batch
  <2>1. PICK signal, i :
          /\ signal \in {"spans", "logs"} /\ i \in DOMAIN c[signal]
          /\ Suffer([c EXCEPT ![signal][i].batch = 1])
    BY <1>17 DEF Batch, c
  <2> DEFINE r == [c[signal][i] EXCEPT !.batch = 1]
  <2>2. [c EXCEPT ![signal][i].batch = 1] = [c EXCEPT ![signal][i] = r]
    OBVIOUS
  <2>3. CASE signal = "spans"
    BY <1>1, <1>4, <2>1, <2>2, <2>3, ChangedSpan, ChangedRecord DEF b
  <2>4. CASE signal = "logs"
    BY <1>1, <1>4, <2>1, <2>2, <2>4, ChangedLog, ChangedRecord DEF b
  <2> QED
    BY <2>1, <2>3, <2>4
<1>18. CASE Disown
  <2> DEFINE other == [service |-> "app", probe |-> "", rest |-> "other"]
  <2>1. PICK signal, i :
          /\ signal \in DOMAIN c /\ i \in DOMAIN c[signal]
          /\ Suffer([c EXCEPT ![signal][i].res = other])
    BY <1>18 DEF Disown, c
  <2> HIDE DEF other
  <2> DEFINE r == [c[signal][i] EXCEPT !.res = other]
  <2>2. [c EXCEPT ![signal][i].res = other] = [c EXCEPT ![signal][i] = r] /\ other \in LooseResources
    BY <1>7 DEF other
  <2>3. CASE signal = "spans"
    BY <1>1, <1>4, <2>1, <2>2, <2>3, ChangedSpan, ChangedRecord DEF b
  <2>4. CASE signal = "logs"
    BY <1>1, <1>4, <2>1, <2>2, <2>4, ChangedLog, ChangedRecord DEF b
  <2>5. CASE signal = "points"
    BY <1>1, <1>4, <2>1, <2>2, <2>5, ChangedPoint, ChangedRecord DEF b
  <2> QED
    BY <1>1, <2>1, <2>3, <2>4, <2>5
<1>19. CASE ChangeExemplars
  <2>1. PICK i \in DOMAIN c.points, e \in {"none", "valid", "invalid"} :
          Suffer([c EXCEPT !.points[i].exemplars = e])
    BY <1>19 DEF ChangeExemplars, c
  <2> DEFINE r == [c.points[i] EXCEPT !.exemplars = e]
  <2>2. [c EXCEPT !.points[i].exemplars = e] = [c EXCEPT !["points"][i] = r]
    OBVIOUS
  <2> QED
    BY <1>1, <1>4, <2>1, <2>2, ChangedPoint, ChangedRecord DEF b
<1>20. CASE Miscollect
  <2>1. PICK i \in DOMAIN c.points : Suffer([c EXCEPT !.points[i].count = 0])
    BY <1>20 DEF Miscollect, c
  <2> DEFINE r == [c.points[i] EXCEPT !.count = 0]
  <2>2. [c EXCEPT !.points[i].count = 0] = [c EXCEPT !["points"][i] = r]
    OBVIOUS
  <2> QED
    BY <1>1, <1>4, <2>1, <2>2, ChangedPoint, ChangedRecord DEF b
<1> QED
  BY <1>8, <1>9, <1>10, <1>11, <1>12, <1>13, <1>14, <1>15, <1>16, <1>17, <1>18, <1>19, <1>20 DEF Next

(* What an SDK that obeys makes of attributes and events is of their kind. *)
LEMMA ObeyedAttributes ==
  ASSUME NEW A \in AttributeSets
  PROVE  /\ A \in LooseSets /\ Shortened(A) \in LooseSets /\ A \cup {Header} \in LooseSets
         /\ \A cap \in Nat : Lasting(A, cap) \in LooseSets
         /\ \A cap \in Nat : Cardinality(A) - Cardinality(Lasting(A, cap)) \in Int
<1>1. A \in SUBSET Attributes /\ IsFiniteSet(A) /\ Attributes \subseteq LooseAttributes
  <2>1. ASSUME NEW a \in Attributes
        PROVE  a \in LooseAttributes
    <3>1. a = [key |-> a.key, len |-> a.len] /\ a.key \in STRING /\ a.len \in Nat
      BY DEF Attributes
    <3>2. a.key \in Texts
      BY <3>1, Zenon DEF Texts
    <3>3. a.len \in Int
      BY <3>1
    <3> QED
      BY <3>1, <3>2, <3>3 DEF LooseAttributes
  <2> QED
    BY <2>1 DEF AttributeSets
<1>2. Shortened(A) \in LooseSets
  <2>1. Shortened(A) \in SUBSET Attributes
    BY <1>1, Shortening
  <2> DEFINE f == [a \in A |-> [a EXCEPT !.len = IF @ > Limit THEN Limit ELSE @]]
  <2>2. Shortened(A) = {f[a] : a \in DOMAIN f} /\ DOMAIN f = A
    BY DEF Shortened
  <2> HIDE DEF f
  <2> QED
    BY <1>1, <2>1, <2>2, ImageIsFinite DEF LooseSets
<1>3. A \cup {Header} \in LooseSets
  <2>1. Header \in LooseAttributes
    BY ExperimentsAssumption DEF Header, LooseAttributes, Texts
  <2> QED
    BY <1>1, <2>1, FS_AddElement DEF LooseSets
<1>4. \A cap \in Nat : Lasting(A, cap) \subseteq A /\ IsFiniteSet(Lasting(A, cap))
  BY <1>1, LastingKeeps, FS_Subset
<1>5. Cardinality(A) \in Nat /\ \A cap \in Nat : Cardinality(Lasting(A, cap)) \in Nat
  BY <1>1, <1>4, FS_CardinalityType
<1> QED
  BY <1>1, <1>2, <1>3, <1>4, <1>5 DEF LooseSets

(* The same for the events of a span, and for their attributes. *)
LEMMA ObeyedEvents ==
  ASSUME NEW events \in Seq(SpanEvents)
  PROVE  /\ events \in Seq(LooseEvents) /\ ShortenedEvents(events) \in Seq(LooseEvents)
         /\ \A cap \in Nat : [k \in DOMAIN events |-> Cut(events[k], cap)] \in Seq(LooseEvents)
         /\ Len(events) \in Nat
<1>1. Len(events) \in Nat /\ DOMAIN events = 1 .. Len(events)
  OBVIOUS
<1>2. ASSUME NEW k \in DOMAIN events
      PROVE  /\ events[k] \in LooseEvents
             /\ [events[k] EXCEPT !.attrs = Shortened(@)] \in LooseEvents
             /\ \A cap \in Nat : Cut(events[k], cap) \in LooseEvents
  <2> DEFINE e == events[k]
  <2>a. e \in SpanEvents
    OBVIOUS
  <2>1. /\ e \in SpanEvents /\ e.attrs \in AttributeSets /\ e.dropped \in Nat
        /\ DOMAIN e = {"name", "attrs", "dropped"} /\ e.name \in STRING
        /\ e = [name |-> e.name, attrs |-> e.attrs, dropped |-> e.dropped]
    <3> HIDE DEF e
    <3> QED
      BY <2>a DEF SpanEvents
  <2> HIDE DEF e
  <2>2. \A A \in LooseSets, n \in Int : [name |-> e.name, attrs |-> A, dropped |-> n] \in LooseEvents
    BY <2>1 DEF LooseEvents
  <2>3. [e EXCEPT !.attrs = Shortened(@)]
          = [name |-> e.name, attrs |-> Shortened(e.attrs), dropped |-> e.dropped]
    BY <2>1
  <2>4. \A cap \in Nat : Cut(e, cap) =
          [name |-> e.name, attrs |-> Lasting(e.attrs, cap),
           dropped |-> e.dropped + Cardinality(e.attrs) - Cardinality(Lasting(e.attrs, cap))]
    <3>1. ASSUME NEW A, NEW n
          PROVE  [e EXCEPT !.attrs = A, !.dropped = n]
                   = [name |-> e.name, attrs |-> A, dropped |-> n]
      <4>1. [e EXCEPT !.attrs = A] = [name |-> e.name, attrs |-> A, dropped |-> e.dropped]
        BY <2>1
      <4>2. [e EXCEPT !.attrs = A, !.dropped = n] = [[e EXCEPT !.attrs = A] EXCEPT !.dropped = n]
        BY <2>1
      <4>3. [[name |-> e.name, attrs |-> A, dropped |-> e.dropped] EXCEPT !.dropped = n]
              = [name |-> e.name, attrs |-> A, dropped |-> n]
        OBVIOUS
      <4> QED
        BY <4>1, <4>2, <4>3, Zenon
    <3>2. \A cap : Cut(e, cap) =
            [e EXCEPT !.attrs = Lasting(e.attrs, cap),
               !.dropped = e.dropped + Cardinality(e.attrs) - Cardinality(Lasting(e.attrs, cap))]
      BY DEF Cut
    <3> QED
      BY <3>1, <3>2
  <2>5. \A cap \in Nat :
          e.dropped + Cardinality(e.attrs) - Cardinality(Lasting(e.attrs, cap)) \in Int
    <3>1. IsFiniteSet(e.attrs) /\ Cardinality(e.attrs) \in Nat
      BY <2>1, FS_CardinalityType DEF AttributeSets
    <3>2. \A cap \in Nat : Cardinality(Lasting(e.attrs, cap)) \in Nat
      BY <3>1, LastingKeeps, FS_Subset, FS_CardinalityType
    <3> QED
      BY <2>1, <3>1, <3>2
  <2>6. e.attrs \in LooseSets /\ Shortened(e.attrs) \in LooseSets
        /\ \A cap \in Nat : Lasting(e.attrs, cap) \in LooseSets
    BY <2>1, ObeyedAttributes
  <2>7. e \in LooseEvents /\ [e EXCEPT !.attrs = Shortened(@)] \in LooseEvents
        /\ \A cap \in Nat : Cut(e, cap) \in LooseEvents
    BY <2>1, <2>2, <2>3, <2>4, <2>5, <2>6
  <2> QED
    BY <2>7 DEF e
<1>3. \A f : (DOMAIN f = 1 .. Len(events) /\ f = [k \in DOMAIN f |-> f[k]]
              /\ \A k \in DOMAIN events : f[k] \in LooseEvents) => f \in Seq(LooseEvents)
  BY <1>1
<1>4. events = [k \in DOMAIN events |-> events[k]]
  OBVIOUS
<1> QED
  BY <1>1, <1>2, <1>3, <1>4 DEF ShortenedEvents

(* Every span that an SDK exports stands for one of the baseline. *)
LEMMA ExportedSpan ==
  ASSUME NEW b \in Baselines, NEW i \in DOMAIN b.spans
  PROVE  /\ ~obeyed => b.spans[i] \in SpansOf(b)
         /\ obeyed => ObeyingSpan(b.spans[i], i) \in SpansOf(b)
<1> DEFINE s == b.spans[i]
<1>1. s \in SpanRecords /\ i \in Nat /\ s \in Records(b, "spans")
  BY BaselineFields DEF Records, ToSet
<1>2. /\ s.id \in Nat /\ s.trace \in Nat /\ s.parent \in Nat /\ s.name \in STRING
      /\ s.server \in BOOLEAN /\ s.attrs \in AttributeSets /\ s.dropped \in Nat
      /\ s.events \in Seq(SpanEvents) /\ s.lost \in Nat /\ s.batch \in Nat
      /\ s.res \in Resources
      /\ DOMAIN s = {"id", "trace", "parent", "name", "server", "attrs", "dropped", "events",
                     "lost", "res", "batch"}
      /\ s = [id |-> s.id, trace |-> s.trace, parent |-> s.parent, name |-> s.name,
              server |-> s.server, attrs |-> s.attrs, dropped |-> s.dropped,
              events |-> s.events, lost |-> s.lost, res |-> s.res, batch |-> s.batch]
  BY <1>1 DEF SpanRecords
<1>3. s.res \in LooseResources
  BY <1>2 DEF Resources, LooseResources, Texts
<1> HIDE DEF s
<1> DEFINE rec(trace, parent, A, n, E, l, r, k) ==
             [id |-> s.id, trace |-> trace, parent |-> parent, name |-> s.name,
              server |-> s.server, attrs |-> A, dropped |-> n, events |-> E, lost |-> l,
              res |-> r, batch |-> k]
<1>4. ASSUME NEW parent \in Nat, parent = Remote => s.parent = Remote,
             NEW A \in LooseSets, NEW n \in Int, NEW E \in Seq(LooseEvents), NEW l \in Int,
             case = "events" => l \in {0, s.lost, s.lost + Len(s.events)},
             NEW r \in LooseResources, NEW k \in Nat, NEW trace \in Nat, trace = Renamed(s.trace)
      PROVE  rec(trace, parent, A, n, E, l, r, k) \in SpansOf(b)
  <2> DEFINE y == rec(trace, parent, A, n, E, l, r, k)
  <2>1. y \in LooseSpans
    BY <1>2 DEF LooseSpans
  <2>2. y.name = s.name /\ y.server = s.server /\ y.id = s.id /\ y.parent = parent /\ y.lost = l
        /\ y.trace = trace
    OBVIOUS
  <2> HIDE DEF y
  <2>3. y \in SpansOf(b)
    BY <1>1, <1>4, <2>1, <2>2 DEF SpansOf
  <2> QED
    BY <2>3 DEF y
<1>5. /\ s.attrs \in LooseSets /\ Shortened(s.attrs) \in LooseSets
      /\ s.attrs \cup {Header} \in LooseSets /\ Lasting(s.attrs, 2) \in LooseSets
      /\ s.dropped + Cardinality(s.attrs) - Cardinality(Lasting(s.attrs, 2)) \in Int
  <2>1. 2 \in Nat
    OBVIOUS
  <2>2. /\ s.attrs \in LooseSets /\ Shortened(s.attrs) \in LooseSets
        /\ s.attrs \cup {Header} \in LooseSets /\ Lasting(s.attrs, 2) \in LooseSets
    BY <1>2, <2>1, ObeyedAttributes
  <2>3. IsFiniteSet(s.attrs) /\ Cardinality(s.attrs) \in Nat
    BY <1>2, FS_CardinalityType DEF AttributeSets
  <2>4. Cardinality(Lasting(s.attrs, 2)) \in Nat
    BY <2>1, <2>3, LastingKeeps, FS_Subset, FS_CardinalityType
  <2> QED
    BY <1>2, <2>2, <2>3, <2>4
<1>6. /\ s.events \in Seq(LooseEvents) /\ ShortenedEvents(s.events) \in Seq(LooseEvents)
      /\ [k \in DOMAIN s.events |-> Cut(s.events[k], 2)] \in Seq(LooseEvents)
      /\ [k \in DOMAIN s.events |-> Cut(s.events[k], 1)] \in Seq(LooseEvents)
      /\ <<>> \in Seq(LooseEvents) /\ s.lost + Len(s.events) \in Int
  <2>1. 1 \in Nat /\ 2 \in Nat /\ s.events \in Seq(SpanEvents) /\ s.lost \in Nat
    BY <1>2
  <2>2. /\ s.events \in Seq(LooseEvents) /\ ShortenedEvents(s.events) \in Seq(LooseEvents)
        /\ \A cap \in Nat : [k \in DOMAIN s.events |-> Cut(s.events[k], cap)] \in Seq(LooseEvents)
        /\ Len(s.events) \in Nat
    BY <2>1, ObeyedEvents
  <2>3. <<>> \in Seq(LooseEvents)
    OBVIOUS
  <2> QED
    BY <2>1, <2>2, <2>3
<1>7. Fresh(s.trace) \in Nat
  BY <1>2 DEF Fresh, Incoming
<1>8. ASSUME ~obeyed
      PROVE  s \in SpansOf(b)
  <2>1. s = rec(s.trace, s.parent, s.attrs, s.dropped, s.events, s.lost, s.res, s.batch)
    BY <1>2
  <2>2. s.trace = Renamed(s.trace) /\ s.lost \in Int /\ s.dropped \in Int
    BY <1>2, <1>8 DEF Renamed
  <2> HIDE DEF rec
  <2> QED
    BY <1>2, <1>3, <1>4, <1>5, <1>6, <2>1, <2>2
<1>9. ASSUME obeyed
      PROVE  ObeyingSpan(s, i) \in SpansOf(b)
  <2>1. s.lost \in Int /\ s.dropped \in Int /\ Nowhere \in Nat /\ Nowhere # Remote
    BY <1>2 DEF Nowhere, Remote
  <2>2. CASE case = "propagation-none"
    <3> DEFINE parent == IF s.parent = Remote THEN Nowhere ELSE s.parent
    <3>1. ObeyingSpan(s, i) = [s EXCEPT !.trace = Fresh(@), !.parent = IF @ = Remote THEN Nowhere ELSE @]
      BY <2>2 DEF ObeyingSpan
    <3>2. ObeyingSpan(s, i)
            = rec(Fresh(s.trace), parent, s.attrs, s.dropped, s.events, s.lost, s.res, s.batch)
      BY <1>2, <3>1
    <3>3. Fresh(s.trace) = Renamed(s.trace) /\ case # "events" /\ parent \in Nat
          /\ parent # Remote
      BY <1>2, <1>9, <2>1, <2>2 DEF Renamed
    <3> HIDE DEF rec, parent
    <3> QED
      BY <1>2, <1>3, <1>4, <1>5, <1>6, <1>7, <2>1, <3>2, <3>3
  <2>3. CASE case # "propagation-none"
    <3>1. s.trace = Renamed(s.trace)
      BY <2>3 DEF Renamed
    <3>2. ASSUME NEW A \in LooseSets, NEW n \in Int, NEW E \in Seq(LooseEvents), NEW l \in Int,
                 case = "events" => l \in {0, s.lost, s.lost + Len(s.events)},
                 NEW r \in LooseResources, NEW k \in Nat
          PROVE  rec(s.trace, s.parent, A, n, E, l, r, k) \in SpansOf(b)
      <4> HIDE DEF rec
      <4> QED
        BY <1>2, <1>4, <3>1, <3>2
    <3>3. CASE case = "span-batch"
      <4>1. ObeyingSpan(s, i)
              = rec(s.trace, s.parent, s.attrs, s.dropped, s.events, s.lost, s.res, i)
        BY <1>2, <3>3 DEF ObeyingSpan
      <4> HIDE DEF rec
      <4> QED
        BY <1>1, <1>2, <1>3, <1>5, <1>6, <2>1, <3>2, <3>3, <4>1
    <3>4. CASE case = "request-headers" /\ IsPropagationProbe(s)
      <4>1. ObeyingSpan(s, i)
              = rec(s.trace, s.parent, s.attrs \cup {Header}, s.dropped, s.events, s.lost, s.res,
                    s.batch)
        BY <1>2, <3>4 DEF ObeyingSpan
      <4> HIDE DEF rec
      <4> QED
        BY <1>1, <1>2, <1>3, <1>5, <1>6, <2>1, <3>2, <3>4, <4>1
    <3>5. CASE case = "span-length"
      <4>1. ObeyingSpan(s, i)
              = rec(s.trace, s.parent, Shortened(s.attrs), s.dropped, s.events, s.lost, s.res,
                    s.batch)
        BY <1>2, <3>5 DEF ObeyingSpan
      <4> HIDE DEF rec
      <4> QED
        BY <1>1, <1>2, <1>3, <1>5, <1>6, <2>1, <3>2, <3>5, <4>1
    <3>6. CASE case = "attribute-length"
      <4>1. ObeyingSpan(s, i)
              = rec(s.trace, s.parent, Shortened(s.attrs), s.dropped, ShortenedEvents(s.events),
                    s.lost, s.res, s.batch)
        BY <1>2, <3>6 DEF ObeyingSpan
      <4> HIDE DEF rec
      <4> QED
        BY <1>1, <1>2, <1>3, <1>5, <1>6, <2>1, <3>2, <3>6, <4>1
    <3>7. CASE case = "attribute-count"
      <4> DEFINE E == [k \in DOMAIN s.events |-> Cut(s.events[k], 2)]
                 n == s.dropped + Cardinality(s.attrs) - Cardinality(Lasting(s.attrs, 2))
      <4>1. Cut(s, 2) = rec(s.trace, s.parent, Lasting(s.attrs, 2), n, s.events, s.lost, s.res,
                            s.batch)
        <5>1. ASSUME NEW A, NEW m
              PROVE  [s EXCEPT !.attrs = A, !.dropped = m]
                       = rec(s.trace, s.parent, A, m, s.events, s.lost, s.res, s.batch)
          <6>1. [s EXCEPT !.attrs = A]
                  = rec(s.trace, s.parent, A, s.dropped, s.events, s.lost, s.res, s.batch)
            BY <1>2
          <6>2. [s EXCEPT !.attrs = A, !.dropped = m] = [[s EXCEPT !.attrs = A] EXCEPT !.dropped = m]
            BY <1>2
          <6>3. [rec(s.trace, s.parent, A, s.dropped, s.events, s.lost, s.res, s.batch)
                   EXCEPT !.dropped = m]
                  = rec(s.trace, s.parent, A, m, s.events, s.lost, s.res, s.batch)
            OBVIOUS
          <6> HIDE DEF rec
          <6> QED
            BY <6>1, <6>2, <6>3, Zenon
        <5>2. Cut(s, 2) = [s EXCEPT !.attrs = Lasting(s.attrs, 2), !.dropped = n]
          BY DEF Cut
        <5> HIDE DEF rec, n
        <5> QED
          BY <5>1, <5>2
      <4>2. ObeyingSpan(s, i) = [Cut(s, 2) EXCEPT !.events = [k \in DOMAIN @ |-> Cut(@[k], 2)]]
        BY <3>7 DEF ObeyingSpan
      <4>3. ObeyingSpan(s, i)
              = rec(s.trace, s.parent, Lasting(s.attrs, 2), n, E, s.lost, s.res, s.batch)
        BY <4>1, <4>2
      <4> HIDE DEF rec, E, n
      <4>4. E \in Seq(LooseEvents) /\ n \in Int
        BY <1>5, <1>6 DEF E, n
      <4> QED
        BY <1>1, <1>2, <1>3, <1>5, <2>1, <3>2, <3>7, <4>3, <4>4
    <3>8. CASE case = "event-attributes"
      <4> DEFINE E == [k \in DOMAIN s.events |-> Cut(s.events[k], 1)]
      <4>1. ObeyingSpan(s, i) = [s EXCEPT !.events = [k \in DOMAIN @ |-> Cut(@[k], 1)]]
        BY <3>8 DEF ObeyingSpan
      <4>2. ObeyingSpan(s, i)
              = rec(s.trace, s.parent, s.attrs, s.dropped, E, s.lost, s.res, s.batch)
        BY <1>2, <4>1
      <4> HIDE DEF rec, E
      <4>3. E \in Seq(LooseEvents)
        BY <1>6 DEF E
      <4> QED
        BY <1>1, <1>2, <1>3, <1>5, <2>1, <3>2, <3>8, <4>2, <4>3
    <3>9. CASE case = "events"
      <4>1. ObeyingSpan(s, i)
              = rec(s.trace, s.parent, s.attrs, s.dropped, <<>>, s.lost + Len(s.events), s.res,
                    s.batch)
        BY <1>2, <3>9 DEF ObeyingSpan
      <4>2. s.lost + Len(s.events) \in {0, s.lost, s.lost + Len(s.events)} /\ s.batch \in Nat
            /\ <<>> \in Seq(LooseEvents) /\ s.lost + Len(s.events) \in Int
        BY <1>2, <1>6
      <4> HIDE DEF rec
      <4>3. rec(s.trace, s.parent, s.attrs, s.dropped, <<>>, s.lost + Len(s.events), s.res,
                s.batch) \in SpansOf(b)
        BY <1>3, <1>5, <2>1, <3>2, <4>2, Zenon
      <4> QED
        BY <4>1, <4>3
    <3>10. CASE /\ case \notin {"span-batch", "span-length", "attribute-length",
                                "attribute-count", "event-attributes", "events"}
                /\ ~(case = "request-headers" /\ IsPropagationProbe(s))
      <4>1. ObeyingSpan(s, i) = Named(s)
        BY <2>3, <3>10 DEF ObeyingSpan
      <4>2. PICK r \in LooseResources :
              Named(s) = rec(s.trace, s.parent, s.attrs, s.dropped, s.events, s.lost, r, s.batch)
        <5> DEFINE res == s.res
        <5>1. res = [service |-> res.service, probe |-> res.probe, rest |-> res.rest]
              /\ res.service \in Texts /\ res.probe \in Texts /\ res.rest \in Texts
          BY <1>3 DEF LooseResources
        <5>2. CASE case = "default-service"
          <6>1. Named(s) = [s EXCEPT !.res = [res EXCEPT !.service = "unknown"]]
            BY <1>2, <5>2 DEF Named
          <6>2. [res EXCEPT !.service = "unknown"] \in LooseResources
            BY <5>1 DEF LooseResources, Texts
          <6> HIDE DEF res
          <6> QED
            BY <1>2, <6>1, <6>2
        <5>3. CASE case = "resource"
          <6>1. Named(s) = [s EXCEPT !.res =
                              [res EXCEPT !.service = "external-probe", !.probe = "visible"]]
            BY <1>2, <5>1, <5>3 DEF Named
          <6>2. [res EXCEPT !.service = "external-probe", !.probe = "visible"] \in LooseResources
            BY <5>1 DEF LooseResources, Texts
          <6> HIDE DEF res
          <6> QED
            BY <1>2, <6>1, <6>2
        <5>4. CASE case \notin {"default-service", "resource"}
          <6>1. Named(s) = s
            BY <5>4 DEF Named
          <6> QED
            BY <1>2, <1>3, <6>1
        <5> QED
          BY <5>2, <5>3, <5>4
      <4> HIDE DEF rec
      <4> QED
        BY <1>1, <1>2, <1>3, <1>5, <1>6, <2>1, <3>2, <3>10, <4>1, <4>2
    <3> QED
      BY <3>3, <3>4, <3>5, <3>6, <3>7, <3>8, <3>9, <3>10
  <2> QED
    BY <2>2, <2>3
<1> QED
  BY <1>8, <1>9 DEF s

(* Every resource that an SDK exports is one, whatever the setting makes of it. *)
LEMMA ExportedResource ==
  ASSUME NEW res \in Resources
  PROVE  /\ res \in LooseResources
         /\ [res EXCEPT !.service = "unknown"] \in LooseResources
         /\ [res EXCEPT !.service = "external-probe", !.probe = "visible"] \in LooseResources
<1>1. res = [service |-> res.service, probe |-> res.probe, rest |-> res.rest]
      /\ res.service \in STRING /\ res.probe \in STRING /\ res.rest \in STRING
  BY DEF Resources
<1>2. res.service \in Texts /\ res.probe \in Texts /\ res.rest \in Texts
  BY <1>1, Zenon DEF Texts
<1>3. res \in LooseResources
  BY <1>1, <1>2 DEF LooseResources
<1>4. [res EXCEPT !.service = "unknown"] \in LooseResources
  BY <1>3 DEF LooseResources, Texts
<1>5. [res EXCEPT !.service = "external-probe", !.probe = "visible"] \in LooseResources
  BY <1>3 DEF LooseResources, Texts
<1> QED
  BY <1>3, <1>4, <1>5

(* Every log that an SDK exports. *)
LEMMA ExportedLog ==
  ASSUME NEW b \in Baselines, NEW i \in DOMAIN b.logs
  PROVE  b.logs[i] \in LogsOf(b) /\ ObeyingLog(b.logs[i], i) \in LogsOf(b)
<1> DEFINE l == b.logs[i]
           rec(trace, A, n, r, k) ==
             [body |-> l.body, attrs |-> A, dropped |-> n, trace |-> trace, span |-> l.span,
              res |-> r, batch |-> k]
<1>1. l \in LogRecords /\ i \in Nat /\ b.logs # <<>>
  BY BaselineFields
<1>2. /\ l.body \in STRING /\ l.attrs \in AttributeSets /\ l.dropped \in Nat /\ l.trace \in Nat
      /\ l.span \in Nat /\ l.res \in Resources /\ l.batch \in Nat
      /\ DOMAIN l = {"body", "attrs", "dropped", "trace", "span", "res", "batch"}
      /\ l = rec(l.trace, l.attrs, l.dropped, l.res, l.batch)
  BY <1>1 DEF LogRecords
<1> HIDE DEF l
<1>3. ASSUME NEW trace \in Nat, NEW A \in LooseSets, NEW n \in Int, NEW r \in LooseResources,
             NEW k \in Nat
      PROVE  rec(trace, A, n, r, k) \in LogsOf(b)
  BY <1>1, <1>2, <1>3 DEF LogsOf, LooseLogs
<1>4. ASSUME NEW cap \in Nat
      PROVE  Lasting(l.attrs, cap) \in LooseSets
             /\ l.dropped + Cardinality(l.attrs) - Cardinality(Lasting(l.attrs, cap)) \in Int
  <2>1. IsFiniteSet(l.attrs) /\ Cardinality(l.attrs) \in Nat
    BY <1>2, FS_CardinalityType DEF AttributeSets
  <2>2. Cardinality(Lasting(l.attrs, cap)) \in Nat
    BY <2>1, LastingKeeps, FS_Subset, FS_CardinalityType
  <2>3. l.attrs \in AttributeSets /\ l.dropped \in Nat
    BY <1>2
  <2>4. Lasting(l.attrs, cap) \in LooseSets
    BY <2>3, ObeyedAttributes
  <2> QED
    BY <2>1, <2>2, <2>3, <2>4
<1>5. l.attrs \in LooseSets /\ Shortened(l.attrs) \in LooseSets /\ l.dropped \in Int
  <2>1. l.attrs \in AttributeSets /\ l.dropped \in Nat
    BY <1>2
  <2>2. l.attrs \in LooseSets /\ Shortened(l.attrs) \in LooseSets
    BY <2>1, ObeyedAttributes
  <2> QED
    BY <2>1, <2>2
<1>6. /\ l.res \in LooseResources
      /\ [l.res EXCEPT !.service = "unknown"] \in LooseResources
      /\ [l.res EXCEPT !.service = "external-probe", !.probe = "visible"] \in LooseResources
  BY <1>2, ExportedResource
<1>7. Fresh(l.trace) \in Nat
  BY <1>2 DEF Fresh, Incoming
<1>8. l \in LogsOf(b)
  <2> HIDE DEF rec
  <2> QED
    BY <1>2, <1>3, <1>5, <1>6
<1>9. ASSUME NEW cap \in Nat
      PROVE  Cut(l, cap) \in LogsOf(b)
  <2> DEFINE A == Lasting(l.attrs, cap)
             n == l.dropped + Cardinality(l.attrs) - Cardinality(Lasting(l.attrs, cap))
  <2>1. Cut(l, cap) = [l EXCEPT !.attrs = A, !.dropped = n]
    BY <1>2 DEF Cut
  <2> HIDE DEF A, n
  <2>2. [l EXCEPT !.attrs = A, !.dropped = n] = [[l EXCEPT !.attrs = A] EXCEPT !.dropped = n]
    BY <1>2
  <2>3. [l EXCEPT !.attrs = A] = rec(l.trace, A, l.dropped, l.res, l.batch)
    BY <1>2
  <2>4. [rec(l.trace, A, l.dropped, l.res, l.batch) EXCEPT !.dropped = n]
          = rec(l.trace, A, n, l.res, l.batch)
    OBVIOUS
  <2> HIDE DEF rec
  <2>5. Cut(l, cap) = rec(l.trace, A, n, l.res, l.batch)
    BY <2>1, <2>2, <2>3, <2>4, Zenon
  <2> QED
    BY <1>2, <1>3, <1>4, <1>6, <2>5 DEF A, n
<1>10. ObeyingLog(l, i) \in LogsOf(b)
  <2>1. CASE case = "log-batch"
    <3>1. ObeyingLog(l, i) = rec(l.trace, l.attrs, l.dropped, l.res, i)
      BY <1>2, <2>1 DEF ObeyingLog
    <3> HIDE DEF rec
    <3> QED
      BY <1>1, <1>2, <1>3, <1>5, <1>6, <3>1
  <2>2. CASE case = "propagation-none"
    <3>1. ObeyingLog(l, i) = rec(Fresh(l.trace), l.attrs, l.dropped, l.res, l.batch)
      BY <1>2, <2>2 DEF ObeyingLog
    <3> HIDE DEF rec
    <3> QED
      BY <1>2, <1>3, <1>5, <1>6, <1>7, <3>1
  <2>3. CASE case \in {"attribute-length", "log-length"}
    <3>1. ObeyingLog(l, i) = rec(l.trace, Shortened(l.attrs), l.dropped, l.res, l.batch)
      BY <1>2, <2>3 DEF ObeyingLog
    <3> HIDE DEF rec
    <3> QED
      BY <1>2, <1>3, <1>5, <1>6, <3>1
  <2>4. CASE case \in {"attribute-count", "log-count"}
    <3>1. ObeyingLog(l, i) \in {Cut(l, 1), Cut(l, 2)}
      BY <2>4 DEF ObeyingLog
    <3> QED
      BY <1>9, <3>1
  <2>5. CASE case \notin {"log-batch", "propagation-none", "attribute-length", "log-length",
                          "attribute-count", "log-count"}
    <3>1. ObeyingLog(l, i) = Named(l)
      BY <2>5 DEF ObeyingLog
    <3>2. CASE case = "default-service"
      <4>1. Named(l) = [l EXCEPT !.res = [l.res EXCEPT !.service = "unknown"]]
        BY <1>2, <3>2 DEF Named
      <4>2. \A r : [l EXCEPT !.res = r] = rec(l.trace, l.attrs, l.dropped, r, l.batch)
        BY <1>2
      <4> HIDE DEF rec
      <4> QED
        BY <1>2, <1>3, <1>5, <1>6, <3>1, <4>1, <4>2
    <3>3. CASE case = "resource"
      <4>1. Named(l) = [l EXCEPT !.res =
                          [l.res EXCEPT !.service = "external-probe", !.probe = "visible"]]
        <5>1. l.res = [service |-> l.res.service, probe |-> l.res.probe, rest |-> l.res.rest]
          BY <1>2 DEF Resources
        <5> QED
          BY <1>2, <3>3, <5>1 DEF Named
      <4>2. \A r : [l EXCEPT !.res = r] = rec(l.trace, l.attrs, l.dropped, r, l.batch)
        BY <1>2
      <4> HIDE DEF rec
      <4> QED
        BY <1>2, <1>3, <1>5, <1>6, <3>1, <4>1, <4>2
    <3>4. CASE case \notin {"default-service", "resource"}
      BY <1>8, <3>1, <3>4 DEF Named
    <3> QED
      BY <3>2, <3>3, <3>4
  <2> QED
    BY <2>1, <2>2, <2>3, <2>4, <2>5
<1> QED
  BY <1>8, <1>10 DEF l

(* Every point that an SDK exports. *)
LEMMA ExportedPoint ==
  ASSUME NEW b \in Baselines, NEW i \in DOMAIN b.points
  PROVE  b.points[i] \in PointsOf(b) /\ ObeyingPoint(b.points[i]) \in PointsOf(b)
<1> DEFINE p == b.points[i]
           rec(type, exemplars, r) ==
             [name |-> p.name, state |-> p.state, type |-> type, count |-> p.count,
              exemplars |-> exemplars, res |-> r, group |-> p.group]
<1>1. p \in PointRecords /\ p \in Records(b, "points")
  BY BaselineFields DEF Records, ToSet
<1>2. /\ p.name \in STRING /\ p.state \in STRING /\ p.type \in {"histogram", "exponential", "sum"}
      /\ p.count \in Nat /\ p.exemplars \in {"none", "valid", "invalid"} /\ p.res \in Resources
      /\ p.group \in Nat
      /\ DOMAIN p = {"name", "state", "type", "count", "exemplars", "res", "group"}
      /\ p = rec(p.type, p.exemplars, p.res)
  BY <1>1 DEF PointRecords
<1> HIDE DEF p
<1>3. ASSUME NEW type \in {"histogram", "exponential", "sum"},
             NEW exemplars \in {"none", "valid", "invalid"}, NEW r \in LooseResources
      PROVE  rec(type, exemplars, r) \in PointsOf(b)
  <2> DEFINE q == rec(type, exemplars, r)
  <2>1. q \in LoosePoints /\ q.group = p.group
    BY <1>2 DEF LoosePoints
  <2> HIDE DEF q
  <2>2. q \in PointsOf(b)
    BY <1>1, <2>1 DEF PointsOf
  <2> QED
    BY <2>2 DEF q
<1>4. /\ p.res \in LooseResources
      /\ [p.res EXCEPT !.service = "unknown"] \in LooseResources
      /\ [p.res EXCEPT !.service = "external-probe", !.probe = "visible"] \in LooseResources
  BY <1>2, ExportedResource
<1>5. p \in PointsOf(b)
  <2> HIDE DEF rec
  <2> QED
    BY <1>2, <1>3, <1>4
<1>6. ObeyingPoint(p) \in PointsOf(b)
  <2>1. CASE case \in {"sampler", "exemplars"}
    <3>1. ObeyingPoint(p) = rec(p.type, "none", p.res)
      BY <1>2, <2>1 DEF ObeyingPoint
    <3> HIDE DEF rec
    <3> QED
      BY <1>2, <1>3, <1>4, <3>1
  <2>2. CASE case = "exemplars-always-on"
    <3>1. ObeyingPoint(p) = rec(p.type, "valid", p.res)
      BY <1>2, <2>2 DEF ObeyingPoint
    <3> HIDE DEF rec
    <3> QED
      BY <1>2, <1>3, <1>4, <3>1
  <2>3. CASE case = "histogram"
    <3>1. ObeyingPoint(p) = rec(IF p.type = "histogram" THEN "exponential" ELSE p.type,
                                p.exemplars, p.res)
      BY <1>2, <2>3 DEF ObeyingPoint
    <3> HIDE DEF rec
    <3> QED
      BY <1>2, <1>3, <1>4, <3>1
  <2>4. CASE case \notin {"sampler", "exemplars", "exemplars-always-on", "histogram"}
    <3>1. ObeyingPoint(p) = Named(p)
      BY <2>4 DEF ObeyingPoint
    <3>0. \A r : [p EXCEPT !.res = r] = rec(p.type, p.exemplars, r)
      BY <1>2
    <3>2. CASE case = "default-service"
      <4>1. Named(p) = [p EXCEPT !.res = [p.res EXCEPT !.service = "unknown"]]
        BY <1>2, <3>2 DEF Named
      <4> HIDE DEF rec
      <4> QED
        BY <1>2, <1>3, <1>4, <3>0, <3>1, <4>1
    <3>3. CASE case = "resource"
      <4>1. Named(p) = [p EXCEPT !.res =
                          [p.res EXCEPT !.service = "external-probe", !.probe = "visible"]]
        <5>1. p.res = [service |-> p.res.service, probe |-> p.res.probe, rest |-> p.res.rest]
          BY <1>2 DEF Resources
        <5> QED
          BY <1>2, <3>3, <5>1 DEF Named
      <4> HIDE DEF rec
      <4> QED
        BY <1>2, <1>3, <1>4, <3>0, <3>1, <4>1
    <3>4. CASE case \notin {"default-service", "resource"}
      BY <1>5, <3>1, <3>4 DEF Named
    <3> QED
      BY <3>2, <3>3, <3>4
  <2> QED
    BY <2>1, <2>2, <2>3, <2>4
<1> QED
  BY <1>5, <1>6 DEF p

(* The capture starts as one of the baseline's records. *)
LEMMA ExportsDescend ==
  Init => ((\A s \in Records(baseline, "spans") : s.id # Remote) => Descends)
<1> SUFFICES ASSUME Init, \A s \in Records(baseline, "spans") : s.id # Remote
             PROVE  Descends
  OBVIOUS
<1> DEFINE b == baseline
           c == changed
<1>1. b \in Baselines
  BY DEF Init
<1>2. \A s \in Records(b, "spans") : s.id # Remote /\ s.id \in Nat
  BY <1>1, BaselineFields DEF Init, Records, ToSet, SpanRecords
<1>3. b.spans \in Seq(SpanRecords) /\ b.logs \in Seq(LogRecords) /\ b.points \in Seq(PointRecords)
      /\ Len(b.spans) \in Nat /\ Len(b.logs) \in Nat /\ Len(b.points) \in Nat
      /\ DOMAIN b.spans = 1 .. Len(b.spans) /\ DOMAIN b.logs = 1 .. Len(b.logs)
      /\ DOMAIN b.points = 1 .. Len(b.points)
      /\ b = [spans |-> b.spans, logs |-> b.logs, points |-> b.points]
  <2>1. b \in Captures
    BY <1>1, ExperimentsAssumption
  <2> QED
    BY <2>1 DEF Captures
<1>4. ASSUME NEW S, NEW n \in Nat, NEW f, DOMAIN f = 1 .. n, f = [i \in 1 .. n |-> f[i]],
             \A i \in 1 .. n : f[i] \in S
      PROVE  f \in Seq(S)
  BY <1>4
<1> HIDE DEF b
<1>5. CASE ~obeyed
  <2>1. c = b
    BY <1>5 DEF Init, b
  <2>2. b.spans \in Seq(SpansOf(b))
    <3>1. \A i \in DOMAIN b.spans : b.spans[i] \in SpansOf(b)
      BY <1>1, <1>5, ExportedSpan
    <3>2. b.spans = [i \in 1 .. Len(b.spans) |-> b.spans[i]]
      BY <1>3
    <3> QED
      BY <1>3, <1>4, <3>1, <3>2
  <2>3. b.logs \in Seq(LogsOf(b))
    <3>1. \A i \in DOMAIN b.logs : b.logs[i] \in LogsOf(b)
      BY <1>1, ExportedLog
    <3>2. b.logs = [i \in 1 .. Len(b.logs) |-> b.logs[i]]
      BY <1>3
    <3> QED
      BY <1>3, <1>4, <3>1, <3>2
  <2>4. b.points \in Seq(PointsOf(b))
    <3>1. \A i \in DOMAIN b.points : b.points[i] \in PointsOf(b)
      BY <1>1, ExportedPoint
    <3>2. b.points = [i \in 1 .. Len(b.points) |-> b.points[i]]
      BY <1>3
    <3> QED
      BY <1>3, <1>4, <3>1, <3>2
  <2>5. b \in CapturesOf(b)
    BY <1>3, <2>2, <2>3, <2>4 DEF CapturesOf
  <2> QED
    BY <1>2, <2>1, <2>5 DEF Descends, b
<1>6. CASE obeyed /\ case = "disabled"
  <2>1. c = Nothing
    BY <1>6 DEF Init, Obeying
  <2>2. c \in CapturesOf(b)
    BY <2>1 DEF Nothing, CapturesOf
  <2> QED
    BY <1>2, <2>2 DEF Descends, b
<1>7. CASE obeyed /\ case # "disabled"
  <2> DEFINE spans == IF case = "sampler" THEN <<>>
                      ELSE [i \in DOMAIN b.spans |-> ObeyingSpan(b.spans[i], i)]
             logs == [i \in DOMAIN b.logs |-> ObeyingLog(b.logs[i], i)]
             points == [i \in DOMAIN b.points |-> ObeyingPoint(b.points[i])]
  <2>1. c = [spans |-> spans, logs |-> logs, points |-> points]
    BY <1>7 DEF Init, Obeying, b
  <2>2. spans \in Seq(SpansOf(b))
    <3> DEFINE f == [i \in DOMAIN b.spans |-> ObeyingSpan(b.spans[i], i)]
    <3>1. \A i \in DOMAIN b.spans : f[i] \in SpansOf(b)
      BY <1>1, <1>7, ExportedSpan
    <3>2. f = [i \in 1 .. Len(b.spans) |-> f[i]] /\ DOMAIN f = 1 .. Len(b.spans)
      BY <1>3
    <3> HIDE DEF f
    <3>3. f \in Seq(SpansOf(b))
      BY <1>3, <1>4, <3>1, <3>2
    <3>4. <<>> \in Seq(SpansOf(b))
      OBVIOUS
    <3> QED
      BY <3>3, <3>4 DEF f
  <2>3. logs \in Seq(LogsOf(b))
    <3>1. \A i \in DOMAIN b.logs : logs[i] \in LogsOf(b)
      BY <1>1, ExportedLog
    <3>2. logs = [i \in 1 .. Len(b.logs) |-> logs[i]] /\ DOMAIN logs = 1 .. Len(b.logs)
      BY <1>3
    <3> HIDE DEF logs
    <3> QED
      BY <1>3, <1>4, <3>1, <3>2
  <2>4. points \in Seq(PointsOf(b))
    <3>1. \A i \in DOMAIN b.points : points[i] \in PointsOf(b)
      BY <1>1, ExportedPoint
    <3>2. points = [i \in 1 .. Len(b.points) |-> points[i]] /\ DOMAIN points = 1 .. Len(b.points)
      BY <1>3
    <3> HIDE DEF points
    <3> QED
      BY <1>3, <1>4, <3>1, <3>2
  <2> HIDE DEF spans, logs, points
  <2>5. c \in CapturesOf(b)
    BY <2>1, <2>2, <2>3, <2>4 DEF CapturesOf
  <2> QED
    BY <1>2, <2>5 DEF Descends, b
<1> QED
  BY <1>5, <1>6, <1>7

(* Unless a span of the baseline has the identifier of the remote parent, which *)
(* moved spans would then take for theirs.                                   *)
Remaining == (\A s \in Records(baseline, "spans") : s.id # Remote) => Descends

(* Whatever is lost, repeated or damaged, what is captured stands for records of *)
(* the workload.                                                             *)
LEMMA StaysRemaining == Spec => []Remaining
<1>1. Init => Remaining
  BY ExportsDescend DEF Remaining
<1>2. ASSUME Fields, Remaining, [Next]_vars
      PROVE  Remaining'
  <2> SUFFICES ASSUME (\A s \in Records(baseline, "spans") : s.id # Remote)'
               PROVE  Descends'
    BY DEF Remaining
  <2>1. baseline' = baseline /\ case' = case /\ (obeyed' <=> obeyed)
    <3>1. CASE Next
      <4>1. PICK capture : Suffer(capture)
        BY <3>1, DefectsSuffer
      <4> QED
        BY <4>1 DEF Suffer
    <3>2. CASE UNCHANGED vars
      BY <3>2 DEF vars
    <3> QED
      BY <1>2, <3>1, <3>2
  <2>2. Descends
    BY <1>2, <2>1 DEF Remaining
  <2>3. CapturesOf(baseline)' = CapturesOf(baseline)
    <3>1. \A trace : Renamed(trace)' = Renamed(trace)
      BY <2>1 DEF Renamed
    <3> QED
      BY <2>1, <3>1 DEF CapturesOf, SpansOf, LogsOf, PointsOf
  <2>4. changed' \in CapturesOf(baseline)
    <3>1. CASE Next
      <4>1. PICK capture \in CapturesOf(baseline) : Suffer(capture)
        BY <1>2, <2>2, <3>1, DefectsLeaveRemains
      <4> QED
        BY <4>1 DEF Suffer
    <3>2. CASE UNCHANGED vars
      BY <2>2, <3>2 DEF vars, Descends
    <3> QED
      BY <1>2, <3>1, <3>2
  <2> QED
    BY <2>1, <2>2, <2>3, <2>4 DEF Descends
<1> QED
  BY FieldsAreKept, <1>1, <1>2, PTL DEF Spec

(* A span or log that refers to a span. *)
ReferredTo(b, j) ==
  \/ \E s \in Records(b, "spans") : j \in At(b, s.trace, s.parent)
  \/ \E l \in Records(b, "logs") : j \in At(b, l.trace, l.span)

(* What the comparison cannot tell apart does not occur in the baseline: evaluate *)
(* compares a parent by its name and resource, never by its identifier.        *)
Distinguished(b) ==
  (* Every span is of the workload, and has an identity there. *)
  /\ ValidStructure(b) /\ WorkloadSpans(b) = DOMAIN b.spans
  (* No span has the identifier of the remote parent; only probes are its children. *)
  /\ \A s \in Records(b, "spans") :
       /\ s.id \notin {Nowhere, Remote}
       /\ s.parent = Remote => IsPropagationProbe(s)
  (* Probes send the whole user agent; their header is not captured. *)
  /\ \A i \in DOMAIN b.spans : IsPropagationProbe(b.spans[i]) =>
       i \in ProbeSpans(b) /\ \A a \in b.spans[i].attrs : a.key # "header"
  (* Spans of one name are of one kind; those with children or logs are alike, and  *)
  (* under events all of one name lose as many.                                 *)
  /\ \A i, j \in DOMAIN b.spans : b.spans[i].name = b.spans[j].name =>
       /\ b.spans[i].server = b.spans[j].server
       /\ ReferredTo(b, j) => /\ Whole(b.spans[i]) = Whole(b.spans[j])
                              /\ b.spans[i].parent = Remote <=> b.spans[j].parent = Remote
       /\ case = "events" => /\ Len(b.spans[i].events) = Len(b.spans[j].events)
                             /\ b.spans[i].lost = 0
  (* A log has the whole context of a span or none of it. *)
  /\ \A l \in Records(b, "logs") : l.trace = 0 <=> l.span = 0
  (* What comes and goes is counted; the histograms are not converted yet, nor empty. *)
  /\ \A p \in Records(b, "points") :
       /\ Transient(p) => p.type = "sum"
       /\ case = "histogram" => p.type # "exponential" /\ (p.type = "histogram" => p.count > 0)
  (* Where exemplars are gained, one export carries every point once. *)
  /\ case = "exemplars-always-on" => \A p, q \in Records(b, "points") :
       p.group = q.group /\ (~Transient(p) /\ PointID(p) = PointID(q) => p = q)

(* A capture is of finitely many records of their kinds. *)
LEMMA CapturedFields ==
  ASSUME NEW b, NEW c \in CapturesOf(b)
  PROVE  /\ c.spans \in Seq(SpansOf(b)) /\ c.logs \in Seq(LogsOf(b)) /\ c.points \in Seq(PointsOf(b))
         /\ IsFiniteSet(DOMAIN c.spans) /\ IsFiniteSet(DOMAIN c.logs)
         /\ IsFiniteSet(DOMAIN c.points)
         /\ DOMAIN c.spans = 1 .. Len(c.spans) /\ DOMAIN c.logs = 1 .. Len(c.logs)
         /\ DOMAIN c.points = 1 .. Len(c.points)
         /\ \A i \in DOMAIN c.spans : c.spans[i] \in SpansOf(b) /\ c.spans[i] \in LooseSpans
         /\ \A i \in DOMAIN c.logs : c.logs[i] \in LogsOf(b) /\ c.logs[i] \in LooseLogs
         /\ \A i \in DOMAIN c.points : c.points[i] \in PointsOf(b) /\ c.points[i] \in LoosePoints
<1>1. c.spans \in Seq(SpansOf(b)) /\ c.logs \in Seq(LogsOf(b)) /\ c.points \in Seq(PointsOf(b))
  BY DEF CapturesOf
<1>2. /\ DOMAIN c.spans = 1 .. Len(c.spans) /\ DOMAIN c.logs = 1 .. Len(c.logs)
      /\ DOMAIN c.points = 1 .. Len(c.points)
      /\ Len(c.spans) \in Nat /\ Len(c.logs) \in Nat /\ Len(c.points) \in Nat
  BY <1>1
<1>3. /\ IsFiniteSet(DOMAIN c.spans) /\ IsFiniteSet(DOMAIN c.logs)
      /\ IsFiniteSet(DOMAIN c.points)
  <2>1. \A n \in Nat : IsFiniteSet(1 .. n)
    BY FS_Interval
  <2> QED
    BY <1>2, <2>1
<1>4. /\ \A i \in DOMAIN c.spans : c.spans[i] \in SpansOf(b)
      /\ \A i \in DOMAIN c.logs : c.logs[i] \in LogsOf(b)
      /\ \A i \in DOMAIN c.points : c.points[i] \in PointsOf(b)
  BY <1>1
<1>5. SpansOf(b) \subseteq LooseSpans /\ LogsOf(b) \subseteq LooseLogs
      /\ PointsOf(b) \subseteq LoosePoints
  BY DEF SpansOf, LogsOf, PointsOf
<1> QED
  BY <1>1, <1>2, <1>3, <1>4, <1>5

(* No member of a finite set of integers exceeds the largest. *)
LEMMA NoneExceeds ==
  ASSUME NEW S \in SUBSET Int, IsFiniteSet(S), NEW x \in S
  PROVE  MaxOf(S) \in S /\ x <= MaxOf(S)
<1> DEFINE F == {T \in SUBSET S : T # {} => \E n \in T : \A m \in T : m <= n}
<1>1. {} \in F
  OBVIOUS
<1>2. ASSUME NEW T \in SUBSET S, NEW y \in S, T \in F, y \notin T
      PROVE  T \cup {y} \in F
  <2>1. CASE T = {}
    BY <2>1
  <2>2. CASE T # {}
    <3>1. PICK n \in T : \A m \in T : m <= n
      BY <1>2, <2>2
    <3>2. CASE y <= n
      BY <3>1, <3>2
    <3>3. CASE ~(y <= n)
      <4>1. \A m \in T \cup {y} : m <= y
        BY <3>1, <3>3
      <4> QED
        BY <4>1
    <3> QED
      BY <3>2, <3>3
  <2> QED
    BY <2>1, <2>2
<1>3. S \in F
  <2> HIDE DEF F
  <2> QED
    BY <1>1, <1>2, FiniteSetInduction
<1>4. PICK n \in S : \A m \in S : m <= n
  BY <1>3
<1> QED
  BY <1>4 DEF MaxOf

(* The records limited have no attribute longer than the limit (lengthAt). *)
LEMMA WithinLimit ==
  ASSUME NEW R, IsFiniteSet(R), \A r \in R : r.attrs \in LooseSets, LengthOf(R) = Limit
  PROVE  \A r \in R : \A a \in r.attrs : a.len <= Limit
<1> DEFINE lengths(r) == {a.len : a \in r.attrs}
           all == {lengths(r) : r \in R}
           S == UNION all
<1>1. ASSUME NEW r \in R
      PROVE  IsFiniteSet(lengths(r)) /\ lengths(r) \in SUBSET Int
  <2> DEFINE f == [a \in r.attrs |-> a.len]
  <2>1. IsFiniteSet(r.attrs) /\ \A a \in r.attrs : a.len \in Int
    BY DEF LooseSets, LooseAttributes
  <2>2. lengths(r) = {f[a] : a \in DOMAIN f} /\ DOMAIN f = r.attrs
    OBVIOUS
  <2>3. IsFiniteSet({f[a] : a \in DOMAIN f})
    <3> HIDE DEF f
    <3> QED
      BY <2>1, <2>2, ImageIsFinite
  <2> QED
    BY <2>1, <2>2, <2>3
<1>2. IsFiniteSet(all)
  <2> DEFINE f == [r \in R |-> lengths(r)]
  <2>1. all = {f[r] : r \in DOMAIN f} /\ DOMAIN f = R
    OBVIOUS
  <2> HIDE DEF f
  <2>2. IsFiniteSet({f[r] : r \in DOMAIN f})
    BY <2>1, ImageIsFinite
  <2> QED
    BY <2>1, <2>2
<1>3. IsFiniteSet(S) /\ S \in SUBSET Int
  <2> HIDE DEF lengths
  <2>1. \A T \in all : IsFiniteSet(T) /\ T \in SUBSET Int
    BY <1>1
  <2>2. IsFiniteSet(S)
    <3> HIDE DEF all
    <3> QED
      BY <1>2, <2>1, FS_UNION
  <2> QED
    BY <2>1, <2>2
<1>4. MaxOf(S) = Limit
  BY DEF LengthOf
<1>5. ASSUME NEW r \in R, NEW a \in r.attrs
      PROVE  a.len <= Limit
  <2>1. a.len \in S
    OBVIOUS
  <2> HIDE DEF S
  <2> QED
    BY <1>3, <1>4, <2>1, NoneExceeds
<1> QED
  BY <1>5

(* Such attributes are not shortened. *)
LEMMA NotShortened ==
  ASSUME NEW A \in LooseSets, \A a \in A : a.len <= Limit
  PROVE  Shortened(A) = A
<1>1. ASSUME NEW a \in A
      PROVE  [a EXCEPT !.len = IF @ > Limit THEN Limit ELSE @] = a
  <2>1. a = [key |-> a.key, len |-> a.len] /\ a.len \in Int /\ ~(a.len > Limit)
    BY <1>1, ExperimentsAssumption DEF LooseSets, LooseAttributes
  <2> QED
    BY <2>1
<1> QED
  BY <1>1 DEF Shortened

(* What the form of a span (workloadSpanID and its variants) keeps of it. *)
LEMMA FormKeeps ==
  ASSUME NEW s, case \notin CountCases
  PROVE  /\ SpanForm(s).name = s.name /\ SpanForm(s).dropped = s.dropped
         /\ SpanForm(s).attrs =
              IF case = "request-headers" /\ IsPropagationProbe(s)
              THEN {a \in s.attrs : a.key # "header"}
              ELSE IF case \in {"span-length", "attribute-length"} THEN Shortened(s.attrs)
              ELSE s.attrs
         /\ SpanForm(s).events =
              IF case = "attribute-length" THEN ShortenedEvents(s.events)
              ELSE IF case = "events" THEN <<>> ELSE s.events
         /\ case # "events" => SpanForm(s).lost = s.lost
<1>1. LengthLimited(s) = [name |-> s.name, attrs |-> Shortened(s.attrs), dropped |-> s.dropped,
                          events |-> ShortenedEvents(s.events), lost |-> s.lost]
  <2> DEFINE w == Whole(s)
             A == Shortened(s.attrs)
             E == ShortenedEvents(s.events)
  <2>1. w = [name |-> s.name, attrs |-> s.attrs, dropped |-> s.dropped,
             events |-> s.events, lost |-> s.lost]
    BY DEF Whole
  <2>2. LengthLimited(s) = [w EXCEPT !.attrs = A, !.events = E]
    BY <2>1 DEF LengthLimited
  <2> HIDE DEF w, A, E
  <2>3. [w EXCEPT !.attrs = A, !.events = E] = [[w EXCEPT !.attrs = A] EXCEPT !.events = E]
    BY <2>1
  <2>4. [w EXCEPT !.attrs = A] = [name |-> s.name, attrs |-> A, dropped |-> s.dropped,
                                  events |-> s.events, lost |-> s.lost]
    BY <2>1
  <2>5. [[name |-> s.name, attrs |-> A, dropped |-> s.dropped, events |-> s.events,
          lost |-> s.lost] EXCEPT !.events = E]
          = [name |-> s.name, attrs |-> A, dropped |-> s.dropped, events |-> E, lost |-> s.lost]
    OBVIOUS
  <2>6. LengthLimited(s) = [name |-> s.name, attrs |-> A, dropped |-> s.dropped,
                            events |-> E, lost |-> s.lost]
    BY <2>2, <2>3, <2>4, <2>5, Zenon
  <2> QED
    BY <2>6 DEF A, E
<1>2. CASE case = "request-headers" /\ IsPropagationProbe(s)
  <2>1. SpanForm(s) = [Whole(s) EXCEPT !.attrs = {a \in @ : a.key # "header"}]
    BY <1>2 DEF SpanForm
  <2> QED
    BY <1>2, <2>1 DEF Whole
<1>3. CASE case = "span-length"
  <2>1. SpanForm(s) = [LengthLimited(s) EXCEPT !.events = s.events]
    BY <1>3 DEF SpanForm
  <2> QED
    BY <1>1, <1>3, <2>1
<1>4. CASE case = "attribute-length"
  <2>1. SpanForm(s) = LengthLimited(s)
    BY <1>4 DEF SpanForm
  <2> QED
    BY <1>1, <1>4, <2>1
<1>5. CASE case = "events"
  <2> DEFINE w == Whole(s)
  <2>1. SpanForm(s) = [w EXCEPT !.events = <<>>, !.lost = 0]
    BY <1>5 DEF SpanForm
  <2>2. w = [name |-> s.name, attrs |-> s.attrs, dropped |-> s.dropped,
             events |-> s.events, lost |-> s.lost]
    BY DEF Whole
  <2> HIDE DEF w
  <2> QED
    BY <1>5, <2>1, <2>2
<1>6. CASE case \notin {"span-length", "attribute-length", "events"}
           /\ ~(case = "request-headers" /\ IsPropagationProbe(s))
  <2>1. SpanForm(s) = Whole(s)
    BY <1>6 DEF SpanForm, CountCases
  <2> QED
    BY <1>6, <2>1 DEF Whole
<1> QED
  BY <1>2, <1>3, <1>4, <1>5, <1>6

(* What evaluate's comparison shows of two spans. *)
Corresponding(x, y) ==
  /\ SpanForm(x) = SpanForm(y) /\ Context(x) = Context(y) /\ x.server = y.server
  /\ IsPropagationProbe(x) <=> IsPropagationProbe(y)
  /\ case # "propagation-none" => (x.parent = Remote <=> y.parent = Remote)
  /\ case = "events" => y.lost = x.lost + Len(x.events)

(* With the effect, a context that is the same is the resource the setting makes. *)
LEMMA ContextServes ==
  ASSUME NEW b, NEW c, Effective(b, c), NEW x, x.res \in Resources,
         NEW y \in AllRecords(c), y.res \in LooseResources, Context(x) = Context(y)
  PROVE  SameService(x, y)
<1>1. x.res = [service |-> x.res.service, probe |-> x.res.probe, rest |-> x.res.rest]
  BY DEF Resources
<1>2. y.res = [service |-> y.res.service, probe |-> y.res.probe, rest |-> y.res.rest]
  BY DEF LooseResources
<1>3. CASE case = "default-service"
  <2>1. y.res.service = "unknown"
    BY <1>3 DEF Effective, LengthCases, CountCases
  <2>2. [x.res EXCEPT !.service = "ignored"] = [y.res EXCEPT !.service = "ignored"]
    BY <1>3 DEF Context
  <2>3. x.res.rest = y.res.rest /\ x.res.probe = y.res.probe
    BY <1>1, <1>2, <2>2
  <2> QED
    BY <1>3, <2>1, <2>3 DEF SameService
<1>4. CASE case = "resource"
  <2>1. y.res.service = "external-probe" /\ y.res.probe = "visible"
    BY <1>4 DEF Effective, LengthCases, CountCases
  <2>2. [x.res EXCEPT !.service = "ignored", !.probe = "ignored"]
          = [y.res EXCEPT !.service = "ignored", !.probe = "ignored"]
    BY <1>4 DEF Context
  <2>3. x.res.rest = y.res.rest
    BY <1>1, <1>2, <2>2
  <2> QED
    BY <1>4, <2>1, <2>3 DEF SameService
<1>5. CASE case \notin {"default-service", "resource"}
  <2>1. x.res = y.res
    BY <1>5 DEF Context
  <2> QED
    BY <1>5, <2>1 DEF SameService
<1> QED
  BY <1>3, <1>4, <1>5

(* Spans, logs and events: all that a length setting limits is within the limit. *)
LEMMA LimitsHold ==
  ASSUME NEW b, NEW c \in CapturesOf(b), Effective(b, c), case \in LengthCases
  PROVE  /\ case \in {"span-length", "attribute-length"} =>
              \A i \in DOMAIN c.spans : Shortened(c.spans[i].attrs) = c.spans[i].attrs
         /\ case \in {"log-length", "attribute-length"} =>
              \A i \in DOMAIN c.logs : Shortened(c.logs[i].attrs) = c.logs[i].attrs
         /\ case = "attribute-length" =>
              \A i \in DOMAIN c.spans : \A k \in DOMAIN c.spans[i].events :
                Shortened(c.spans[i].events[k].attrs) = c.spans[i].events[k].attrs
<1>1. LengthOf(Limited(c)) = Limit
  BY DEF Effective, LengthsLimited, LengthCases, CountCases
<1>2. ASSUME NEW S, NEW s \in Seq(S)
      PROVE  IsFiniteSet(ToSet(s)) /\ ToSet(s) \subseteq S
  <2>1. DOMAIN s = 1 .. Len(s) /\ Len(s) \in Nat
    OBVIOUS
  <2>2. IsFiniteSet(DOMAIN s)
    BY <2>1, FS_Interval
  <2>3. IsFiniteSet({s[i] : i \in DOMAIN s})
    BY <2>2, ImageIsFinite
  <2> QED
    BY <2>3 DEF ToSet
<1>3. c.spans \in Seq(SpansOf(b)) /\ c.logs \in Seq(LogsOf(b))
  BY CapturedFields
<1>4. /\ IsFiniteSet(Records(c, "spans")) /\ IsFiniteSet(Records(c, "logs"))
      /\ Records(c, "spans") \subseteq SpansOf(b) /\ Records(c, "logs") \subseteq LogsOf(b)
  BY <1>2, <1>3 DEF Records
<1>5. /\ \A s \in SpansOf(b) : s.attrs \in LooseSets /\ s.events \in Seq(LooseEvents)
      /\ \A l \in LogsOf(b) : l.attrs \in LooseSets
      /\ \A e \in LooseEvents : e.attrs \in LooseSets
  BY DEF SpansOf, LogsOf, LooseSpans, LooseLogs, LooseEvents
<1>6. IsFiniteSet(Events(c)) /\ \A e \in Events(c) : e \in LooseEvents
  <2> DEFINE f == [s \in Records(c, "spans") |-> ToSet(s.events)]
             all == {f[s] : s \in DOMAIN f}
  <2>1. Events(c) = UNION all /\ DOMAIN f = Records(c, "spans")
    BY DEF Events
  <2>2. \A T \in all : IsFiniteSet(T) /\ T \subseteq LooseEvents
    BY <1>2, <1>4, <1>5
  <2>3. IsFiniteSet(all)
    <3> HIDE DEF f
    <3> QED
      BY <1>4, <2>1, ImageIsFinite
  <2>4. IsFiniteSet(UNION all)
    <3> HIDE DEF all
    <3> QED
      BY <2>2, <2>3, FS_UNION
  <2> HIDE DEF all
  <2> QED
    BY <2>1, <2>2, <2>4
<1>7. IsFiniteSet(Limited(c)) /\ \A r \in Limited(c) : r.attrs \in LooseSets
  <2>1. Limited(c) \in {Records(c, "spans"), Records(c, "logs"), Attributed(c)}
    BY DEF Limited, LengthCases
  <2>2. IsFiniteSet(Attributed(c))
    BY <1>4, <1>6, FS_Union DEF Attributed
  <2>3. \A r \in Records(c, "spans") \cup Records(c, "logs") \cup Events(c) : r.attrs \in LooseSets
    BY <1>4, <1>5, <1>6
  <2> QED
    BY <1>4, <2>1, <2>2, <2>3 DEF Attributed
<1>8. \A r \in Limited(c) : Shortened(r.attrs) = r.attrs
  <2>1. \A r \in Limited(c) : \A a \in r.attrs : a.len <= Limit
    BY <1>1, <1>7, WithinLimit
  <2> QED
    BY <1>7, <2>1, NotShortened
<1>9. /\ \A i \in DOMAIN c.spans : c.spans[i] \in Records(c, "spans")
      /\ \A i \in DOMAIN c.logs : c.logs[i] \in Records(c, "logs")
      /\ \A i \in DOMAIN c.spans : \A k \in DOMAIN c.spans[i].events :
           c.spans[i].events[k] \in Events(c)
  <2>1. /\ \A i \in DOMAIN c.spans : c.spans[i] \in Records(c, "spans")
        /\ \A i \in DOMAIN c.logs : c.logs[i] \in Records(c, "logs")
    BY DEF Records, ToSet
  <2>2. \A s \in Records(c, "spans") : \A k \in DOMAIN s.events : s.events[k] \in Events(c)
    BY DEF Events, ToSet
  <2> QED
    BY <2>1, <2>2
<1>10. /\ case = "span-length" => Limited(c) = Records(c, "spans")
       /\ case = "log-length" => Limited(c) = Records(c, "logs")
       /\ case = "attribute-length" =>
            Limited(c) = Records(c, "spans") \cup Records(c, "logs") \cup Events(c)
  BY DEF Limited, Attributed
<1> QED
  BY <1>8, <1>9, <1>10

(* If a part of a set already has as many values as the set has members, it is  *)
(* the whole set.                                                            *)
LEMMA AllOfThem ==
  ASSUME NEW P, IsFiniteSet(P), NEW f, DOMAIN f \subseteq P,
         Cardinality({f[i] : i \in DOMAIN f}) = Cardinality(P)
  PROVE  DOMAIN f = P
<1> DEFINE R == DOMAIN f
           T == {f[i] : i \in DOMAIN f}
           g == [i \in R |-> f[i]]
<1>1. g \in Surjection(R, T)
  BY DEF Surjection
<1>2. IsFiniteSet(R) /\ Cardinality(R) <= Cardinality(P) /\ (Cardinality(P) = Cardinality(R) => R = P)
  BY FS_Subset
<1> HIDE DEF R, T, g
<1>3. IsFiniteSet(T) /\ Cardinality(T) <= Cardinality(R)
  BY <1>1, <1>2, FS_Surjection
<1>4. Cardinality(P) \in Nat /\ Cardinality(R) \in Nat /\ Cardinality(T) = Cardinality(P)
  BY <1>2, FS_CardinalityType DEF T
<1>5. R = P
  BY <1>2, <1>3, <1>4
<1> QED
  BY <1>5 DEF R

(* Under propagation-none every tagged request of the probe starts a trace of    *)
(* its own, and in the baseline every one of them continued the probe's.        *)
LEMMA PropagationShows ==
  ASSUME NEW b \in Baselines, NEW c \in CapturesOf(b), Effective(b, c), Exercised(b),
         case = "propagation-none"
  PROVE  /\ \A i \in ProbeSpans(b) : b.spans[i].parent = Remote
         /\ \A i \in ProbeSpans(c) : c.spans[i].parent = Nowhere /\ c.spans[i].trace \notin Incoming
<1>1. /\ IsFiniteSet(ProbeSpans(b)) /\ IsFiniteSet(ProbeSpans(c))
      /\ ProbeSpans(c) \subseteq DOMAIN c.spans
  <2>1. ProbeSpans(c) \subseteq DOMAIN c.spans /\ IsFiniteSet(DOMAIN c.spans)
    BY CapturedFields DEF ProbeSpans
  <2> QED
    BY <2>1, FiniteSpans, FS_Subset
<1>2. ASSUME NEW i \in ProbeSpans(b)
      PROVE  b.spans[i].parent = Remote
  <2> DEFINE R == {k \in ProbeSpans(b) : b.spans[k].parent = Remote /\ b.spans[k].trace \in Incoming}
             f == [k \in R |-> b.spans[k].trace]
  <2>1. /\ Cardinality(ProbeSpans(b)) = Probes
        /\ Cardinality({b.spans[k].trace : k \in {k \in ProbeSpans(b) :
              b.spans[k].parent = Remote}} \cap Incoming) = Probes
    BY DEF Exercised, LengthCases, CountCases
  <2>2. {b.spans[k].trace : k \in {k \in ProbeSpans(b) : b.spans[k].parent = Remote}} \cap Incoming
          = {f[k] : k \in DOMAIN f}
    OBVIOUS
  <2>3. DOMAIN f \subseteq ProbeSpans(b) /\ DOMAIN f = R
    OBVIOUS
  <2>4. DOMAIN f = ProbeSpans(b)
    <3> HIDE DEF f
    <3> QED
      BY <1>1, <2>1, <2>2, <2>3, AllOfThem
  <2> QED
    BY <2>3, <2>4
<1>3. ASSUME NEW i \in ProbeSpans(c)
      PROVE  c.spans[i].parent = Nowhere /\ c.spans[i].trace \notin Incoming
  <2> DEFINE R == {k \in ProbeSpans(c) : c.spans[k].parent = Nowhere
                                         /\ c.spans[k].trace \notin Incoming \cup {0}}
             f == [k \in R |-> c.spans[k].trace]
  <2>1. /\ Cardinality(ProbeSpans(c)) = Probes
        /\ Cardinality({c.spans[k].trace : k \in {k \in ProbeSpans(c) :
              c.spans[k].parent = Nowhere}} \ (Incoming \cup {0})) = Probes
    BY DEF Effective, LengthCases, CountCases
  <2>2. {c.spans[k].trace : k \in {k \in ProbeSpans(c) : c.spans[k].parent = Nowhere}}
            \ (Incoming \cup {0})
          = {f[k] : k \in DOMAIN f}
    OBVIOUS
  <2>3. DOMAIN f \subseteq ProbeSpans(c) /\ DOMAIN f = R
    OBVIOUS
  <2>4. DOMAIN f = ProbeSpans(c)
    <3> HIDE DEF f
    <3> QED
      BY <1>1, <2>1, <2>2, <2>3, AllOfThem
  <2> QED
    BY <2>3, <2>4
<1> QED
  BY <1>2, <1>3

(* A span that corresponds to one of the baseline is what the setting makes of it. *)
LEMMA CorrespondingOutcome ==
  ASSUME NEW b \in Baselines, NEW c \in CapturesOf(b), Distinguished(b),
         Exercised(b), Effective(b, c), case \notin CountCases,
         NEW i \in DOMAIN b.spans, NEW j \in DOMAIN c.spans,
         Corresponding(b.spans[i], c.spans[j])
  PROVE  SpanOutcome(b.spans[i], c.spans[j])
<1> DEFINE x == b.spans[i]
           y == c.spans[j]
<1>1. /\ x \in SpanRecords /\ y \in LooseSpans
      /\ y \in Records(c, "spans") /\ y \in AllRecords(c)
  BY BaselineFields, CapturedFields DEF AllRecords, Records, ToSet
<1>2. /\ x.attrs \in AttributeSets /\ x.events \in Seq(SpanEvents) /\ x.res \in Resources
      /\ y.attrs \in LooseSets /\ y.events \in Seq(LooseEvents) /\ y.res \in LooseResources
      /\ x.lost \in Nat /\ x.dropped \in Nat
  BY <1>1 DEF SpanRecords, LooseSpans
<1>3. Corresponding(x, y)
  OBVIOUS
<1>4. IsPropagationProbe(x) => i \in ProbeSpans(b) /\ \A a \in x.attrs : a.key # "header"
  BY DEF Distinguished
<1>5. /\ x.name = y.name /\ x.dropped = y.dropped
      /\ case # "events" => x.lost = y.lost
      /\ case \notin {"request-headers", "span-length", "attribute-length"} => x.attrs = y.attrs
      /\ case \notin {"attribute-length", "events"} => x.events = y.events
      /\ case \in {"span-length", "attribute-length"} => Shortened(x.attrs) = Shortened(y.attrs)
      /\ case = "attribute-length" => ShortenedEvents(x.events) = ShortenedEvents(y.events)
      /\ case = "request-headers" /\ IsPropagationProbe(x) =>
           {a \in x.attrs : a.key # "header"} = {a \in y.attrs : a.key # "header"}
      /\ case = "request-headers" /\ ~IsPropagationProbe(x) => x.attrs = y.attrs
  <2> HIDE DEF x, y
  <2>1. SpanForm(x) = SpanForm(y) /\ (IsPropagationProbe(x) <=> IsPropagationProbe(y))
    BY <1>3 DEF Corresponding
  <2>2. x.name = y.name /\ x.dropped = y.dropped /\ (case # "events" => x.lost = y.lost)
    BY <2>1, FormKeeps
  <2>3. /\ case \notin {"request-headers", "span-length", "attribute-length"} => x.attrs = y.attrs
        /\ case \in {"span-length", "attribute-length"} => Shortened(x.attrs) = Shortened(y.attrs)
        /\ case = "request-headers" /\ IsPropagationProbe(x) =>
             {a \in x.attrs : a.key # "header"} = {a \in y.attrs : a.key # "header"}
        /\ case = "request-headers" /\ ~IsPropagationProbe(x) => x.attrs = y.attrs
    BY <2>1, FormKeeps
  <2>4. /\ case \notin {"attribute-length", "events"} => x.events = y.events
        /\ case = "attribute-length" => ShortenedEvents(x.events) = ShortenedEvents(y.events)
    BY <2>1, FormKeeps
  <2> QED
    BY <2>2, <2>3, <2>4
<1>6. SameService(x, y)
  BY <1>1, <1>2, <1>3, ContextServes DEF Corresponding
<1>7. case \in {"span-length", "attribute-length"} => y.attrs = Shortened(x.attrs)
  BY <1>5, LimitsHold DEF LengthCases
<1>8. ASSUME case = "request-headers", IsPropagationProbe(x)
      PROVE  y.attrs = x.attrs \cup {Header}
  <2>1. i \in ProbeSpans(b) /\ \A a \in x.attrs : a.key # "header"
    BY <1>4, <1>8
  <2>2. x.server /\ [key |-> "agent", len |-> UserAgent] \in x.attrs
    BY <2>1 DEF ProbeSpans
  <2>3. [key |-> "agent", len |-> UserAgent] \in y.attrs /\ y.server
    BY <1>3, <1>5, <1>8, <2>2 DEF Corresponding
  <2>4. j \in ProbeSpans(c)
    BY <2>3 DEF ProbeSpans
  <2>5. {a \in y.attrs : a.key = "header"} = {Header}
    BY <1>8, <2>4 DEF Effective, LengthCases, CountCases
  <2>6. {a \in x.attrs : a.key # "header"} = x.attrs
    BY <2>1
  <2>7. y.attrs = {a \in y.attrs : a.key # "header"} \cup {a \in y.attrs : a.key = "header"}
    OBVIOUS
  <2> QED
    BY <1>5, <1>8, <2>5, <2>6, <2>7
<1>9. ASSUME case = "attribute-length"
      PROVE  /\ Len(x.events) = Len(y.events)
             /\ \A k \in DOMAIN x.events : EventOutcome(x.events[k], y.events[k])
  <2>1. ShortenedEvents(x.events) = ShortenedEvents(y.events)
    BY <1>5, <1>9
  <2>2. DOMAIN x.events = DOMAIN y.events
    BY <2>1 DEF ShortenedEvents
  <2>3. Len(x.events) = Len(y.events)
    BY <1>2, <2>2
  <2>4. ASSUME NEW k \in DOMAIN x.events
        PROVE  EventOutcome(x.events[k], y.events[k])
    <3> DEFINE e == x.events[k]
               d == y.events[k]
    <3>1. [e EXCEPT !.attrs = Shortened(@)] = [d EXCEPT !.attrs = Shortened(@)]
      <4>1. /\ ShortenedEvents(x.events)[k] = [e EXCEPT !.attrs = Shortened(@)]
            /\ ShortenedEvents(y.events)[k] = [d EXCEPT !.attrs = Shortened(@)]
        BY <2>2, <2>4, Zenon DEF ShortenedEvents
      <4> QED
        BY <2>1, <4>1, Zenon
    <3>2. e \in SpanEvents /\ d \in LooseEvents
      BY <1>2, <2>2, <2>4
    <3>3. Shortened(d.attrs) = d.attrs
      BY <1>9, <2>2, <2>4, LimitsHold DEF LengthCases
    <3>4. e = [name |-> e.name, attrs |-> e.attrs, dropped |-> e.dropped]
          /\ d = [name |-> d.name, attrs |-> d.attrs, dropped |-> d.dropped]
      BY <3>2 DEF SpanEvents, LooseEvents
    <3> HIDE DEF e, d
    <3>5. e.name = d.name /\ e.dropped = d.dropped /\ Shortened(e.attrs) = Shortened(d.attrs)
      BY <3>1, <3>4
    <3>6. EventOutcome(e, d)
      BY <1>9, <3>3, <3>5 DEF EventOutcome
    <3> QED
      BY <3>6 DEF e, d
  <2> QED
    BY <2>3, <2>4
<1>10. ASSUME case \notin {"attribute-length", "events"}
       PROVE  /\ Len(x.events) = Len(y.events)
              /\ \A k \in DOMAIN x.events : EventOutcome(x.events[k], y.events[k])
  <2>1. x.events = y.events
    BY <1>5, <1>10
  <2>2. \A e : EventOutcome(e, e)
    BY <1>10 DEF EventOutcome, CountCases
  <2> QED
    BY <2>1, <2>2
<1>11. ASSUME case = "events"
       PROVE  y.events = <<>> /\ y.lost = x.lost + Len(x.events)
  <2>1. Events(c) = {}
    BY <1>11 DEF Effective, LengthCases, CountCases
  <2>2. \A k \in DOMAIN y.events : y.events[k] \in Events(c)
    BY <1>1 DEF Events, ToSet
  <2>3. y.events = <<>>
    <3>1. DOMAIN y.events = {}
      BY <2>1, <2>2
    <3> HIDE DEF y
    <3>2. DOMAIN y.events = 1 .. Len(y.events) /\ Len(y.events) \in Nat
      BY <1>2
    <3>3. Len(y.events) = 0
      <4>1. \A n \in Nat : n # 0 => 1 \in 1 .. n
        OBVIOUS
      <4> QED
        BY <3>1, <3>2, <4>1
    <3> QED
      BY <1>2, <3>3
  <2> QED
    BY <1>3, <1>11, <2>3 DEF Corresponding
<1>12. ASSUME case = "propagation-none", IsPropagationProbe(x)
       PROVE  y.parent = Nowhere /\ y.trace \notin Incoming
  <2>1. i \in ProbeSpans(b)
    BY <1>4, <1>12
  <2>2. j \in ProbeSpans(c)
    BY <1>3, <1>5, <1>12, <2>1 DEF ProbeSpans, Corresponding
  <2> QED
    BY <1>12, <2>2, PropagationShows
<1> HIDE DEF x, y
<1>13. Same(x, y, {"name", "server"})
  BY <1>3, <1>5 DEF Same, Corresponding
<1>14. (CASE case \in {"span-length", "attribute-length"}
           -> y.attrs = Shortened(x.attrs) /\ x.dropped = y.dropped
         [] case = "attribute-count" -> Kept(x, y, 2, FALSE)
         [] case = "request-headers" /\ IsPropagationProbe(x) ->
              y.attrs = x.attrs \cup {Header} /\ x.dropped = y.dropped
         [] OTHER -> Same(x, y, {"attrs", "dropped"}))
  BY <1>5, <1>7, <1>8 DEF Same, CountCases
<1>15. IF case = "events" THEN y.events = <<>> /\ y.lost = x.lost + Len(x.events)
       ELSE /\ x.lost = y.lost /\ Len(x.events) = Len(y.events)
            /\ \A k \in DOMAIN x.events : EventOutcome(x.events[k], y.events[k])
  BY <1>5, <1>9, <1>10, <1>11
<1>16. case # "propagation-none" => (x.parent = Remote <=> y.parent = Remote)
  BY <1>3 DEF Corresponding
<1>17. SpanOutcome(x, y)
  BY <1>6, <1>12, <1>13, <1>14, <1>15, <1>16, Zenon DEF SpanOutcome
<1> QED
  BY <1>17 DEF x, y

(* The baseline is the workload alone; so is a capture that has as many traces   *)
(* (workloadTracePartitions): no defect makes a trace.                         *)
LEMMA AllOfTheWorkload ==
  ASSUME NEW b \in Baselines, NEW c \in CapturesOf(b), Distinguished(b), SameSpans(b, c)
  PROVE  /\ WorkloadSpans(c) = DOMAIN c.spans
         /\ Cardinality(WorkloadTraces(b)) = Cardinality(WorkloadTraces(c))
<1> DEFINE Part(d) ==
             [trace \in WorkloadTraces(d) |->
               LET members == {i \in DOMAIN d.spans : d.spans[i].trace = trace}
               IN <<Cardinality(members),
                    Cardinality({i \in members : IsProbeServer(d.spans[i])}),
                    Cardinality({i \in members :
                      \A j \in members : d.spans[j].id # d.spans[i].parent})>>]
           tb == [i \in DOMAIN b.spans |-> b.spans[i].trace]
           tc == [i \in DOMAIN c.spans |-> c.spans[i].trace]
           rename == [trace \in WorkloadTraces(b) |-> Renamed(trace)]
           all == {tc[i] : i \in DOMAIN tc}
<1>1. Counts(Part(b)) = Counts(Part(c))
  BY DEF SameSpans, Partitions
<1>2. IsFiniteSet(DOMAIN tb) /\ IsFiniteSet(DOMAIN tc)
  BY CapturedFields, FiniteSpans
<1>3. WorkloadTraces(b) = {tb[i] : i \in DOMAIN tb}
  <2>1. WorkloadTraces(b) \subseteq {tb[i] : i \in DOMAIN tb}
    BY DEF WorkloadTraces, Records, ToSet
  <2>2. \A i \in DOMAIN b.spans : b.spans[i].trace \in WorkloadTraces(b)
    BY DEF Distinguished, WorkloadSpans
  <2> QED
    BY <2>1, <2>2
<1>4. WorkloadTraces(c) \subseteq all
  BY DEF WorkloadTraces, Records, ToSet
<1>5. all \subseteq {rename[trace] : trace \in DOMAIN rename}
  <2>1. ASSUME NEW i \in DOMAIN c.spans
        PROVE  c.spans[i].trace \in {rename[trace] : trace \in DOMAIN rename}
    <3>0. c.spans[i] \in SpansOf(b)
      BY CapturedFields
    <3>1. PICK s \in Records(b, "spans") : Renamed(s.trace) = c.spans[i].trace
      BY <3>0 DEF SpansOf
    <3>2. PICK k \in DOMAIN b.spans : s = b.spans[k]
      BY <3>1 DEF Records, ToSet
    <3>3. s.trace \in WorkloadTraces(b)
      BY <3>2 DEF Distinguished, WorkloadSpans
    <3> QED
      BY <3>1, <3>3
  <2> QED
    BY <2>1
<1> HIDE DEF Part, tb, tc, rename
<1>6. IsFiniteSet(WorkloadTraces(b)) /\ IsFiniteSet(all)
  <2>1. IsFiniteSet(WorkloadTraces(b))
    BY <1>2, <1>3, ImageIsFinite
  <2>2. IsFiniteSet({tc[i] : i \in DOMAIN tc})
    BY <1>2, ImageIsFinite
  <2> QED
    BY <2>1, <2>2
<1> HIDE DEF all
<1>7. IsFiniteSet(WorkloadTraces(c))
  BY <1>4, <1>6, FS_Subset
<1>8. DOMAIN Part(b) = WorkloadTraces(b) /\ DOMAIN Part(c) = WorkloadTraces(c)
      /\ DOMAIN rename = WorkloadTraces(b)
  BY DEF Part, rename
<1>9. Cardinality(WorkloadTraces(b)) = Cardinality(WorkloadTraces(c))
  <2>1. \E h \in Bijection(DOMAIN Part(b), DOMAIN Part(c)) :
          \A i \in DOMAIN Part(b) : Part(c)[h[i]] = Part(b)[i]
    BY <1>1, <1>6, <1>7, <1>8, EqualCounts
  <2>2. ExistsBijection(WorkloadTraces(b), WorkloadTraces(c))
    BY <1>8, <2>1 DEF ExistsBijection
  <2> QED
    BY <1>6, <2>2, FS_Bijection
<1>10. Cardinality(all) <= Cardinality(WorkloadTraces(b))
  <2> DEFINE T == {rename[trace] : trace \in DOMAIN rename}
  <2>1. rename \in Surjection(WorkloadTraces(b), T)
    BY <1>8 DEF Surjection, rename
  <2> HIDE DEF T
  <2>2. IsFiniteSet(T) /\ Cardinality(T) <= Cardinality(WorkloadTraces(b))
    BY <1>6, <2>1, FS_Surjection
  <2>3. Cardinality(all) <= Cardinality(T)
    BY <1>5, <2>2, FS_Subset DEF T
  <2> QED
    BY <1>6, <2>2, <2>3, FS_CardinalityType
<1>11. WorkloadTraces(c) = all
  <2>1. Cardinality(WorkloadTraces(c)) <= Cardinality(all)
        /\ (Cardinality(all) = Cardinality(WorkloadTraces(c)) => all = WorkloadTraces(c))
    BY <1>4, <1>6, FS_Subset
  <2>2. Cardinality(all) \in Nat /\ Cardinality(WorkloadTraces(c)) \in Nat
    BY <1>6, <1>7, FS_CardinalityType
  <2> QED
    BY <1>9, <1>10, <2>1, <2>2
<1>12. \A i \in DOMAIN c.spans : c.spans[i].trace \in all
  BY DEF all, tc
<1> QED
  BY <1>9, <1>11, <1>12 DEF WorkloadSpans

(* The tags of spanParentRelationshipID. *)
LEMMA RelationshipTags ==
  ASSUME NEW c, NEW s
  PROVE  LET r == Relationship(c, s)
             probe == case = "propagation-none" /\ IsPropagationProbe(s)
             parents == At(c, s.trace, s.parent)
         IN /\ r[1] = "propagation probe" <=> probe
            /\ r[1] = "local" <=> ~probe /\ s.parent # Nowhere /\ parents # {}
            /\ r[1] = "local" =>
                 r = <<"local", c.spans[Smallest(parents)].name, Context(c.spans[Smallest(parents)])>>
            /\ r[1] = "remote probe" <=>
                 ~probe /\ s.parent # Nowhere /\ parents = {} /\ IsPropagationProbe(s)
            /\ r[1] = "remote probe" => r[2] = s.parent
<1> DEFINE r == Relationship(c, s)
           probe == case = "propagation-none" /\ IsPropagationProbe(s)
           parents == At(c, s.trace, s.parent)
           parent == c.spans[Smallest(parents)]
<1>1. /\ probe => r = <<"propagation probe">>
      /\ ~probe /\ s.parent = Nowhere => r = <<"root">>
      /\ ~probe /\ s.parent # Nowhere /\ parents # {} =>
           r = <<"local", parent.name, Context(parent)>>
      /\ ~probe /\ s.parent # Nowhere /\ parents = {} /\ IsPropagationProbe(s) =>
           r = <<"remote probe", s.parent>>
      /\ ~probe /\ s.parent # Nowhere /\ parents = {} /\ ~IsPropagationProbe(s) => r = <<"remote">>
  <2>1. probe => r = <<"propagation probe">>
    BY DEF Relationship
  <2>2. ASSUME ~probe, s.parent = Nowhere
        PROVE  r = <<"root">>
    BY <2>2 DEF Relationship
  <2>3. ASSUME ~probe, s.parent # Nowhere, parents # {}
        PROVE  r = <<"local", parent.name, Context(parent)>>
    BY <2>3 DEF Relationship
  <2>4. ASSUME ~probe, s.parent # Nowhere, parents = {}
        PROVE  r = IF IsPropagationProbe(s) THEN <<"remote probe", s.parent>> ELSE <<"remote">>
    BY <2>4 DEF Relationship
  <2> HIDE DEF probe, r, parents, parent
  <2> QED
    BY <2>1, <2>2, <2>3, <2>4
<1>2. /\ <<"propagation probe">>[1] = "propagation probe" /\ <<"root">>[1] = "root"
      /\ <<"remote">>[1] = "remote" /\ <<"remote probe", s.parent>>[1] = "remote probe"
      /\ <<"remote probe", s.parent>>[2] = s.parent
      /\ <<"local", parent.name, Context(parent)>>[1] = "local"
  OBVIOUS
<1>3. probe => IsPropagationProbe(s)
  OBVIOUS
<1> HIDE DEF probe, r, parents, parent
<1>4. /\ r[1] = "propagation probe" <=> probe
      /\ r[1] = "local" <=> ~probe /\ s.parent # Nowhere /\ parents # {}
      /\ r[1] = "local" => r = <<"local", parent.name, Context(parent)>>
      /\ r[1] = "remote probe" <=>
           ~probe /\ s.parent # Nowhere /\ parents = {} /\ IsPropagationProbe(s)
      /\ r[1] = "remote probe" => r[2] = s.parent
  <2>1. CASE probe
    BY <1>1, <1>2, <2>1
  <2>2. CASE ~probe /\ s.parent = Nowhere
    BY <1>1, <1>2, <2>2
  <2>3. CASE ~probe /\ s.parent # Nowhere /\ parents # {}
    BY <1>1, <1>2, <2>3
  <2>4. CASE ~probe /\ s.parent # Nowhere /\ parents = {}
    BY <1>1, <1>2, <2>4
  <2> QED
    BY <2>1, <2>2, <2>3, <2>4
<1> QED
  BY <1>4 DEF probe, r, parents, parent

(* No setting hides the user agent. *)
LEMMA AgentInForm ==
  ASSUME NEW s, s.attrs \in LooseSets, case \notin CountCases
  PROVE  (\E a \in s.attrs : a.key = "agent" /\ a.len > 0)
           <=> (\E a \in SpanForm(s).attrs : a.key = "agent" /\ a.len > 0)
<1> DEFINE Agent(A) == \E a \in A : a.key = "agent" /\ a.len > 0
           A == s.attrs
<1>1. SpanForm(s).attrs \in {{a \in A : a.key # "header"}, Shortened(A), A}
  BY FormKeeps
<1>2. Agent({a \in A : a.key # "header"}) <=> Agent(A)
  OBVIOUS
<1>3. \A a \in A : a = [key |-> a.key, len |-> a.len] /\ a.len \in Int
  BY DEF LooseSets, LooseAttributes
<1>4. Limit \in Nat /\ Limit > 0
  BY ExperimentsAssumption
<1>5. \A a \in A : [a EXCEPT !.len = IF @ > Limit THEN Limit ELSE @]
                     = [key |-> a.key, len |-> IF a.len > Limit THEN Limit ELSE a.len]
  BY <1>3
<1>7. Agent(Shortened(A)) <=> Agent(A)
  <2> DEFINE short(a) == [a EXCEPT !.len = IF @ > Limit THEN Limit ELSE @]
  <2>1. Shortened(A) = {short(a) : a \in A}
    BY DEF Shortened
  <2>2. \A a \in A : (short(a).key = "agent" /\ short(a).len > 0)
                     <=> (a.key = "agent" /\ a.len > 0)
    BY <1>3, <1>4, <1>5
  <2> HIDE DEF short
  <2>3. \A a \in A : short(a) \in Shortened(A)
    BY <2>1
  <2>4. \A d \in Shortened(A) : \E a \in A : d = short(a)
    BY <2>1
  <2> HIDE DEF A
  <2> QED
    BY <2>2, <2>3, <2>4
<1> HIDE DEF Agent
<1> QED
  BY <1>1, <1>2, <1>7 DEF Agent

(* No span of a capture has the identifier of the probe's own span, or none. *)
LEMMA NoneThere ==
  ASSUME NEW b \in Baselines, NEW c \in CapturesOf(b), Distinguished(b), NEW trace
  PROVE  /\ At(b, trace, Remote) = {} /\ At(c, trace, Remote) = {}
         /\ At(b, trace, Nowhere) = {} /\ At(c, trace, Nowhere) = {}
<1>1. \A i \in DOMAIN b.spans : b.spans[i].id \notin {Nowhere, Remote}
  BY DEF Distinguished, Records, ToSet
<1>2. \A i \in DOMAIN c.spans : c.spans[i].id \notin {Nowhere, Remote}
  <2>1. \A y \in SpansOf(b) : y.id \notin {Nowhere, Remote}
    BY DEF Distinguished, SpansOf
  <2> QED
    BY <2>1, CapturedFields
<1> QED
  BY <1>1, <1>2 DEF At

(* Spans of one identity correspond. *)
LEMMA IdentityCorresponds ==
  ASSUME NEW b \in Baselines, NEW c \in CapturesOf(b), Distinguished(b), case \notin CountCases,
         NEW i \in DOMAIN b.spans, NEW j \in DOMAIN c.spans,
         SpanIdentity(b, b.spans[i]) = SpanIdentity(c, c.spans[j]),
         case = "events" => c.spans[j].lost = b.spans[i].lost + Len(b.spans[i].events)
  PROVE  Corresponding(b.spans[i], c.spans[j])
<1> DEFINE x == b.spans[i]
           y == c.spans[j]
           rx == Relationship(b, x)
           ry == Relationship(c, y)
<1>1. x \in SpanRecords /\ y \in LooseSpans /\ y \in SpansOf(b) /\ x \in Records(b, "spans")
  BY BaselineFields, CapturedFields DEF Records, ToSet
<1>2. SpanForm(x) = SpanForm(y) /\ Context(x) = Context(y) /\ rx = ry
  BY DEF SpanIdentity
<1>3. x.attrs \in LooseSets /\ y.attrs \in LooseSets
  <2>1. x.attrs \in AttributeSets /\ y.attrs \in LooseSets
    BY <1>1 DEF SpanRecords, LooseSpans
  <2> QED
    BY <2>1, ObeyedAttributes
<1>4. PICK s \in Records(b, "spans") :
        s.name = y.name /\ s.server = y.server /\ (y.parent = Remote => s.parent = Remote)
  BY <1>1 DEF SpansOf
<1>5. x.name = y.name
  BY <1>2, FormKeeps
<1>6. x.server = y.server
  <2>1. PICK k \in DOMAIN b.spans : s = b.spans[k]
    BY <1>4 DEF Records, ToSet
  <2>2. b.spans[i].name = b.spans[k].name
    BY <1>4, <1>5, <2>1
  <2>3. b.spans[i].server = b.spans[k].server
    BY <2>2 DEF Distinguished
  <2> QED
    BY <1>4, <2>1, <2>3
<1>7. /\ At(b, x.trace, Remote) = {} /\ At(c, y.trace, Remote) = {} /\ Remote # Nowhere
  BY NoneThere DEF Remote, Nowhere
<1>8. /\ rx[1] = "propagation probe" <=> case = "propagation-none" /\ IsPropagationProbe(x)
      /\ ry[1] = "propagation probe" <=> case = "propagation-none" /\ IsPropagationProbe(y)
  BY RelationshipTags
<1>9. /\ rx[1] = "remote probe" => IsPropagationProbe(x) /\ rx[2] = x.parent
      /\ ry[1] = "remote probe" => IsPropagationProbe(y) /\ ry[2] = y.parent
      /\ case # "propagation-none" /\ x.parent = Remote /\ IsPropagationProbe(x) =>
           rx[1] = "remote probe"
      /\ case # "propagation-none" /\ y.parent = Remote /\ IsPropagationProbe(y) =>
           ry[1] = "remote probe"
  <2>1. /\ rx[1] = "remote probe" => IsPropagationProbe(x) /\ rx[2] = x.parent
        /\ case # "propagation-none" /\ x.parent = Remote /\ IsPropagationProbe(x) =>
             rx[1] = "remote probe"
    BY <1>7, RelationshipTags
  <2>2. /\ ry[1] = "remote probe" => IsPropagationProbe(y) /\ ry[2] = y.parent
        /\ case # "propagation-none" /\ y.parent = Remote /\ IsPropagationProbe(y) =>
             ry[1] = "remote probe"
    BY <1>7, RelationshipTags
  <2> QED
    BY <2>1, <2>2
<1>10. /\ (\E a \in x.attrs : a.key = "agent" /\ a.len > 0)
            <=> (\E a \in SpanForm(x).attrs : a.key = "agent" /\ a.len > 0)
       /\ (\E a \in y.attrs : a.key = "agent" /\ a.len > 0)
            <=> (\E a \in SpanForm(y).attrs : a.key = "agent" /\ a.len > 0)
  <2>1. (\E a \in x.attrs : a.key = "agent" /\ a.len > 0)
          <=> (\E a \in SpanForm(x).attrs : a.key = "agent" /\ a.len > 0)
    BY <1>3, AgentInForm
  <2>2. (\E a \in y.attrs : a.key = "agent" /\ a.len > 0)
          <=> (\E a \in SpanForm(y).attrs : a.key = "agent" /\ a.len > 0)
    BY <1>3, AgentInForm
  <2> QED
    BY <2>1, <2>2
<1> DEFINE ax == \E a \in x.attrs : a.key = "agent" /\ a.len > 0
           ay == \E a \in y.attrs : a.key = "agent" /\ a.len > 0
<1>11. ax <=> ay
  BY <1>2, <1>10
<1>12. /\ IsPropagationProbe(x) <=> x.server /\ x.name = "tags" /\ (x.parent = Remote \/ ax)
       /\ IsPropagationProbe(y) <=> y.server /\ y.name = "tags" /\ (y.parent = Remote \/ ay)
  BY DEF IsPropagationProbe
<1>13. case = "events" => y.lost = x.lost + Len(x.events)
  OBVIOUS
<1>14. x.parent = Remote => IsPropagationProbe(x)
  BY <1>1 DEF Distinguished
<1>15. y.parent = Remote => IsPropagationProbe(y)
  <2>1. ASSUME y.parent = Remote
        PROVE  y.server /\ y.name = "tags"
    <3>1. IsPropagationProbe(s)
      BY <1>4, <2>1 DEF Distinguished
    <3> QED
      BY <1>4, <3>1 DEF IsPropagationProbe
  <2> QED
    BY <2>1 DEF IsPropagationProbe
<1> HIDE DEF x, y, rx, ry, ax, ay
<1>16. IsPropagationProbe(x) <=> IsPropagationProbe(y)
  <2>1. CASE case = "propagation-none"
    BY <1>2, <1>8, <2>1
  <2>2. CASE case # "propagation-none"
    <3>1. ASSUME IsPropagationProbe(x) PROVE IsPropagationProbe(y)
      <4>1. CASE x.parent = Remote
        BY <1>2, <1>9, <2>2, <3>1, <4>1
      <4>2. CASE x.parent # Remote
        BY <1>5, <1>6, <1>11, <1>12, <3>1, <4>2
      <4> QED
        BY <4>1, <4>2
    <3>2. ASSUME IsPropagationProbe(y) PROVE IsPropagationProbe(x)
      <4>1. CASE y.parent = Remote
        BY <1>2, <1>9, <2>2, <3>2, <4>1
      <4>2. CASE y.parent # Remote
        BY <1>5, <1>6, <1>11, <1>12, <3>2, <4>2
      <4> QED
        BY <4>1, <4>2
    <3> QED
      BY <3>1, <3>2
  <2> QED
    BY <2>1, <2>2
<1>17. case # "propagation-none" => (x.parent = Remote <=> y.parent = Remote)
  BY <1>2, <1>9, <1>14, <1>15
<1>18. Corresponding(x, y)
  BY <1>2, <1>6, <1>13, <1>16, <1>17 DEF Corresponding
<1> QED
  BY <1>18 DEF x, y

(* A span that others refer to corresponds to each span of its name and resource. *)
LEMMA ReferredCorresponds ==
  ASSUME NEW b \in Baselines, NEW c \in CapturesOf(b), Distinguished(b), case \notin CountCases,
         \A k \in DOMAIN c.spans : \E i \in DOMAIN b.spans : Corresponding(b.spans[i], c.spans[k]),
         NEW j \in DOMAIN b.spans, ReferredTo(b, j), NEW k \in DOMAIN c.spans,
         b.spans[j].name = c.spans[k].name, Context(b.spans[j]) = Context(c.spans[k])
  PROVE  Corresponding(b.spans[j], c.spans[k])
<1>1. PICK i \in DOMAIN b.spans : Corresponding(b.spans[i], c.spans[k])
  OBVIOUS
<1> DEFINE x == b.spans[j]
           z == b.spans[i]
           y == c.spans[k]
<1>2. z.name = y.name
  <2>1. SpanForm(z) = SpanForm(y)
    BY <1>1 DEF Corresponding
  <2>2. SpanForm(z).name = z.name
    BY FormKeeps
  <2>3. SpanForm(y).name = y.name
    BY FormKeeps
  <2> QED
    BY <2>1, <2>2, <2>3
<1>3. /\ z.server = x.server /\ Whole(z) = Whole(x)
      /\ z.parent = Remote <=> x.parent = Remote
  BY <1>2 DEF Distinguished
<1>4. Corresponding(z, y) /\ x.name = y.name /\ Context(x) = Context(y)
  BY <1>1
<1> HIDE DEF x, y, z
<1>5. /\ Whole(z).name = z.name /\ Whole(z).attrs = z.attrs /\ Whole(z).events = z.events
      /\ Whole(z).lost = z.lost
      /\ Whole(x).name = x.name /\ Whole(x).attrs = x.attrs /\ Whole(x).events = x.events
      /\ Whole(x).lost = x.lost
  BY DEF Whole
<1>6. z.attrs = x.attrs /\ z.events = x.events /\ z.lost = x.lost /\ z.name = x.name
  BY <1>3, <1>5
<1>7. IsPropagationProbe(z) <=> IsPropagationProbe(x)
  BY <1>3, <1>6 DEF IsPropagationProbe
<1>8. SpanForm(z) = SpanForm(x)
  BY <1>3, <1>6, <1>7 DEF SpanForm, LengthLimited, CountLimited
<1>9. Corresponding(x, y)
  BY <1>3, <1>4, <1>6, <1>7, <1>8 DEF Corresponding
<1> QED
  BY <1>9 DEF x, y

(* A span is where its trace and its identifier say. *)
LEMMA OnlyOneThere ==
  ASSUME NEW b \in Baselines, Distinguished(b), NEW trace, NEW id, NEW j \in At(b, trace, id)
  PROVE  At(b, trace, id) = {j} /\ Smallest(At(b, trace, id)) = j
<1>1. \A i, k \in DOMAIN b.spans : i # k =>
        <<b.spans[i].trace, b.spans[i].id>> # <<b.spans[k].trace, b.spans[k].id>>
  BY DEF Distinguished, ValidStructure
<1>2. At(b, trace, id) = {j}
  BY <1>1 DEF At
<1>3. j \in Nat
  BY BaselineFields DEF At
<1>4. Smallest({j}) = j
  BY <1>3 DEF Smallest
<1> QED
  BY <1>2, <1>4

(* The parent of a span of the baseline corresponds to that of the span it became. *)
LEMMA ParentCorresponds ==
  ASSUME NEW b \in Baselines, NEW c \in CapturesOf(b), Distinguished(b), case \notin CountCases,
         Exercised(b), Effective(b, c),
         \A k \in DOMAIN c.spans : \E i \in DOMAIN b.spans : Corresponding(b.spans[i], c.spans[k]),
         NEW x \in Records(b, "spans"), NEW y, Relationship(b, x) = Relationship(c, y),
         NEW j \in At(b, x.trace, x.parent)
  PROVE  \E k \in At(c, y.trace, y.parent) : Corresponding(b.spans[j], c.spans[k])
<1> DEFINE rx == Relationship(b, x)
           ry == Relationship(c, y)
           parents == At(c, y.trace, y.parent)
<1>1. j \in DOMAIN b.spans /\ b.spans[j] \in Records(b, "spans") /\ x.parent = b.spans[j].id
  BY DEF At, Records, ToSet
<1>2. x.parent # Nowhere /\ x.parent # Remote
  BY <1>1 DEF Distinguished
<1>3. ~(case = "propagation-none" /\ IsPropagationProbe(x))
  <2>1. SUFFICES ASSUME case = "propagation-none", IsPropagationProbe(x) PROVE FALSE
    OBVIOUS
  <2>2. PICK i \in DOMAIN b.spans : x = b.spans[i]
    BY DEF Records, ToSet
  <2>3. i \in ProbeSpans(b)
    BY <2>1, <2>2 DEF Distinguished
  <2> QED
    BY <1>2, <2>1, <2>2, <2>3, PropagationShows
<1>4. rx[1] = "local" /\ rx = <<"local", b.spans[j].name, Context(b.spans[j])>>
  <2>1. rx[1] = "local"
    BY <1>2, <1>3, RelationshipTags
  <2>2. rx = <<"local", b.spans[Smallest(At(b, x.trace, x.parent))].name,
               Context(b.spans[Smallest(At(b, x.trace, x.parent))])>>
    BY <2>1, RelationshipTags
  <2>3. Smallest(At(b, x.trace, x.parent)) = j
    BY OnlyOneThere
  <2> QED
    BY <2>1, <2>2, <2>3
<1>5. /\ parents # {}
      /\ ry = <<"local", c.spans[Smallest(parents)].name, Context(c.spans[Smallest(parents)])>>
  <2>1. ry[1] = "local"
    BY <1>4
  <2> QED
    BY <2>1, RelationshipTags
<1> DEFINE k == Smallest(parents)
<1>6. k \in parents /\ k \in DOMAIN c.spans
  <2>1. parents \in SUBSET Nat /\ parents \subseteq DOMAIN c.spans
    BY CapturedFields DEF At
  <2> QED
    BY <1>5, <2>1, SmallestIsIn
<1>7. c.spans[k].name = b.spans[j].name /\ Context(c.spans[k]) = Context(b.spans[j])
  <2>1. <<"local", b.spans[j].name, Context(b.spans[j])>>
          = <<"local", c.spans[k].name, Context(c.spans[k])>>
    BY <1>4, <1>5
  <2> HIDE DEF k
  <2> QED
    BY <2>1
<1> HIDE DEF parents, rx, k
<1>8. ReferredTo(b, j)
  BY DEF ReferredTo
<1>9. Corresponding(b.spans[j], c.spans[k])
  BY <1>1, <1>6, <1>7, <1>8, ReferredCorresponds
<1> QED
  BY <1>6, <1>9 DEF parents

(* The records of an identity, and the position of one among them. *)
Kin(ids, i) == {j \in DOMAIN ids : ids[j] = ids[i]}
Place(ids, i) == Cardinality({j \in DOMAIN ids : j < i /\ ids[j] = ids[i]})

(* Of n records of an identity each is the first, the second, ... or the n-th. *)
LEMMA OrdinalsFill ==
  ASSUME NEW ids, NEW n \in Nat, DOMAIN ids = 1 .. n, NEW i \in DOMAIN ids
  PROVE  /\ Place(ids, i) \in 0 .. Cardinality(Kin(ids, i)) - 1
         /\ \A k \in Kin(ids, i) : Place(ids, k) = Place(ids, i) => k = i
         /\ \A m \in 0 .. Cardinality(Kin(ids, i)) - 1 : \E k \in Kin(ids, i) : Place(ids, k) = m
<1> DEFINE v == ids[i]
           K == {j \in DOMAIN ids : ids[j] = v}
           before(k) == {j \in DOMAIN ids : j < k /\ ids[j] = v}
           size == Cardinality(K)
           f == [k \in K |-> Cardinality(before(k))]
<1>1. IsFiniteSet(K) /\ size \in Nat
  <2>1. IsFiniteSet(1 .. n)
    BY FS_Interval
  <2>2. IsFiniteSet(K)
    BY <2>1, FS_Subset
  <2> QED
    BY <2>2, FS_CardinalityType
<1>2. \A k \in K : before(k) \in SUBSET K /\ before(k) # K /\ k \in Nat
  OBVIOUS
<1>3. \A k \in K : f[k] \in 0 .. size - 1 /\ IsFiniteSet(before(k)) /\ f[k] \in Nat
  <2> SUFFICES ASSUME NEW k \in K
               PROVE  f[k] \in 0 .. size - 1 /\ IsFiniteSet(before(k)) /\ f[k] \in Nat
    OBVIOUS
  <2>1. before(k) \in SUBSET K /\ before(k) # K
    BY <1>2
  <2>2. f[k] = Cardinality(before(k))
    OBVIOUS
  <2> HIDE DEF K, before, f, size
  <2>3. IsFiniteSet(before(k)) /\ Cardinality(before(k)) <= size /\ Cardinality(before(k)) # size
    BY <1>1, <2>1, FS_Subset DEF size
  <2>4. Cardinality(before(k)) \in Nat
    BY <2>3, FS_CardinalityType
  <2> QED
    BY <1>1, <2>2, <2>3, <2>4
<1>4. ASSUME NEW k \in K, NEW l \in K, k < l
      PROVE  f[k] # f[l]
  <2>1. before(k) \in SUBSET before(l) /\ k \in before(l) /\ k \notin before(k)
    BY <1>2, <1>4
  <2>2. IsFiniteSet(before(l)) /\ f[k] = Cardinality(before(k)) /\ f[l] = Cardinality(before(l))
    BY <1>3
  <2> HIDE DEF before, f
  <2>3. Cardinality(before(l)) = Cardinality(before(k)) => before(l) = before(k)
    BY <2>1, <2>2, FS_Subset
  <2> QED
    BY <2>1, <2>2, <2>3
<1>5. \A k, l \in K : f[k] = f[l] => k = l
  <2>1. \A k, l \in K : k < l \/ l < k \/ k = l
    BY <1>2
  <2> HIDE DEF f
  <2> QED
    BY <1>4, <2>1
<1>6. f \in [K -> 0 .. size - 1]
  BY <1>3
<1>7. IsFiniteSet(0 .. size - 1) /\ Cardinality(0 .. size - 1) = size
  <2> HIDE DEF size
  <2>1. 0 \in Int /\ size - 1 \in Int
    BY <1>1
  <2>2. IsFiniteSet(0 .. size - 1) /\
        Cardinality(0 .. size - 1) = IF 0 > size - 1 THEN 0 ELSE size - 1 - 0 + 1
    BY <2>1, FS_Interval
  <2> QED
    BY <1>1, <2>2
<1>8. \A m \in 0 .. size - 1 : \E k \in K : f[k] = m
  <2> HIDE DEF f, K, before
  <2>1. f \in Injection(K, 0 .. size - 1)
    BY <1>5, <1>6, Fun_IsInj
  <2>2. f \in Surjection(K, 0 .. size - 1)
    BY <1>7, <2>1, FS_Injection DEF size
  <2> HIDE DEF size
  <2> QED
    BY <2>2, Fun_SurjectionProperties
<1>9. i \in K /\ \A k \in K : before(k) = {j \in DOMAIN ids : j < k /\ ids[j] = ids[k]}
  OBVIOUS
<1>10. \A k \in K : f[k] = Cardinality({j \in DOMAIN ids : j < k /\ ids[j] = ids[k]})
  BY <1>9
<1> HIDE DEF f, size
<1>11. /\ K = Kin(ids, i)
       /\ \A k \in K : f[k] = Place(ids, k)
  BY <1>10 DEF Kin, Place
<1>12. size = Cardinality(Kin(ids, i))
  BY <1>11 DEF size
<1>13. i \in K /\ K = Kin(ids, i)
  BY <1>9, <1>11
<1> HIDE DEF K
<1>14. \A k \in K : f[k] = Place(ids, k) /\ f[k] \in 0 .. size - 1
  BY <1>3, <1>11
<1>15. /\ Place(ids, i) \in 0 .. size - 1
       /\ \A k \in K : Place(ids, k) = Place(ids, i) => k = i
       /\ \A m \in 0 .. size - 1 : \E k \in K : Place(ids, k) = m
  BY <1>5, <1>8, <1>13, <1>14
<1> QED
  BY <1>12, <1>13, <1>15

(* Every span that recorded events counts them as lost, not only as many spans *)
(* of its identity: those take their places one by one (identifiedSpans).      *)
LEMMA EventsAreLost ==
  ASSUME NEW b \in Baselines, NEW c \in CapturesOf(b), Distinguished(b), case = "events",
         Effective(b, c), NEW h \in Bijection(DOMAIN b.spans, DOMAIN c.spans),
         \A i \in DOMAIN b.spans : SpanIdentity(b, b.spans[i]) = SpanIdentity(c, c.spans[h[i]]),
         NEW i \in DOMAIN b.spans
  PROVE  c.spans[h[i]].lost = b.spans[i].lost + Len(b.spans[i].events)
<1> DEFINE ids(d) == [k \in DOMAIN d.spans |-> <<d.spans[k].name, d.spans[k].attrs, d.spans[k].res>>]
           class(d, v) == {k \in DOMAIN ids(d) : ids(d)[k] = v}
           place(d, k) == Place(ids(d), k)
           x == b.spans[i]
           v == ids(b)[i]
           n == Len(x.events)
<1>1. /\ h \in [DOMAIN b.spans -> DOMAIN c.spans]
      /\ \A k, l \in DOMAIN b.spans : h[k] = h[l] => k = l
      /\ \A m \in DOMAIN c.spans : \E k \in DOMAIN b.spans : h[k] = m
  BY Fun_BijectionProperties, Fun_SurjectionProperties
<1>2. \A k \in DOMAIN b.spans : ids(c)[h[k]] = ids(b)[k]
  <2> SUFFICES ASSUME NEW k \in DOMAIN b.spans PROVE ids(c)[h[k]] = ids(b)[k]
    OBVIOUS
  <2> DEFINE s == b.spans[k]
             y == c.spans[h[k]]
  <2>1. SpanForm(s) = SpanForm(y) /\ Context(s) = Context(y)
    BY DEF SpanIdentity
  <2>2. \A r : /\ SpanForm(r).name = r.name /\ SpanForm(r).attrs = r.attrs
               /\ Context(r) = r.res
    <3>1. \A r : SpanForm(r).name = r.name /\ SpanForm(r).attrs = r.attrs
      BY FormKeeps DEF CountCases
    <3> QED
      BY <3>1 DEF Context
  <2>3. h[k] \in DOMAIN c.spans
    BY <1>1
  <2>4. s.name = y.name /\ s.attrs = y.attrs /\ s.res = y.res
    <3> HIDE DEF s, y
    <3> QED
      BY <2>1, <2>2, Zenon
  <2> QED
    BY <2>3, <2>4
<1>3. DOMAIN ids(b) = DOMAIN b.spans /\ DOMAIN ids(c) = DOMAIN c.spans
  OBVIOUS
<1>4. Len(b.spans) \in Nat /\ DOMAIN ids(b) = 1 .. Len(b.spans)
      /\ Len(c.spans) \in Nat /\ DOMAIN ids(c) = 1 .. Len(c.spans)
  <2>1. b.spans \in Seq(SpanRecords) /\ c.spans \in Seq(SpansOf(b))
    BY BaselineFields, CapturedFields
  <2> QED
    BY <1>3, <2>1
<1>5. x.lost = 0 /\ \A k \in DOMAIN b.spans : b.spans[k].name = x.name =>
                       b.spans[k].lost = 0 /\ Len(b.spans[k].events) = n
  BY DEF Distinguished
<1>6. \A k \in DOMAIN b.spans : Len(b.spans[k].events) \in Nat
      /\ (Len(b.spans[k].events) # 0 <=> b.spans[k].events # <<>>)
  <2>1. \A k \in DOMAIN b.spans : b.spans[k].events \in Seq(SpanEvents)
    BY BaselineFields DEF SpanRecords
  <2> QED
    BY <2>1
<1>7. CASE n = 0
  <2>1. c.spans[h[i]] \in SpansOf(b) /\ c.spans[h[i]].name = x.name
    <3>1. c.spans[h[i]] \in SpansOf(b)
      BY <1>1, CapturedFields
    <3>2. ids(c)[h[i]] = ids(b)[i] /\ h[i] \in DOMAIN c.spans
      BY <1>1, <1>2
    <3> QED
      BY <3>1, <3>2
  <2>2. PICK s \in Records(b, "spans") : s.name = x.name
          /\ c.spans[h[i]].lost \in {0, s.lost, s.lost + Len(s.events)}
    BY <2>1 DEF SpansOf
  <2>3. s.lost = 0 /\ Len(s.events) = 0
    BY <1>5, <1>7, <2>2 DEF Records, ToSet
  <2> QED
    BY <1>5, <1>7, <2>2, <2>3
<1>8. CASE n # 0
  <2>1. /\ \A k \in class(b, v) : k \in DOMAIN b.spans /\ h[k] \in class(c, v)
        /\ \A m \in class(c, v) : \E k \in class(b, v) : h[k] = m
    <3> HIDE DEF ids
    <3>1. \A k \in class(b, v) : k \in DOMAIN b.spans /\ h[k] \in class(c, v)
      BY <1>1, <1>2, <1>3
    <3>2. ASSUME NEW m \in class(c, v)
          PROVE  \E k \in class(b, v) : h[k] = m
      <4>1. PICK k \in DOMAIN b.spans : h[k] = m
        BY <1>1, <1>3
      <4>2. ids(b)[k] = v
        BY <1>2, <4>1
      <4> QED
        BY <1>3, <4>1, <4>2
    <3> QED
      BY <3>1, <3>2
  <2>2. Cardinality(class(c, v)) = Cardinality(class(b, v))
    <3> DEFINE g == [k \in class(b, v) |-> h[k]]
    <3>1. g \in Injection(class(b, v), class(c, v)) /\ g \in Surjection(class(b, v), class(c, v))
      <4> HIDE DEF class
      <4>1. g \in [class(b, v) -> class(c, v)] /\ \A k, l \in class(b, v) : g[k] = g[l] => k = l
        BY <1>1, <2>1
      <4>2. \A m \in class(c, v) : \E k \in class(b, v) : g[k] = m
        BY <2>1
      <4> HIDE DEF g
      <4> QED
        BY <4>1, <4>2, Fun_IsInj, Fun_IsSurj
    <3>2. IsFiniteSet(class(b, v))
      <4>1. IsFiniteSet(DOMAIN ids(b)) /\ class(b, v) \subseteq DOMAIN ids(b)
        BY <1>3, FiniteSpans
      <4> HIDE DEF class, ids
      <4> QED
        BY <4>1, FS_Subset
    <3> HIDE DEF class, g
    <3> QED
      BY <3>1, <3>2, FS_Surjection
  <2>3. h[i] \in DOMAIN ids(c) /\ ids(c)[h[i]] = v /\ i \in DOMAIN ids(b)
    BY <1>1, <1>2
  <2> HIDE DEF ids
  <2>4. class(c, v) = Kin(ids(c), h[i]) /\ class(b, v) = Kin(ids(b), i)
    BY <2>3 DEF Kin
  <2>5. /\ place(c, h[i]) \in 0 .. Cardinality(class(c, v)) - 1
        /\ \A k \in class(c, v) : place(c, k) = place(c, h[i]) => k = h[i]
        /\ \A m \in 0 .. Cardinality(class(b, v)) - 1 : \E k \in class(b, v) : place(b, k) = m
    <3> HIDE DEF class
    <3>1. /\ place(c, h[i]) \in 0 .. Cardinality(Kin(ids(c), h[i])) - 1
          /\ \A k \in Kin(ids(c), h[i]) : place(c, k) = place(c, h[i]) => k = h[i]
      BY <1>4, <2>3, OrdinalsFill
    <3>2. \A m \in 0 .. Cardinality(Kin(ids(b), i)) - 1 :
            \E k \in Kin(ids(b), i) : place(b, k) = m
      BY <1>4, <2>3, OrdinalsFill
    <3> QED
      BY <2>4, <3>1, <3>2
  <2>6. PICK k \in class(b, v) : place(b, k) = place(c, h[i])
    BY <2>2, <2>5
  <2>7. k \in DOMAIN b.spans /\ ids(b)[k] = v
    BY <1>3, <2>6
  <2>8. b.spans[k].name = x.name
    BY <2>7 DEF ids
  <2>9. b.spans[k].lost = 0 /\ Len(b.spans[k].events) = n /\ b.spans[k].events # <<>>
    BY <1>5, <1>6, <1>8, <2>7, <2>8
  <2>10. \A d : IdentifiedSpans(d) = {[id |-> Ordinal(ids(d), m), of |-> d.spans[m]] : m \in DOMAIN ids(d)}
    BY DEF IdentifiedSpans, ids
  <2>11. PICK r \in IdentifiedSpans(c) : r.id = Ordinal(ids(b), k)
                                          /\ r.of.lost = b.spans[k].lost + Len(b.spans[k].events)
    <3>1. EventsSuppressed(b, c)
      BY DEF Effective, LengthCases, CountCases
    <3>2. [id |-> Ordinal(ids(b), k), of |-> b.spans[k]] \in IdentifiedSpans(b)
      BY <1>3, <2>7, <2>10
    <3> QED
      BY <2>9, <3>1, <3>2 DEF EventsSuppressed
  <2>12. PICK m \in DOMAIN ids(c) : r = [id |-> Ordinal(ids(c), m), of |-> c.spans[m]]
    BY <2>10, <2>11
  <2>13. ids(c)[m] = v /\ place(c, m) = place(b, k)
    <3>1. Ordinal(ids(c), m) = Ordinal(ids(b), k)
      BY <2>11, <2>12
    <3>2. <<ids(c)[m], place(c, m)>> = <<ids(b)[k], place(b, k)>>
      BY <3>1, Zenon DEF Ordinal, Place
    <3> HIDE DEF place
    <3> QED
      BY <2>7, <3>2
  <2>14. m = h[i]
    BY <2>5, <2>6, <2>13
  <2> QED
    BY <1>5, <2>9, <2>11, <2>12, <2>14
<1> QED
  BY <1>7, <1>8

(* Equal counts of identities pair the spans of the two captures. *)
LEMMA SpansArePaired ==
  ASSUME NEW b \in Baselines, NEW c \in CapturesOf(b), Distinguished(b), case \notin CountCases,
         Effective(b, c), SameSpans(b, c)
  PROVE  \E h \in Bijection(DOMAIN b.spans, DOMAIN c.spans) :
           \A i \in DOMAIN b.spans :
             /\ SpanIdentity(b, b.spans[i]) = SpanIdentity(c, c.spans[h[i]])
             /\ Corresponding(b.spans[i], c.spans[h[i]])
<1> DEFINE f == [i \in WorkloadSpans(b) |-> SpanIdentity(b, b.spans[i])]
           g == [i \in WorkloadSpans(c) |-> SpanIdentity(c, c.spans[i])]
<1>1. WorkloadSpans(b) = DOMAIN b.spans /\ WorkloadSpans(c) = DOMAIN c.spans
  BY AllOfTheWorkload DEF Distinguished
<1>2. DOMAIN f = DOMAIN b.spans /\ DOMAIN g = DOMAIN c.spans /\ Counts(f) = Counts(g)
  BY <1>1 DEF SameSpans
<1>3. IsFiniteSet(DOMAIN f) /\ IsFiniteSet(DOMAIN g)
  BY <1>2, FiniteSpans, CapturedFields
<1>4. /\ \A i \in DOMAIN b.spans : f[i] = SpanIdentity(b, b.spans[i])
      /\ \A i \in DOMAIN c.spans : g[i] = SpanIdentity(c, c.spans[i])
  BY <1>1
<1> HIDE DEF f, g
<1>5. PICK h \in Bijection(DOMAIN f, DOMAIN g) : \A i \in DOMAIN f : g[h[i]] = f[i]
  BY <1>2, <1>3, EqualCounts
<1>6. h \in Bijection(DOMAIN b.spans, DOMAIN c.spans)
  BY <1>2, <1>5
<1>7. h \in [DOMAIN b.spans -> DOMAIN c.spans]
  BY <1>6, Fun_BijectionProperties
<1>8. \A i \in DOMAIN b.spans : SpanIdentity(b, b.spans[i]) = SpanIdentity(c, c.spans[h[i]])
  BY <1>2, <1>4, <1>5, <1>7
<1>9. ASSUME NEW i \in DOMAIN b.spans
      PROVE  Corresponding(b.spans[i], c.spans[h[i]])
  <2>1. h[i] \in DOMAIN c.spans
    BY <1>7
  <2>2. case = "events" => c.spans[h[i]].lost = b.spans[i].lost + Len(b.spans[i].events)
    BY <1>6, <1>8, EventsAreLost
  <2> QED
    BY <1>8, <2>1, <2>2, IdentityCorresponds
<1> QED
  BY <1>6, <1>8, <1>9

(* Some span of the baseline corresponds to each that was captured. *)
LEMMA EachCorresponds ==
  ASSUME NEW b \in Baselines, NEW c \in CapturesOf(b), Distinguished(b), case \notin CountCases,
         Effective(b, c), SameSpans(b, c), NEW k \in DOMAIN c.spans
  PROVE  \E i \in DOMAIN b.spans : Corresponding(b.spans[i], c.spans[k])
<1>1. PICK h \in Bijection(DOMAIN b.spans, DOMAIN c.spans) :
        \A i \in DOMAIN b.spans : Corresponding(b.spans[i], c.spans[h[i]])
  BY SpansArePaired
<1>2. \E i \in DOMAIN b.spans : h[i] = k
  BY Fun_BijectionProperties, Fun_SurjectionProperties
<1> QED
  BY <1>1, <1>2

(* A capture without spans leaves none. *)
LEMMA NothingOfNothing ==
  ASSUME NEW b, NEW c \in CapturesOf(b)
  PROVE  /\ b.spans = <<>> => DOMAIN c.spans = {}
         /\ b.logs = <<>> => DOMAIN c.logs = {}
         /\ b.points = <<>> => DOMAIN c.points = {}
<1>1. b.spans = <<>> => SpansOf(b) = {}
  BY DEF SpansOf, Records, ToSet
<1>2. b.logs = <<>> => LogsOf(b) = {}
  BY DEF LogsOf
<1>3. b.points = <<>> => PointsOf(b) = {}
  BY DEF PointsOf, Records, ToSet
<1> QED
  BY <1>1, <1>2, <1>3, CapturedFields

(* The spans of the workload are kept as SpansCorrespond states it. *)
LEMMA SpansAreKept ==
  ASSUME baseline \in Baselines, changed \in CapturesOf(baseline), Distinguished(baseline),
         case \notin CountCases, Exercised(baseline), Effective(baseline, changed),
         SpansKept(baseline, changed), case \notin {"disabled", "sampler", "exemplars-always-on"}
  PROVE  SpansCorrespond
<1> DEFINE b == baseline
           c == changed
<1>1. CASE SameSpans(b, c)
  <2>1. PICK h \in Bijection(DOMAIN b.spans, DOMAIN c.spans) :
          \A i \in DOMAIN b.spans :
            /\ SpanIdentity(b, b.spans[i]) = SpanIdentity(c, c.spans[h[i]])
            /\ Corresponding(b.spans[i], c.spans[h[i]])
    BY <1>1, SpansArePaired
  <2>2. /\ h \in [DOMAIN b.spans -> DOMAIN c.spans]
        /\ \A i, j \in DOMAIN b.spans : h[i] = h[j] => i = j
    BY Fun_BijectionProperties
  <2>3. /\ WorkloadSpans(b) = DOMAIN b.spans /\ WorkloadSpans(c) = DOMAIN c.spans
        /\ Cardinality(WorkloadTraces(b)) = Cardinality(WorkloadTraces(c))
    BY <1>1, AllOfTheWorkload DEF Distinguished
  <2>4. Cardinality(WorkloadSpans(b)) = Cardinality(WorkloadSpans(c))
    <3>1. ExistsBijection(DOMAIN b.spans, DOMAIN c.spans) /\ IsFiniteSet(DOMAIN b.spans)
      BY <2>1, FiniteSpans DEF ExistsBijection
    <3> QED
      BY <2>3, <3>1, FS_Bijection
  <2>5. h \in Pairings(WorkloadSpans(b), WorkloadSpans(c)) /\ DOMAIN h = DOMAIN b.spans
    BY <2>2, <2>3 DEF Pairings
  <2>6. ASSUME NEW i \in DOMAIN b.spans
        PROVE  LET x == b.spans[i]
                   y == c.spans[h[i]]
               IN /\ SpanOutcome(x, y)
                  /\ \A j \in At(b, x.trace, x.parent) : \E k \in At(c, y.trace, y.parent) :
                       SpanOutcome(b.spans[j], c.spans[k])
    <3> DEFINE x == b.spans[i]
               y == c.spans[h[i]]
    <3>1. h[i] \in DOMAIN c.spans /\ Corresponding(x, y)
      BY <2>1, <2>2
    <3>2. SpanOutcome(x, y)
      BY <3>1, CorrespondingOutcome
    <3>3. ASSUME NEW j \in At(b, x.trace, x.parent)
          PROVE  \E k \in At(c, y.trace, y.parent) : SpanOutcome(b.spans[j], c.spans[k])
      <4>1. x \in Records(b, "spans") /\ Relationship(b, x) = Relationship(c, y)
        BY <2>1 DEF SpanIdentity, Records, ToSet
      <4>2. \A k \in DOMAIN c.spans : \E l \in DOMAIN b.spans : Corresponding(b.spans[l], c.spans[k])
        BY <1>1, EachCorresponds
      <4>3. PICK k \in At(c, y.trace, y.parent) : Corresponding(b.spans[j], c.spans[k])
        BY <4>1, <4>2, ParentCorresponds
      <4>4. j \in DOMAIN b.spans /\ k \in DOMAIN c.spans
        BY DEF At
      <4>5. SpanOutcome(b.spans[j], c.spans[k])
        BY <4>3, <4>4, CorrespondingOutcome
      <4> QED
        BY <4>5
    <3> QED
      BY <3>2, <3>3
  <2> QED
    BY <2>3, <2>4, <2>5, <2>6 DEF SpansCorrespond
<1>2. CASE b.spans = <<>>
  <2>1. DOMAIN b.spans = {} /\ DOMAIN c.spans = {}
    BY <1>2, NothingOfNothing
  <2>2. \A d : DOMAIN d.spans = {} => WorkloadTraces(d) = {} /\ WorkloadSpans(d) = {}
    BY DEF WorkloadTraces, WorkloadSpans, Records, ToSet
  <2>3. WorkloadTraces(b) = {} /\ WorkloadSpans(b) = {} /\ WorkloadTraces(c) = {}
        /\ WorkloadSpans(c) = {}
    BY <2>1, <2>2
  <2>4. <<>> \in Pairings({}, {}) /\ DOMAIN <<>> = {}
    BY DEF Pairings
  <2>5. \E f \in Pairings({}, {}) : DOMAIN f = {}
    BY <2>4
  <2> QED
    BY <2>3, <2>5 DEF SpansCorrespond
<1> QED
  BY <1>1, <1>2 DEF SpansKept

(* The tags of logCorrelationID. *)
LEMMA CorrelationTags ==
  ASSUME NEW c, NEW l
  PROVE  LET at == At(c, l.trace, l.span)
             probed == \E i \in WorkloadSpans(c) :
                         c.spans[i].trace = l.trace /\ IsPropagationProbe(c.spans[i])
             r == Correlation(c, l)
             span == c.spans[Smallest(at)]
         IN /\ l.trace = 0 /\ l.span = 0 => r = <<"none">>
            /\ ~(l.trace = 0 <=> l.span = 0) => r = <<"invalid">>
            /\ l.trace # 0 /\ l.span # 0 =>
                 /\ case = "sampler" => r = <<"valid">>
                 /\ case # "sampler" /\ at = {} => r \in {<<"probe unmatched">>, <<"unmatched">>}
                 /\ case # "sampler" /\ at # {} =>
                      \/ /\ case = "propagation-none"
                         /\ r = <<"probe matched", Whole(span), Context(span)>>
                      \/ r = <<"matched", Occurrence(c, Smallest(at))>>
<1> DEFINE at == At(c, l.trace, l.span)
           probed == \E i \in WorkloadSpans(c) :
                       c.spans[i].trace = l.trace /\ IsPropagationProbe(c.spans[i])
           r == Correlation(c, l)
           span == c.spans[Smallest(at)]
           t == l.trace = 0
           s == l.span = 0
<1>1. r = CASE t /\ s -> <<"none">>
            [] t # s -> <<"invalid">>
            [] ~t /\ ~s ->
                 IF case = "sampler" THEN <<"valid">>
                 ELSE IF case = "propagation-none" /\ probed
                 THEN IF at = {} THEN <<"probe unmatched">>
                      ELSE <<"probe matched", Whole(span), Context(span)>>
                 ELSE IF at = {} THEN <<"unmatched">> ELSE <<"matched", Occurrence(c, Smallest(at))>>
  BY Zenon DEF Correlation
<1>2. t \in BOOLEAN /\ s \in BOOLEAN
  OBVIOUS
<1> HIDE DEF at, probed, r, span, t, s
<1>3. t /\ s => r = <<"none">>
  BY <1>1, <1>2
<1>4. ~(t <=> s) => r = <<"invalid">>
  BY <1>1, <1>2
<1>5. ~t /\ ~s =>
        r = IF case = "sampler" THEN <<"valid">>
            ELSE IF case = "propagation-none" /\ probed
            THEN IF at = {} THEN <<"probe unmatched">>
                 ELSE <<"probe matched", Whole(span), Context(span)>>
            ELSE IF at = {} THEN <<"unmatched">> ELSE <<"matched", Occurrence(c, Smallest(at))>>
  BY <1>1, <1>2
<1> QED
  BY <1>3, <1>4, <1>5 DEF at, probed, r, span, t, s

(* What the form of a log (logStreamID and its variants) keeps of it. *)
LEMMA LogFormKeeps ==
  ASSUME NEW l, case \notin CountCases
  PROVE  /\ LogForm(l).body = l.body /\ LogForm(l).dropped = l.dropped
         /\ LogForm(l).attrs =
              IF case \in {"attribute-length", "log-length"} THEN Shortened(l.attrs) ELSE l.attrs
<1> DEFINE whole == [body |-> l.body, attrs |-> l.attrs, dropped |-> l.dropped]
<1>1. CASE case \in {"attribute-length", "log-length"}
  <2>1. LogForm(l) = [whole EXCEPT !.attrs = Shortened(@)]
    BY <1>1 DEF LogForm
  <2> QED
    BY <1>1, <2>1
<1>2. CASE case \notin {"attribute-length", "log-length"}
  <2>1. LogForm(l) = whole
    BY <1>2 DEF LogForm, CountCases
  <2> QED
    BY <1>2, <2>1
<1> QED
  BY <1>1, <1>2

(* Correlations that are the same are those of spans that correspond. *)
LEMMA CorrelationFollows ==
  ASSUME NEW b \in Baselines, NEW c \in CapturesOf(b), Distinguished(b), case \notin CountCases,
         \A k \in DOMAIN c.spans : \E i \in DOMAIN b.spans : Corresponding(b.spans[i], c.spans[k]),
         NEW x \in Records(b, "logs"), NEW y, Correlation(b, x) = Correlation(c, y)
  PROVE  /\ x.span = 0 <=> y.span = 0
         /\ case # "sampler" => \A j \in At(b, x.trace, x.span) :
              \E k \in At(c, y.trace, y.span) : Corresponding(b.spans[j], c.spans[k])
<1> DEFINE rx == Correlation(b, x)
           ry == Correlation(c, y)
           ax == At(b, x.trace, x.span)
           ay == At(c, y.trace, y.span)
<1>1. x.trace = 0 <=> x.span = 0
  BY DEF Distinguished
<1>2. x.span = 0 => ax = {}
  BY NoneThere DEF Nowhere
<1>3. /\ x.span = 0 => rx = <<"none">>
      /\ x.span # 0 /\ case = "sampler" => rx = <<"valid">>
      /\ x.span # 0 /\ case # "sampler" /\ ax = {} => rx \in {<<"probe unmatched">>, <<"unmatched">>}
      /\ x.span # 0 /\ case # "sampler" /\ ax # {} =>
           \/ /\ case = "propagation-none"
              /\ rx = <<"probe matched", Whole(b.spans[Smallest(ax)]), Context(b.spans[Smallest(ax)])>>
           \/ rx = <<"matched", Occurrence(b, Smallest(ax))>>
  BY <1>1, CorrelationTags
<1>4. /\ y.trace = 0 /\ y.span = 0 => ry = <<"none">>
      /\ ~(y.trace = 0 <=> y.span = 0) => ry = <<"invalid">>
      /\ y.trace # 0 /\ y.span # 0 =>
           /\ case = "sampler" => ry = <<"valid">>
           /\ case # "sampler" /\ ay = {} => ry \in {<<"probe unmatched">>, <<"unmatched">>}
           /\ case # "sampler" /\ ay # {} =>
                \/ /\ case = "propagation-none"
                   /\ ry = <<"probe matched", Whole(c.spans[Smallest(ay)]),
                             Context(c.spans[Smallest(ay)])>>
                \/ ry = <<"matched", Occurrence(c, Smallest(ay))>>
  BY CorrelationTags
<1>5. rx = ry
  OBVIOUS
<1>6. ax \subseteq DOMAIN b.spans /\ ay \subseteq DOMAIN c.spans /\ ay \in SUBSET Nat
  BY CapturedFields DEF At
<1>7. \A j \in ax : ax = {j} /\ Smallest(ax) = j /\ j \in DOMAIN b.spans /\ ReferredTo(b, j)
  BY <1>6, OnlyOneThere DEF ReferredTo
<1>8. ay # {} => Smallest(ay) \in ay
  BY <1>6, SmallestIsIn
<1> HIDE DEF rx, ry, ax, ay
<1>9. /\ rx = <<"none">> => rx[1] = "none"
      /\ rx = <<"valid">> => rx[1] = "valid"
      /\ rx \in {<<"probe unmatched">>, <<"unmatched">>} => rx[1] \in {"probe unmatched", "unmatched"}
      /\ \A p, q : rx = <<"probe matched", p, q>> => rx[1] = "probe matched"
      /\ \A p : rx = <<"matched", p>> => rx[1] = "matched"
      /\ ry = <<"none">> => ry[1] = "none"
      /\ ry = <<"invalid">> => ry[1] = "invalid"
      /\ ry = <<"valid">> => ry[1] = "valid"
      /\ ry \in {<<"probe unmatched">>, <<"unmatched">>} => ry[1] \in {"probe unmatched", "unmatched"}
      /\ \A p, q : ry = <<"probe matched", p, q>> => ry[1] = "probe matched"
      /\ \A p : ry = <<"matched", p>> => ry[1] = "matched"
  <2>1. ASSUME NEW r
        PROVE  /\ \A s : r = <<s>> => r[1] = s
               /\ \A s, p : r = <<s, p>> => r[1] = s
               /\ \A s, p, q : r = <<s, p, q>> => r[1] = s
    OBVIOUS
  <2>2. /\ rx = <<"none">> => rx[1] = "none"
        /\ rx = <<"valid">> => rx[1] = "valid"
        /\ rx = <<"probe unmatched">> => rx[1] = "probe unmatched"
        /\ rx = <<"unmatched">> => rx[1] = "unmatched"
        /\ \A p, q : rx = <<"probe matched", p, q>> => rx[1] = "probe matched"
        /\ \A p : rx = <<"matched", p>> => rx[1] = "matched"
    BY <2>1, Zenon
  <2>3. /\ ry = <<"none">> => ry[1] = "none"
        /\ ry = <<"invalid">> => ry[1] = "invalid"
        /\ ry = <<"valid">> => ry[1] = "valid"
        /\ ry = <<"probe unmatched">> => ry[1] = "probe unmatched"
        /\ ry = <<"unmatched">> => ry[1] = "unmatched"
        /\ \A p, q : ry = <<"probe matched", p, q>> => ry[1] = "probe matched"
        /\ \A p : ry = <<"matched", p>> => ry[1] = "matched"
    BY <2>1, Zenon
  <2> QED
    BY <2>2, <2>3, Zenon
<1>10. x.span = 0 <=> y.span = 0
  <2>1. CASE x.span = 0
    <3>1. ry[1] = "none"
      BY <1>3, <1>5, <1>9, <2>1
    <3>2. ~(y.trace # 0 /\ y.span # 0)
      BY <1>4, <1>9, <3>1
    <3>3. y.trace = 0 <=> y.span = 0
      BY <1>4, <1>9, <3>1
    <3> QED
      BY <2>1, <3>2, <3>3
  <2>2. CASE x.span # 0
    <3>1. rx[1] # "none"
      BY <1>3, <1>9, <2>2
    <3>2. rx[1] # "invalid"
      BY <1>3, <1>9, <2>2
    <3>3. y.trace = 0 <=> y.span = 0
      BY <1>4, <1>5, <1>9, <3>2
    <3> QED
      BY <1>4, <1>5, <1>9, <2>2, <3>1, <3>3
  <2> QED
    BY <2>1, <2>2
<1>11. ASSUME case # "sampler", NEW j \in ax
       PROVE  \E k \in ay : Corresponding(b.spans[j], c.spans[k])
  <2>1. Smallest(ax) = j /\ j \in DOMAIN b.spans /\ ReferredTo(b, j) /\ x.span # 0 /\ ax # {}
    BY <1>2, <1>7, <1>11
  <2>2. \/ /\ case = "propagation-none"
           /\ rx = <<"probe matched", Whole(b.spans[j]), Context(b.spans[j])>>
        \/ rx = <<"matched", Occurrence(b, j)>>
    BY <1>3, <1>11, <2>1
  <2>3. rx[1] \in {"matched", "probe matched"}
    BY <1>9, <2>2
  <2>4. y.trace # 0 /\ y.span # 0 /\ ay # {}
    BY <1>4, <1>5, <1>9, <1>10, <1>11, <2>1, <2>3
  <2> DEFINE k == Smallest(ay)
  <2>5. k \in ay /\ k \in DOMAIN c.spans
    BY <1>6, <1>8, <2>4
  <2>6. \/ ry = <<"probe matched", Whole(c.spans[k]), Context(c.spans[k])>>
        \/ ry = <<"matched", Occurrence(c, k)>>
    BY <1>4, <1>11, <2>4
  <2>7. b.spans[j].name = c.spans[k].name /\ Context(b.spans[j]) = Context(c.spans[k])
    <3>1. CASE rx[1] = "probe matched"
      <4>1. rx = <<"probe matched", Whole(b.spans[j]), Context(b.spans[j])>>
        BY <1>9, <2>2, <3>1
      <4>2. ry = <<"probe matched", Whole(c.spans[k]), Context(c.spans[k])>>
        BY <1>5, <1>9, <2>6, <3>1
      <4> HIDE DEF k
      <4>3. Whole(b.spans[j]) = Whole(c.spans[k]) /\ Context(b.spans[j]) = Context(c.spans[k])
        <5>1. <<"probe matched", Whole(b.spans[j]), Context(b.spans[j])>>
                = <<"probe matched", Whole(c.spans[k]), Context(c.spans[k])>>
          BY <1>5, <4>1, <4>2, Zenon
        <5> QED
          BY <5>1
      <4> QED
        BY <4>3 DEF Whole
    <3>2. CASE rx[1] = "matched"
      <4>1. rx = <<"matched", Occurrence(b, j)>>
        BY <1>9, <2>2, <3>2
      <4>2. ry = <<"matched", Occurrence(c, k)>>
        BY <1>5, <1>9, <2>6, <3>2
      <4> HIDE DEF k
      <4>3. Occurrence(b, j) = Occurrence(c, k)
        <5>1. <<"matched", Occurrence(b, j)>> = <<"matched", Occurrence(c, k)>>
          BY <1>5, <4>1, <4>2, Zenon
        <5> QED
          BY <5>1
      <4>4. \A d : \A m \in DOMAIN d.spans :
              Occurrence(d, m)[1] = <<d.spans[m].name, Context(d.spans[m])>>
        <5> DEFINE f(d) == [m \in DOMAIN d.spans |-> <<d.spans[m].name, Context(d.spans[m])>>]
        <5>1. ASSUME NEW d, NEW m \in DOMAIN d.spans
              PROVE  Occurrence(d, m)[1] = <<d.spans[m].name, Context(d.spans[m])>>
          <6>1. Occurrence(d, m) = Ordinal(f(d), m)
            BY DEF Occurrence
          <6>2. f(d)[m] = <<d.spans[m].name, Context(d.spans[m])>>
            OBVIOUS
          <6> HIDE DEF f
          <6>3. Ordinal(f(d), m)[1] = f(d)[m]
            BY DEF Ordinal
          <6> QED
            BY <6>1, <6>2, <6>3
        <5> QED
          BY <5>1
      <4>5. <<b.spans[j].name, Context(b.spans[j])>> = <<c.spans[k].name, Context(c.spans[k])>>
        BY <2>1, <2>5, <4>3, <4>4
      <4> QED
        BY <4>5
    <3> QED
      BY <2>3, <3>1, <3>2
  <2> HIDE DEF k
  <2>8. Corresponding(b.spans[j], c.spans[k])
    BY <2>1, <2>5, <2>7, ReferredCorresponds
  <2> QED
    BY <2>5, <2>8
<1> QED
  BY <1>10, <1>11 DEF ax, ay

(* A log of one form and context is what the setting makes of it. *)
LEMMA LogOutcomeFollows ==
  ASSUME NEW b \in Baselines, NEW c \in CapturesOf(b), Effective(b, c), case \notin CountCases,
         NEW i \in DOMAIN b.logs, NEW j \in DOMAIN c.logs,
         LogForm(b.logs[i]) = LogForm(c.logs[j]), Context(b.logs[i]) = Context(c.logs[j])
  PROVE  LogOutcome(b.logs[i], c.logs[j])
<1> DEFINE x == b.logs[i]
           y == c.logs[j]
<1>1. x \in LogRecords /\ y \in LooseLogs /\ y \in AllRecords(c)
  BY BaselineFields, CapturedFields DEF AllRecords, Records, ToSet
<1>2. x.res \in Resources /\ y.res \in LooseResources
  BY <1>1 DEF LogRecords, LooseLogs
<1>3. SameService(x, y)
  BY <1>1, <1>2, ContextServes
<1>4. case \in {"attribute-length", "log-length"} => Shortened(y.attrs) = y.attrs
  BY LimitsHold DEF LengthCases
<1>5. LogForm(x) = LogForm(y)
  OBVIOUS
<1> HIDE DEF x, y
<1>6. /\ LogForm(x).body = x.body /\ LogForm(x).dropped = x.dropped
      /\ LogForm(x).attrs =
           IF case \in {"attribute-length", "log-length"} THEN Shortened(x.attrs) ELSE x.attrs
  BY LogFormKeeps
<1>7. /\ LogForm(y).body = y.body /\ LogForm(y).dropped = y.dropped
      /\ LogForm(y).attrs =
           IF case \in {"attribute-length", "log-length"} THEN Shortened(y.attrs) ELSE y.attrs
  BY LogFormKeeps
<1>8. /\ x.body = y.body /\ x.dropped = y.dropped
      /\ case \in {"attribute-length", "log-length"} => y.attrs = Shortened(x.attrs)
      /\ case \notin {"attribute-length", "log-length"} => x.attrs = y.attrs
  BY <1>4, <1>5, <1>6, <1>7
<1>9. LogOutcome(x, y)
  BY <1>3, <1>8 DEF LogOutcome, Same, CountCases
<1> QED
  BY <1>9 DEF x, y

(* The logs are kept as LogsCorrespond states it. *)
LEMMA LogsAreKept ==
  ASSUME baseline \in Baselines, changed \in CapturesOf(baseline), Distinguished(baseline),
         case \notin CountCases, Exercised(baseline), Effective(baseline, changed),
         SpansKept(baseline, changed), LogsKept(baseline, changed), case # "disabled"
  PROVE  LogsCorrespond
<1> DEFINE b == baseline
           c == changed
<1>1. CASE LogIdentities(b) = LogIdentities(c)
  <2> DEFINE f == [i \in DOMAIN b.logs |->
                     <<LogForm(b.logs[i]), Context(b.logs[i]), Correlation(b, b.logs[i])>>]
             g == [i \in DOMAIN c.logs |->
                     <<LogForm(c.logs[i]), Context(c.logs[i]), Correlation(c, c.logs[i])>>]
  <2>1. DOMAIN f = DOMAIN b.logs /\ DOMAIN g = DOMAIN c.logs /\ Counts(f) = Counts(g)
    BY <1>1 DEF LogIdentities
  <2>2. IsFiniteSet(DOMAIN b.logs)
    <3>1. b.logs \in Seq(LogRecords)
      BY BaselineFields
    <3>2. DOMAIN b.logs = 1 .. Len(b.logs) /\ Len(b.logs) \in Nat
      BY <3>1
    <3> QED
      BY <3>2, FS_Interval
  <2>3. IsFiniteSet(DOMAIN f) /\ IsFiniteSet(DOMAIN g)
    BY <2>1, <2>2, CapturedFields
  <2>4. /\ \A i \in DOMAIN b.logs :
             f[i] = <<LogForm(b.logs[i]), Context(b.logs[i]), Correlation(b, b.logs[i])>>
        /\ \A i \in DOMAIN c.logs :
             g[i] = <<LogForm(c.logs[i]), Context(c.logs[i]), Correlation(c, c.logs[i])>>
    OBVIOUS
  <2> HIDE DEF f, g
  <2>5. PICK h \in Bijection(DOMAIN f, DOMAIN g) : \A i \in DOMAIN f : g[h[i]] = f[i]
    BY <2>1, <2>3, EqualCounts
  <2>6. h \in Bijection(DOMAIN b.logs, DOMAIN c.logs)
    BY <2>1, <2>5
  <2>7. /\ h \in [DOMAIN b.logs -> DOMAIN c.logs]
        /\ \A i, j \in DOMAIN b.logs : h[i] = h[j] => i = j
    BY <2>6, Fun_BijectionProperties
  <2>8. Len(b.logs) = Len(c.logs)
    <3>1. Cardinality(DOMAIN b.logs) = Cardinality(DOMAIN c.logs)
      <4>1. ExistsBijection(DOMAIN b.logs, DOMAIN c.logs)
        BY <2>6 DEF ExistsBijection
      <4> QED
        BY <2>2, <4>1, FS_Bijection
    <3>2. b.logs \in Seq(LogRecords) /\ c.logs \in Seq(LogsOf(b))
      BY BaselineFields, CapturedFields
    <3>3. /\ Len(b.logs) \in Nat /\ DOMAIN b.logs = 1 .. Len(b.logs)
          /\ Len(c.logs) \in Nat /\ DOMAIN c.logs = 1 .. Len(c.logs)
      BY <3>2
    <3>4. \A n \in Nat : Cardinality(1 .. n) = n
      <4>1. \A n \in Nat : Cardinality(1 .. n) = IF 1 > n THEN 0 ELSE n - 1 + 1
        BY FS_Interval
      <4> QED
        BY <4>1
    <3> QED
      BY <3>1, <3>3, <3>4
  <2>9. h \in Pairings(DOMAIN b.logs, DOMAIN c.logs) /\ DOMAIN h = DOMAIN b.logs
    BY <2>7 DEF Pairings
  <2>10. ASSUME NEW i \in DOMAIN b.logs
         PROVE  LET x == b.logs[i]
                    y == c.logs[h[i]]
                IN /\ LogOutcome(x, y)
                   /\ (x.span = 0) = (y.span = 0)
                   /\ case # "sampler" =>
                        \A j \in At(b, x.trace, x.span) : \E k \in At(c, y.trace, y.span) :
                          SpanOutcome(b.spans[j], c.spans[k])
    <3> DEFINE x == b.logs[i]
               y == c.logs[h[i]]
    <3>1. h[i] \in DOMAIN c.logs /\ x \in Records(b, "logs")
      BY <2>7 DEF Records, ToSet
    <3>2. <<LogForm(x), Context(x), Correlation(b, x)>> = <<LogForm(y), Context(y), Correlation(c, y)>>
      BY <2>1, <2>4, <2>5, <3>1
    <3>3. LogForm(x) = LogForm(y) /\ Context(x) = Context(y) /\ Correlation(b, x) = Correlation(c, y)
      <4> HIDE DEF x, y
      <4> QED
        BY <3>2
    <3>4. LogOutcome(x, y)
      BY <3>1, <3>3, LogOutcomeFollows
    <3>5. CASE SameSpans(b, c)
      <4>1. \A k \in DOMAIN c.spans : \E l \in DOMAIN b.spans : Corresponding(b.spans[l], c.spans[k])
        BY <3>5, EachCorresponds
      <4>2. /\ x.span = 0 <=> y.span = 0
            /\ case # "sampler" => \A j \in At(b, x.trace, x.span) :
                 \E k \in At(c, y.trace, y.span) : Corresponding(b.spans[j], c.spans[k])
        BY <3>1, <3>3, <4>1, CorrelationFollows
      <4>3. \A j \in At(b, x.trace, x.span), k \in At(c, y.trace, y.span) :
              Corresponding(b.spans[j], c.spans[k]) => SpanOutcome(b.spans[j], c.spans[k])
        BY CorrespondingOutcome DEF At
      <4> QED
        BY <3>4, <4>2, <4>3
    <3>6. CASE DOMAIN c.spans = {}
      <4>1. \A k \in DOMAIN c.spans : \E l \in DOMAIN b.spans : Corresponding(b.spans[l], c.spans[k])
        BY <3>6
      <4>2. x.span = 0 <=> y.span = 0
        BY <3>1, <3>3, <4>1, CorrelationFollows
      <4>3. case # "sampler" => At(b, x.trace, x.span) = {}
        <5>1. case # "sampler" => \A j \in At(b, x.trace, x.span) :
                \E k \in At(c, y.trace, y.span) : Corresponding(b.spans[j], c.spans[k])
          BY <3>1, <3>3, <4>1, CorrelationFollows
        <5> QED
          BY <3>6, <5>1 DEF At
      <4> QED
        BY <3>4, <4>2, <4>3
    <3>7. SameSpans(b, c) \/ DOMAIN c.spans = {}
      <4>1. case \in {"sampler", "exemplars-always-on"} => DOMAIN c.spans = {}
        <5>1. ASSUME NEW s, s = <<>> PROVE DOMAIN s = {}
          BY <5>1
        <5>2. case = "sampler" => c.spans = <<>>
          BY DEF Effective, LengthCases, CountCases
        <5>3. case = "exemplars-always-on" => c.spans = <<>>
          BY DEF Effective, LengthCases, CountCases
        <5> QED
          BY <5>1, <5>2, <5>3
      <4>2. b.spans = <<>> => DOMAIN c.spans = {}
        BY NothingOfNothing
      <4> QED
        BY <4>1, <4>2 DEF SpansKept
    <3> QED
      BY <3>5, <3>6, <3>7
  <2> QED
    BY <2>8, <2>9, <2>10 DEF LogsCorrespond
<1>2. CASE b.logs = <<>>
  <2>1. DOMAIN b.logs = {} /\ DOMAIN c.logs = {}
    BY <1>2, NothingOfNothing
  <2>2. Len(b.logs) = Len(c.logs)
    <3>1. c.logs \in Seq(LogsOf(b))
      BY CapturedFields
    <3>2. Len(c.logs) \in Nat /\ DOMAIN c.logs = 1 .. Len(c.logs)
      BY <3>1
    <3>3. \A n \in Nat : n # 0 => 1 \in 1 .. n
      OBVIOUS
    <3>4. Len(c.logs) = 0
      BY <2>1, <3>2, <3>3
    <3> QED
      BY <1>2, <3>4
  <2>3. <<>> \in Pairings({}, {}) /\ DOMAIN <<>> = {}
    BY DEF Pairings
  <2>4. \E f \in Pairings({}, {}) : DOMAIN f = {}
    BY <2>3
  <2> QED
    BY <2>1, <2>2, <2>4 DEF LogsCorrespond
<1> QED
  BY <1>1, <1>2 DEF LogsKept

(* A point that its identity does not tell from another is the same measurement *)
(* of the same stream; only points that come and go may differ in their state.  *)
LEMMA IdentityOfPoints ==
  ASSUME NEW x, NEW y, PointIdentity(x) = PointIdentity(y)
  PROVE  /\ x.name = y.name /\ x.type = y.type /\ Context(x) = Context(y)
         /\ Transient(x) <=> Transient(y)
         /\ ~Transient(x) => /\ x.state = y.state /\ PointID(x) = PointID(y)
                             /\ Measured(x) <=> Measured(y)
         /\ ~Transient(x) /\ case \notin {"sampler", "exemplars", "exemplars-always-on"} =>
              x.exemplars = y.exemplars
<1>1. ASSUME NEW p
      PROVE  PointIdentity(p).id = <<StreamID(p), IF Transient(p) THEN "any" ELSE p.state>>
  BY DEF PointIdentity
<1>3. /\ StreamID(x) = StreamID(y)
      /\ (IF Transient(x) THEN "any" ELSE x.state) = (IF Transient(y) THEN "any" ELSE y.state)
  <2>1. <<StreamID(x), IF Transient(x) THEN "any" ELSE x.state>>
          = <<StreamID(y), IF Transient(y) THEN "any" ELSE y.state>>
    <3>1. PointIdentity(x).id = PointIdentity(y).id
      OBVIOUS
    <3>2. PointIdentity(x).id = <<StreamID(x), IF Transient(x) THEN "any" ELSE x.state>>
      BY <1>1
    <3>3. PointIdentity(y).id = <<StreamID(y), IF Transient(y) THEN "any" ELSE y.state>>
      BY <1>1
    <3> QED
      BY <3>1, <3>2, <3>3, Zenon
  <2> QED
    BY <2>1
<1>4. <<x.name, x.type, Context(x)>> = <<y.name, y.type, Context(y)>>
  BY <1>3, Zenon DEF StreamID
<1>5. x.name = y.name /\ x.type = y.type /\ Context(x) = Context(y)
  <2>1. \A r, s, t, u, v, w : <<r, s, t>> = <<u, v, w>> => r = u /\ s = v /\ t = w
    OBVIOUS
  <2> QED
    BY <1>4, <2>1, Zenon
<1>6. Transient(x) <=> Transient(y)
  BY <1>5 DEF Transient
<1>7. ASSUME ~Transient(x)
      PROVE  x.state = y.state /\ PointID(x) = PointID(y)
  BY <1>3, <1>5, <1>6, <1>7 DEF PointID
<1>8. ASSUME ~Transient(x)
      PROVE  Measured(x) = Measured(y)
  <2>1. /\ PointIdentity(x).measured = Measured(x) /\ PointIdentity(y).measured = Measured(y)
    BY <1>6, <1>8 DEF PointIdentity
  <2> QED
    BY <2>1, Zenon
<1>9. ASSUME ~Transient(x), case \notin {"sampler", "exemplars", "exemplars-always-on"}
      PROVE  x.exemplars = y.exemplars
  <2>1. PointIdentity(x).exemplars = x.exemplars /\ PointIdentity(y).exemplars = y.exemplars
    BY <1>6, <1>9 DEF PointIdentity
  <2> QED
    BY <2>1, Zenon
<1> QED
  BY <1>5, <1>6, <1>7, <1>8, <1>9

(* The points that are compared, when a sum is all that is asked of those that come and go. *)
LEMMA PointFollows ==
  ASSUME NEW b, NEW c \in CapturesOf(b), b \in Baselines, Distinguished(b), Effective(b, c),
         NEW x \in Records(b, "points"), NEW y \in Records(c, "points"),
         PointIdentity(x) = PointIdentity(y)
  PROVE  /\ SameService(x, y) /\ x.name = y.name
         /\ Transient(x) \/ x.state = y.state
         /\ y.type = x.type /\ Measured(x) = Measured(y)
         /\ Transient(x) \/ case \in {"sampler", "exemplars", "exemplars-always-on"}
              \/ x.exemplars = y.exemplars
<1>1. /\ x.name = y.name /\ x.type = y.type /\ Context(x) = Context(y)
      /\ Transient(x) <=> Transient(y)
      /\ ~Transient(x) => x.state = y.state /\ (Measured(x) <=> Measured(y))
      /\ ~Transient(x) /\ case \notin {"sampler", "exemplars", "exemplars-always-on"} =>
           x.exemplars = y.exemplars
  BY IdentityOfPoints
<1>2. x \in PointRecords /\ y \in LoosePoints /\ y \in AllRecords(c)
  BY BaselineFields, CapturedFields DEF Records, ToSet, AllRecords
<1>3. x.res \in Resources /\ y.res \in LooseResources
  BY <1>2 DEF PointRecords, LoosePoints
<1>4. SameService(x, y)
  BY <1>1, <1>2, <1>3, ContextServes
<1>5. Transient(x) => x.type = "sum"
  BY DEF Distinguished
<1>6. Measured(x) <=> Measured(y)
  <2>1. CASE Transient(x)
    BY <1>1, <1>5, <2>1 DEF Measured
  <2>2. CASE ~Transient(x)
    BY <1>1, <2>2
  <2> QED
    BY <2>1, <2>2
<1>7. Measured(x) = Measured(y)
  BY <1>6 DEF Measured
<1> QED
  BY <1>1, <1>4, <1>7

(* Every point compared is found among those of the other capture. *)
LEMMA ComparedPoints ==
  ASSUME NEW b, NEW c, MetricIdentities(b) = MetricIdentities(c)
  PROVE  /\ \A x \in Records(b, "points") : (case = "histogram" => x.type = "sum") =>
              \E y \in Records(c, "points") : PointIdentity(x) = PointIdentity(y)
         /\ \A y \in Records(c, "points") : (case = "histogram" => y.type = "sum") =>
              \E x \in Records(b, "points") : PointIdentity(x) = PointIdentity(y)
<1>1. ASSUME NEW d
      PROVE  /\ \A p \in Records(d, "points") : (case = "histogram" => p.type = "sum") =>
                  PointIdentity(p) \in MetricIdentities(d)
             /\ \A v \in MetricIdentities(d) : \E p \in Records(d, "points") :
                  v = PointIdentity(p)
  BY DEF MetricIdentities, Compared, Records, ToSet
<1>2. /\ \A x \in Records(b, "points") : (case = "histogram" => x.type = "sum") =>
           PointIdentity(x) \in MetricIdentities(b)
      /\ \A v \in MetricIdentities(b) : \E p \in Records(b, "points") : v = PointIdentity(p)
  BY <1>1
<1>3. /\ \A x \in Records(c, "points") : (case = "histogram" => x.type = "sum") =>
           PointIdentity(x) \in MetricIdentities(c)
      /\ \A v \in MetricIdentities(c) : \E p \in Records(c, "points") : v = PointIdentity(p)
  BY <1>1
<1> QED
  BY <1>2, <1>3

(* A converted histogram is another form of the same series. *)
LEMMA ConvertedPoints ==
  ASSUME NEW b, NEW c, Series(b, "histogram") = Series(c, "exponential")
  PROVE  /\ \A x \in Records(b, "points") : x.type = "histogram" /\ x.count > 0 =>
              \E y \in Records(c, "points") :
                /\ y.type = "exponential" /\ y.count > 0
                /\ x.name = y.name /\ x.state = y.state /\ Context(x) = Context(y)
         /\ \A y \in Records(c, "points") : y.type = "exponential" /\ y.count > 0 =>
              \E x \in Records(b, "points") :
                /\ x.type = "histogram" /\ x.count > 0
                /\ x.name = y.name /\ x.state = y.state /\ Context(x) = Context(y)
<1>1. ASSUME NEW d, NEW type
      PROVE  DOMAIN Series(d, type) =
               {<<p.name, p.state, Context(p)>> :
                  p \in {p \in Records(d, "points") : p.type = type /\ p.count > 0}}
  BY DEF Series
<1>2. \A r, s, t, u, v, w : <<r, s, t>> = <<u, v, w>> => r = u /\ s = v /\ t = w
  OBVIOUS
<1> DEFINE H == {p \in Records(b, "points") : p.type = "histogram" /\ p.count > 0}
           X == {p \in Records(c, "points") : p.type = "exponential" /\ p.count > 0}
<1>3. {<<p.name, p.state, Context(p)>> : p \in H} = {<<p.name, p.state, Context(p)>> : p \in X}
  <2>1. DOMAIN Series(b, "histogram") = DOMAIN Series(c, "exponential")
    OBVIOUS
  <2> QED
    BY <1>1, <2>1
<1>4. ASSUME NEW x \in H
      PROVE  \E y \in X : x.name = y.name /\ x.state = y.state /\ Context(x) = Context(y)
  <2> HIDE DEF H, X
  <2>1. <<x.name, x.state, Context(x)>> \in {<<p.name, p.state, Context(p)>> : p \in H}
    OBVIOUS
  <2>2. <<x.name, x.state, Context(x)>> \in {<<p.name, p.state, Context(p)>> : p \in X}
    BY <1>3, <2>1, Zenon
  <2>3. PICK y \in X : <<x.name, x.state, Context(x)>> = <<y.name, y.state, Context(y)>>
    BY <2>2
  <2> QED
    BY <1>2, <2>3, Zenon
<1>5. ASSUME NEW y \in X
      PROVE  \E x \in H : x.name = y.name /\ x.state = y.state /\ Context(x) = Context(y)
  <2> HIDE DEF H, X
  <2>1. <<y.name, y.state, Context(y)>> \in {<<p.name, p.state, Context(p)>> : p \in X}
    OBVIOUS
  <2>2. <<y.name, y.state, Context(y)>> \in {<<p.name, p.state, Context(p)>> : p \in H}
    BY <1>3, <2>1, Zenon
  <2>3. PICK x \in H : <<y.name, y.state, Context(y)>> = <<x.name, x.state, Context(x)>>
    BY <2>2
  <2> QED
    BY <1>2, <2>3, Zenon
<1> QED
  BY <1>4, <1>5

(* A point that the identities match is what the setting makes of it, unless it   *)
(* is one that an exemplar is asked of.                                       *)
LEMMA PointOutcomeFollows ==
  ASSUME baseline \in Baselines, changed \in CapturesOf(baseline), Distinguished(baseline),
         Exercised(baseline), Effective(baseline, changed),
         NEW x \in Records(baseline, "points"), NEW y \in Records(changed, "points"),
         case = "histogram" => x.type = "sum", PointIdentity(x) = PointIdentity(y),
         case = "exemplars-always-on" /\ PointID(x) \in Unsampled(baseline) => y.exemplars = "valid"
  PROVE  PointOutcome(x, y)
<1>1. /\ SameService(x, y) /\ x.name = y.name
      /\ Transient(x) \/ x.state = y.state
      /\ y.type = x.type /\ Measured(x) = Measured(y)
      /\ Transient(x) \/ case \in {"sampler", "exemplars", "exemplars-always-on"}
           \/ x.exemplars = y.exemplars
  BY PointFollows
<1>2. case = "exemplars" => y.exemplars = "none"
  BY DEF Effective, ExemplarsSuppressed, LengthCases, CountCases
<1>3. y.type = IF case = "histogram" /\ x.type = "histogram" THEN "exponential" ELSE x.type
  BY <1>1
<1> QED
  BY <1>1, <1>2, <1>3 DEF PointOutcome

(* A point that no point of the baseline repeats is the one an exemplar is asked of. *)
LEMMA SampledPoints ==
  ASSUME NEW b \in Baselines, NEW c \in CapturesOf(b), Distinguished(b), Effective(b, c),
         case = "exemplars-always-on", MetricIdentities(b) = MetricIdentities(c), ~Duplicated(c),
         NEW x \in Records(b, "points"), PointID(x) \in Unsampled(b)
  PROVE  /\ \E y \in Records(c, "points") :
              PointIdentity(x) = PointIdentity(y) /\ y.exemplars = "valid"
         /\ \A y \in Records(c, "points") :
              PointIdentity(x) = PointIdentity(y) => y.exemplars = "valid"
<1>1. UnsampledGained(b, c)
  BY DEF Effective, LengthCases, CountCases
<1>2. ~Transient(x)
  <2>1. PICK p \in Records(b, "points") : ~Transient(p) /\ PointID(p) = PointID(x)
    BY DEF Unsampled
  <2>2. p.name = x.name
    <3>1. \A r, s, t, u, v, w, m, n : <<r, s, t, u>> = <<v, w, m, n>> => r = v
      OBVIOUS
    <3> QED
      BY <2>1, <3>1, Zenon DEF PointID
  <2> QED
    BY <2>1, <2>2 DEF Transient
<1>3. PICK y \in Records(c, "points") : PointID(y) = PointID(x) /\ y.exemplars = "valid"
  BY <1>1 DEF UnsampledGained
<1>4. PICK z \in Records(b, "points") : PointIdentity(z) = PointIdentity(y)
  BY ComparedPoints
<1>5. ~Transient(y)
  <2>1. y.name = x.name
    <3>1. \A r, s, t, u, v, w, m, n : <<r, s, t, u>> = <<v, w, m, n>> => r = v
      OBVIOUS
    <3> QED
      BY <1>3, <3>1, Zenon DEF PointID
  <2> QED
    BY <1>2, <2>1 DEF Transient
<1>6. ~Transient(z) /\ PointID(z) = PointID(y)
  BY <1>4, <1>5, IdentityOfPoints
<1>7. x = z
  BY <1>2, <1>3, <1>6 DEF Distinguished
<1>8. ASSUME NEW w \in Records(c, "points"), PointIdentity(x) = PointIdentity(w)
      PROVE  w = y
  <2>1. PICK i \in DOMAIN c.points, j \in DOMAIN c.points : w = c.points[i] /\ y = c.points[j]
    BY DEF Records, ToSet
  <2>2. i \in Compared(c) /\ j \in Compared(c)
    BY DEF Compared
  <2>3. w.group = y.group
    <3>1. w \in PointsOf(b) /\ y \in PointsOf(b)
      BY <2>1, CapturedFields
    <3>2. PICK p \in Records(b, "points") : p.group = w.group
      BY <3>1 DEF PointsOf
    <3>3. PICK q \in Records(b, "points") : q.group = y.group
      BY <3>1 DEF PointsOf
    <3>4. p.group = q.group
      BY DEF Distinguished
    <3> QED
      BY <3>2, <3>3, <3>4
  <2>4. ~Transient(w)
    BY <1>2, <1>8, IdentityOfPoints
  <2>5. PointIdentity(w) = PointIdentity(y)
    BY <1>4, <1>7, <1>8
  <2>6. i = j
    BY <2>1, <2>2, <2>3, <2>4, <2>5 DEF Duplicated
  <2> QED
    BY <2>1, <2>6
<1> QED
  BY <1>3, <1>4, <1>7, <1>8

(* The metric points are kept as PointsCorrespond states it. *)
LEMMA PointsAreKept ==
  ASSUME baseline \in Baselines, changed \in CapturesOf(baseline), Distinguished(baseline),
         Exercised(baseline), Effective(baseline, changed), MetricsKept(baseline, changed),
         case # "disabled"
  PROVE  PointsCorrespond
<1> DEFINE b == baseline
           c == changed
<1>1. CASE b.points = <<>>
  <2>1. DOMAIN b.points = {} /\ DOMAIN c.points = {}
    BY <1>1, NothingOfNothing
  <2>2. Records(b, "points") = {} /\ Records(c, "points") = {}
    BY <2>1 DEF Records, ToSet
  <2> QED
    BY <2>2 DEF PointsCorrespond
<1>2. CASE MetricIdentities(b) = MetricIdentities(c) /\ ~Duplicated(c)
  <2>1. ASSUME NEW x \in Records(b, "points"), case = "histogram" => x.type = "sum"
        PROVE  \E y \in Records(c, "points") : PointOutcome(x, y)
    <3>1. CASE case = "exemplars-always-on" /\ PointID(x) \in Unsampled(b)
      <4>1. PICK y \in Records(c, "points") :
              PointIdentity(x) = PointIdentity(y) /\ y.exemplars = "valid"
        BY <1>2, <3>1, SampledPoints
      <4> QED
        BY <2>1, <4>1, PointOutcomeFollows
    <3>2. CASE ~(case = "exemplars-always-on" /\ PointID(x) \in Unsampled(b))
      <4>1. PICK y \in Records(c, "points") : PointIdentity(x) = PointIdentity(y)
        BY <1>2, <2>1, ComparedPoints
      <4> QED
        BY <2>1, <3>2, <4>1, PointOutcomeFollows
    <3> QED
      BY <3>1, <3>2
  <2>2. ASSUME NEW y \in Records(c, "points"), case = "histogram" => y.type = "sum"
        PROVE  \E x \in Records(b, "points") : PointOutcome(x, y)
    <3>1. PICK x \in Records(b, "points") : PointIdentity(x) = PointIdentity(y)
      BY <1>2, <2>2, ComparedPoints
    <3>2. x.type = y.type
      BY <3>1, IdentityOfPoints
    <3>3. case = "exemplars-always-on" /\ PointID(x) \in Unsampled(b) => y.exemplars = "valid"
      BY <1>2, <3>1, SampledPoints
    <3> QED
      BY <2>2, <3>1, <3>2, <3>3, PointOutcomeFollows
  <2>3. ASSUME case = "histogram", NEW x \in Records(b, "points"), NEW y \in Records(c, "points"),
               x.type = "histogram", x.count > 0, y.type = "exponential", y.count > 0,
               x.name = y.name, x.state = y.state, Context(x) = Context(y)
        PROVE  PointOutcome(x, y)
    <3>1. x \in PointRecords /\ y \in LoosePoints /\ y \in AllRecords(c)
      BY BaselineFields, CapturedFields DEF Records, ToSet, AllRecords
    <3>2. x.res \in Resources /\ y.res \in LooseResources
      BY <3>1 DEF PointRecords, LoosePoints
    <3>3. SameService(x, y)
      BY <2>3, <3>1, <3>2, ContextServes
    <3>4. Measured(x) = Measured(y)
      BY <2>3 DEF Measured
    <3> QED
      BY <2>3, <3>3, <3>4 DEF PointOutcome
  <2>4. ASSUME case = "histogram"
        PROVE  HistogramsConverted(b, c)
    BY <2>4 DEF Effective, LengthCases, CountCases
  <2>5. /\ \A x \in Records(b, "points") : x.type \in {"histogram", "exponential", "sum"}
        /\ \A y \in Records(c, "points") : y.type \in {"histogram", "exponential", "sum"}
    BY BaselineFields, CapturedFields DEF Records, ToSet, PointRecords, LoosePoints
  <2>6. ASSUME case = "histogram", NEW x \in Records(b, "points"), x.type # "sum"
        PROVE  \E y \in Records(c, "points") : PointOutcome(x, y)
    <3>1. x.type = "histogram" /\ x.count > 0
      BY <2>5, <2>6 DEF Distinguished
    <3>2. PICK y \in Records(c, "points") :
            /\ y.type = "exponential" /\ y.count > 0
            /\ x.name = y.name /\ x.state = y.state /\ Context(x) = Context(y)
      BY <2>4, <2>6, <3>1, ConvertedPoints DEF HistogramsConverted
    <3> QED
      BY <2>3, <2>6, <3>1, <3>2
  <2>7. ASSUME case = "histogram", NEW y \in Records(c, "points"), y.type # "sum"
        PROVE  \E x \in Records(b, "points") : PointOutcome(x, y)
    <3>1. y.type = "exponential" /\ y.count > 0
      BY <2>4, <2>5, <2>7 DEF HistogramsConverted
    <3>2. PICK x \in Records(b, "points") :
            /\ x.type = "histogram" /\ x.count > 0
            /\ x.name = y.name /\ x.state = y.state /\ Context(x) = Context(y)
      BY <2>4, <2>7, <3>1, ConvertedPoints DEF HistogramsConverted
    <3> QED
      BY <2>3, <2>7, <3>1, <3>2
  <2> QED
    BY <2>1, <2>2, <2>6, <2>7 DEF PointsCorrespond
<1> QED
  BY <1>1, <1>2 DEF MetricsKept

(* No export carries more records than the largest. *)
LEMMA BatchesOfOneRecord ==
  ASSUME NEW c, NEW signal, IsFiniteSet(DOMAIN c[signal]), BatchOf(c, signal) = 1,
         NEW i \in DOMAIN c[signal], NEW j \in DOMAIN c[signal],
         c[signal][i].batch = c[signal][j].batch
  PROVE  i = j
<1> DEFINE D == DOMAIN c[signal]
           Alongside(k) == {l \in D : c[signal][l].batch = c[signal][k].batch}
           sizes == [k \in D |-> Cardinality(Alongside(k))]
           S == {sizes[k] : k \in DOMAIN sizes}
<1>1. \A k \in D : IsFiniteSet(Alongside(k))
  BY FS_Subset
<1>2. \A k \in D : Cardinality(Alongside(k)) \in Nat
  <2> HIDE DEF Alongside
  <2> QED
    BY <1>1, FS_CardinalityType
<1>3. DOMAIN sizes = D /\ \A k \in D : sizes[k] = Cardinality(Alongside(k))
  OBVIOUS
<1>4. MaxOf(S) = 1
  <2>1. S = {Cardinality(Alongside(k)) : k \in D}
    OBVIOUS
  <2> HIDE DEF S
  <2> QED
    BY <2>1 DEF BatchOf
<1>5. IsFiniteSet(S) /\ S \in SUBSET Int
  <2> HIDE DEF sizes
  <2>1. IsFiniteSet(S)
    BY <1>3, ImageIsFinite
  <2>2. \A k \in D : sizes[k] \in Int
    <3> HIDE DEF Alongside, D
    <3> QED
      BY <1>2, <1>3
  <2>3. S \in SUBSET Int
    <3> HIDE DEF Alongside, D
    <3> QED
      BY <1>3, <2>2
  <2> QED
    BY <2>1, <2>3
<1>6. Cardinality(Alongside(i)) <= 1
  <2>1. Cardinality(Alongside(i)) \in S
    <3> HIDE DEF Alongside
    <3> QED
      BY <1>3
  <2> HIDE DEF S, Alongside
  <2> QED
    BY <1>4, <1>5, <2>1, NoneExceeds
<1>7. i \in Alongside(i) /\ j \in Alongside(i)
  OBVIOUS
<1>8. Cardinality({i, j}) <= 1
  <2>1. {i, j} \subseteq Alongside(i) /\ IsFiniteSet(Alongside(i))
    BY <1>1, <1>7
  <2>2. /\ IsFiniteSet({i, j}) /\ Cardinality({i, j}) <= Cardinality(Alongside(i))
    <3> HIDE DEF Alongside
    <3> QED
      BY <2>1, FS_Subset
  <2>3. Cardinality({i, j}) \in Nat /\ Cardinality(Alongside(i)) \in Nat
    <3> HIDE DEF Alongside
    <3> QED
      BY <1>2, <2>2, FS_CardinalityType
  <2> HIDE DEF Alongside
  <2> QED
    BY <1>6, <2>2, <2>3
<1> HIDE DEF D, Alongside, sizes, S
<1>9. ASSUME i # j PROVE FALSE
  <2>1. IsFiniteSet({i}) /\ Cardinality({i}) = 1
    BY FS_Singleton
  <2>2. Cardinality({i} \cup {j}) = Cardinality({i}) + 1
    BY <1>9, <2>1, FS_AddElement
  <2>3. {i} \cup {j} = {i, j}
    OBVIOUS
  <2> QED
    BY <1>8, <2>1, <2>2, <2>3
<1> QED
  BY <1>9

(* What the comparison rests on, of one state. *)
LEMMA PassShowsEvidence ==
  ASSUME baseline \in Baselines, changed \in CapturesOf(baseline), Distinguished(baseline),
         case \notin CountCases
  PROVE  PassIsEvidence
<1> SUFFICES ASSUME Verdict(baseline, changed) = "pass" PROVE PassIsEvidence
  BY DEF PassIsEvidence
<1>1. Exercised(baseline) /\ Effective(baseline, changed) /\ AllKept(baseline, changed)
  <2> HIDE DEF PassIsEvidence
  <2> QED
    BY DEF Verdict
<1>2. SpansKept(baseline, changed) /\ LogsKept(baseline, changed)
      /\ MetricsKept(baseline, changed)
  BY <1>1 DEF AllKept
<1>3. case = "disabled" => changed = Nothing
  BY <1>1 DEF Effective, LengthCases, CountCases
<1>4. case = "span-batch" => \A i, j \in DOMAIN changed.spans :
        changed.spans[i].batch = changed.spans[j].batch => i = j
  <2>1. case = "span-batch" => BatchOf(changed, "spans") = 1
    BY <1>1 DEF Effective, LengthCases, CountCases
  <2>2. IsFiniteSet(DOMAIN changed["spans"])
    BY CapturedFields
  <2> QED
    BY <2>1, <2>2, BatchesOfOneRecord
<1>5. case = "log-batch" => \A i, j \in DOMAIN changed.logs :
        changed.logs[i].batch = changed.logs[j].batch => i = j
  <2>1. case = "log-batch" => BatchOf(changed, "logs") = 1
    BY <1>1 DEF Effective, LengthCases, CountCases
  <2>2. IsFiniteSet(DOMAIN changed["logs"])
    BY CapturedFields
  <2> QED
    BY <2>1, <2>2, BatchesOfOneRecord
<1>6. case \in {"sampler", "exemplars-always-on"} => changed.spans = <<>>
  <2>1. case = "sampler" => changed.spans = <<>>
    BY <1>1 DEF Effective, LengthCases, CountCases
  <2>2. case = "exemplars-always-on" => changed.spans = <<>>
    BY <1>1 DEF Effective, LengthCases, CountCases
  <2> QED
    BY <2>1, <2>2
<1>7. case \notin {"disabled", "sampler", "exemplars-always-on"} => SpansCorrespond
  BY <1>1, <1>2, SpansAreKept
<1>8. case # "disabled" => LogsCorrespond /\ PointsCorrespond
  BY <1>1, <1>2, LogsAreKept, PointsAreKept
<1> QED
  BY <1>3, <1>4, <1>5, <1>6, <1>7, <1>8 DEF PassIsEvidence

(* A pass is evidence (evaluate), for every baseline in which the comparison tells *)
(* the records apart: whatever defects the changed capture suffered, its spans,  *)
(* logs and points correspond to those of the baseline as the setting leaves      *)
(* them, each span under the parent that is left of its own.  The settings that   *)
(* limit a count match records greedily and stay with TLC.                      *)
THEOREM PassesAreEvidence ==
  Spec => [](Distinguished(baseline) /\ case \notin CountCases => PassIsEvidence)
<1>1. ASSUME Fields, Remaining, Distinguished(baseline), case \notin CountCases
      PROVE  PassIsEvidence
  <2>1. Descends
    BY <1>1 DEF Remaining, Distinguished
  <2> QED
    BY <1>1, <2>1, PassShowsEvidence DEF Fields, Descends
<1> QED
  BY FieldsAreKept, StaysRemaining, <1>1, PTL

-----------------------------------------------------------------------------
(* The traces of requests whose context was not extracted. *)
NewTraces == {Fresh(trace) : trace \in Incoming}

(* A baseline of disabled propagation: it is well formed, no trace in it is new, *)
(* the requests that continue the probe's context send its user agent, and no    *)
(* span has the identifier of the parent they continue.                        *)
Extractable(b) ==
  /\ ValidStructure(b) /\ ~Duplicated(b)
  /\ \A s \in Records(b, "spans") :
       /\ s.id \notin {Nowhere, Remote} /\ s.trace \notin NewTraces
       /\ s.parent = Remote => /\ IsPropagationProbe(s)
                               /\ \E a \in s.attrs : a.key = "agent" /\ a.len > 0
  /\ \A l \in Records(b, "logs") : l.trace \notin NewTraces

(* The spans of two captures differ at most in their traces, and in their parent *)
(* where it is the remote one.                                                *)
Extracted(b, c) ==
  /\ DOMAIN b.spans = DOMAIN c.spans
  /\ \A i \in DOMAIN b.spans :
       /\ c.spans[i].trace = Fresh(b.spans[i].trace) /\ b.spans[i].id = c.spans[i].id
       /\ c.spans[i].parent = IF b.spans[i].parent = Remote THEN Nowhere ELSE b.spans[i].parent
       /\ b.spans[i].name = c.spans[i].name /\ b.spans[i].server = c.spans[i].server
       /\ b.spans[i].attrs = c.spans[i].attrs
       /\ Whole(b.spans[i]) = Whole(c.spans[i])
       /\ Context(b.spans[i]) = Context(c.spans[i])
       /\ IsPropagationProbe(b.spans[i]) <=> IsPropagationProbe(c.spans[i])

(* Such are the baseline and what an SDK exports that extracts no context. *)
LEMMA ExtractedSpans ==
  ASSUME NEW b \in Baselines, Extractable(b), case = "propagation-none"
  PROVE  Extracted(b, Obeying(b))
<1> DEFINE c == Obeying(b)
<1>1. /\ DOMAIN c.spans = DOMAIN b.spans
      /\ \A i \in DOMAIN b.spans : c.spans[i] = ObeyingSpan(b.spans[i], i)
  BY ObeyingFields
<1> HIDE DEF c
<1>2. ASSUME NEW i \in DOMAIN b.spans
      PROVE  LET x == b.spans[i]
                 y == c.spans[i]
             IN /\ y.trace = Fresh(x.trace) /\ x.id = y.id
                /\ y.parent = IF x.parent = Remote THEN Nowhere ELSE x.parent
                /\ x.name = y.name /\ x.server = y.server /\ x.attrs = y.attrs
                /\ Whole(x) = Whole(y) /\ Context(x) = Context(y)
                /\ IsPropagationProbe(x) <=> IsPropagationProbe(y)
  <2> DEFINE x == b.spans[i]
             y == c.spans[i]
             t == Fresh(x.trace)
             p == IF x.parent = Remote THEN Nowhere ELSE x.parent
  <2>1. x \in SpanRecords /\ x \in Records(b, "spans")
    BY BaselineFields DEF Records, ToSet
  <2>2. y = [x EXCEPT !.trace = t, !.parent = p]
    <3>1. y = [x EXCEPT !.trace = Fresh(@), !.parent = IF @ = Remote THEN Nowhere ELSE @]
      BY <1>1 DEF ObeyingSpan
    <3>2. "trace" \in DOMAIN x /\ "parent" \in DOMAIN x
      BY <2>1 DEF SpanRecords
    <3> HIDE DEF x, y
    <3> QED
      BY <3>1, <3>2
  <2>3. DOMAIN x = {"id", "trace", "parent", "name", "server", "attrs", "dropped", "events",
                    "lost", "res", "batch"}
    BY <2>1 DEF SpanRecords
  <2>4. x.parent = Remote => /\ IsPropagationProbe(x)
                             /\ \E a \in x.attrs : a.key = "agent" /\ a.len > 0
    BY <2>1 DEF Extractable
  <2>9. x.server \in BOOLEAN
    BY <2>1 DEF SpanRecords
  <2> HIDE DEF x, y, t, p
  <2>5. /\ y.trace = t /\ y.parent = p /\ x.id = y.id /\ x.name = y.name /\ x.server = y.server
        /\ x.attrs = y.attrs /\ x.dropped = y.dropped /\ x.events = y.events /\ x.lost = y.lost
        /\ x.res = y.res
    BY <2>2, <2>3
  <2>6. Whole(x) = Whole(y) /\ Context(x) = Context(y)
    BY <2>5 DEF Whole, Context
  <2>7. IsPropagationProbe(x) <=> IsPropagationProbe(y)
    <3>1. y.parent # Remote
      BY <2>5 DEF p, Nowhere, Remote
    <3> QED
      BY <2>4, <2>5, <2>9, <3>1 DEF IsPropagationProbe
  <2> QED
    BY <2>5, <2>6, <2>7 DEF x, y, t, p
<1> QED
  BY <1>1, <1>2 DEF Extracted, c

(* No trace of the baseline becomes another's. *)
LEMMA FreshKeepsApart ==
  ASSUME NEW m \in Nat, NEW n \in Nat, m \notin NewTraces, n \notin NewTraces
  PROVE  /\ Fresh(m) = Fresh(n) <=> m = n
         /\ Fresh(m) = 0 <=> m = 0
<1>1. \A k \in Nat : IF k \in Incoming THEN Fresh(k) = 200 + k /\ Fresh(k) \in NewTraces
                     ELSE Fresh(k) = k
  BY DEF Fresh, NewTraces
<1>2. Incoming \subseteq Nat /\ 0 \notin Incoming
  BY DEF Incoming
<1> QED
  BY <1>1, <1>2

(* The spans of the baseline that a trace and an identifier are of are the same. *)
LEMMA ExtractedPlaces ==
  ASSUME NEW b \in Baselines, Extractable(b), NEW c, Extracted(b, c)
  PROVE  /\ \A trace \in Nat \ NewTraces : \A id : At(b, trace, id) = At(c, Fresh(trace), id)
         /\ \A i \in DOMAIN b.spans : b.spans[i].trace \in Nat \ NewTraces
         /\ WorkloadTraces(c) = {Fresh(trace) : trace \in WorkloadTraces(b)}
         /\ WorkloadTraces(b) \subseteq Nat \ NewTraces
         /\ WorkloadSpans(b) = WorkloadSpans(c)
<1> DEFINE x(i) == b.spans[i]
           y(i) == c.spans[i]
           D == DOMAIN b.spans
<1>1. DOMAIN c.spans = D
  BY DEF Extracted
<1>2. ASSUME NEW i \in D
      PROVE  /\ x(i).trace \in Nat \ NewTraces
             /\ y(i).trace = Fresh(x(i).trace) /\ x(i).id = y(i).id
             /\ IsProbeServer(x(i)) <=> IsProbeServer(y(i))
  <2>1. x(i) \in SpanRecords /\ x(i) \in Records(b, "spans")
    BY BaselineFields DEF Records, ToSet
  <2>2. x(i).trace \in Nat \ NewTraces /\ x(i).server \in BOOLEAN
    BY <2>1 DEF SpanRecords, Extractable
  <2> QED
    BY <2>2 DEF Extracted, IsProbeServer
<1>3. \A trace \in Nat \ NewTraces : \A id : At(b, trace, id) = At(c, Fresh(trace), id)
  <2> SUFFICES ASSUME NEW trace \in Nat \ NewTraces, NEW id
               PROVE  At(b, trace, id) = At(c, Fresh(trace), id)
    OBVIOUS
  <2>1. \A i \in D : x(i).trace = trace <=> y(i).trace = Fresh(trace)
    BY <1>2, FreshKeepsApart
  <2> QED
    BY <1>1, <1>2, <2>1 DEF At
<1>4. /\ WorkloadTraces(b) = {x(i).trace : i \in {i \in D : IsProbeServer(x(i))}} \ {0}
      /\ WorkloadTraces(c) = {y(i).trace : i \in {i \in D : IsProbeServer(y(i))}} \ {0}
  BY <1>1, SameRecords DEF WorkloadTraces
<1>0. 0 \in Nat \ NewTraces /\ Fresh(0) = 0
  BY DEF NewTraces, Fresh, Incoming
<1> HIDE DEF x, y, D
<1>5. WorkloadTraces(b) \subseteq Nat \ NewTraces
  BY <1>2, <1>4
<1>6. \A i \in D : y(i).trace = 0 <=> x(i).trace = 0
  BY <1>2, FreshKeepsApart
<1>7. WorkloadTraces(c) = {Fresh(trace) : trace \in WorkloadTraces(b)}
  <2>1. ASSUME NEW u \in WorkloadTraces(c)
        PROVE  \E trace \in WorkloadTraces(b) : u = Fresh(trace)
    BY <1>2, <1>4, <1>6
  <2>2. ASSUME NEW trace \in WorkloadTraces(b)
        PROVE  Fresh(trace) \in WorkloadTraces(c)
    BY <1>2, <1>4, <1>6
  <2> QED
    BY <2>1, <2>2
<1>8. ASSUME NEW i \in D
      PROVE  x(i).trace \in WorkloadTraces(b) <=> y(i).trace \in WorkloadTraces(c)
  <2>1. ASSUME NEW trace \in WorkloadTraces(b), Fresh(trace) = Fresh(x(i).trace)
        PROVE  trace = x(i).trace
    BY <1>2, <1>5, <2>1, FreshKeepsApart
  <2> QED
    BY <1>2, <1>7, <2>1
<1>9. WorkloadSpans(b) = WorkloadSpans(c)
  BY <1>1, <1>8 DEF WorkloadSpans, x, y, D
<1> QED
  BY <1>2, <1>3, <1>5, <1>7, <1>9 DEF x, D

(* Values that are the same up to their order are there equally often. *)
LEMMA RenamedCounts ==
  ASSUME NEW f, NEW g, NEW h \in Bijection(DOMAIN f, DOMAIN g), IsFiniteSet(DOMAIN f),
         \A i \in DOMAIN f : g[h[i]] = f[i]
  PROVE  Counts(f) = Counts(g)
<1> DEFINE A(v) == {i \in DOMAIN f : f[i] = v}
           B(v) == {j \in DOMAIN g : g[j] = v}
<1>1. /\ h \in [DOMAIN f -> DOMAIN g]
      /\ \A i, j \in DOMAIN f : h[i] = h[j] => i = j
      /\ \A j \in DOMAIN g : \E i \in DOMAIN f : h[i] = j
  BY Fun_BijectionProperties, Fun_SurjectionProperties
<1>2. {f[i] : i \in DOMAIN f} = {g[j] : j \in DOMAIN g}
  <2>1. \A i \in DOMAIN f : \E j \in DOMAIN g : g[j] = f[i]
    BY <1>1
  <2>2. \A j \in DOMAIN g : \E i \in DOMAIN f : g[j] = f[i]
    BY <1>1
  <2> QED
    BY <2>1, <2>2
<1>3. ASSUME NEW v
      PROVE  Cardinality(A(v)) = Cardinality(B(v))
  <2> DEFINE k == [i \in A(v) |-> h[i]]
  <2>1. /\ k \in [A(v) -> B(v)]
        /\ \A i, j \in A(v) : k[i] = k[j] => i = j
        /\ \A j \in B(v) : \E i \in A(v) : k[i] = j
    BY <1>1
  <2>2. IsFiniteSet(A(v))
    BY FS_Subset
  <2> HIDE DEF k, A, B
  <2>3. k \in Bijection(A(v), B(v))
    BY <2>1, Fun_IsBij
  <2>4. ExistsBijection(A(v), B(v))
    BY <2>3 DEF ExistsBijection
  <2> QED
    BY <2>2, <2>4, FS_Bijection
<1>4. /\ Counts(f) = [v \in {f[i] : i \in DOMAIN f} |-> Cardinality(A(v))]
      /\ Counts(g) = [v \in {g[i] : i \in DOMAIN g} |-> Cardinality(B(v))]
  BY DEF Counts
<1> HIDE DEF A, B
<1> QED
  BY <1>2, <1>3, <1>4

(* Parents, identities and traces are those of the baseline, but for the requests *)
(* that are new roots, of which no parent is compared.                         *)
LEMMA ExtractedRelationship ==
  ASSUME NEW b \in Baselines, Extractable(b), NEW c, Extracted(b, c), case = "propagation-none",
         NEW i \in DOMAIN b.spans
  PROVE  Relationship(b, b.spans[i]) = Relationship(c, c.spans[i])
<1> DEFINE x == b.spans[i]
           y == c.spans[i]
           parents == At(b, x.trace, x.parent)
           p == Smallest(parents)
<1>1. /\ IsPropagationProbe(x) <=> IsPropagationProbe(y)
      /\ y.trace = Fresh(x.trace)
      /\ y.parent = IF x.parent = Remote THEN Nowhere ELSE x.parent
  BY DEF Extracted
<1>2. x.parent = Remote => IsPropagationProbe(x)
  <2>1. x \in Records(b, "spans")
    BY DEF Records, ToSet
  <2> HIDE DEF x
  <2> QED
    BY <2>1 DEF Extractable
<1>3. At(c, y.trace, x.parent) = parents
  BY <1>1, ExtractedPlaces
<1>4. parents # {} => b.spans[p].name = c.spans[p].name /\ Context(b.spans[p]) = Context(c.spans[p])
  <2>1. parents \subseteq DOMAIN b.spans /\ DOMAIN b.spans \subseteq Nat
    BY BaselineFields DEF At
  <2> HIDE DEF parents
  <2>2. parents # {} => p \in DOMAIN b.spans
    BY <2>1, SmallestIsIn
  <2> QED
    BY <2>2 DEF Extracted
<1>5. At(b, x.trace, x.parent) = parents /\ p = Smallest(parents)
  OBVIOUS
<1> HIDE DEF x, y, parents, p
<1>6. ASSUME IsPropagationProbe(x)
      PROVE  Relationship(b, x) = Relationship(c, y)
  BY <1>1, <1>6 DEF Relationship
<1>7. ASSUME ~IsPropagationProbe(x)
      PROVE  Relationship(b, x) = Relationship(c, y)
  <2>1. x.parent = y.parent /\ ~IsPropagationProbe(y) /\ At(c, y.trace, y.parent) = parents
    BY <1>1, <1>2, <1>3, <1>7
  <2>2. CASE x.parent = Nowhere
    BY <1>7, <2>1, <2>2 DEF Relationship
  <2>3. CASE x.parent # Nowhere /\ parents # {}
    BY <1>4, <1>5, <1>7, <2>1, <2>3 DEF Relationship
  <2>4. CASE x.parent # Nowhere /\ parents = {}
    BY <1>5, <1>7, <2>1, <2>4 DEF Relationship
  <2> QED
    BY <2>2, <2>3, <2>4
<1> QED
  BY <1>6, <1>7 DEF x, y

(* Every trace has as many spans, requests and roots as the one it stands for. *)
LEMMA ExtractedPartitions ==
  ASSUME NEW b \in Baselines, Extractable(b), NEW c, Extracted(b, c)
  PROVE  Partitions(b) = Partitions(c)
<1> DEFINE Members(d, trace) == {i \in DOMAIN d.spans : d.spans[i].trace = trace}
           Entry(d, trace) ==
             <<Cardinality(Members(d, trace)),
               Cardinality({i \in Members(d, trace) : IsProbeServer(d.spans[i])}),
               Cardinality({i \in Members(d, trace) : \A j \in Members(d, trace) :
                              d.spans[j].id # d.spans[i].parent})>>
           D == DOMAIN b.spans
<1>1. ASSUME NEW i \in D
      PROVE  /\ b.spans[i].trace \in Nat \ NewTraces
             /\ c.spans[i].trace = Fresh(b.spans[i].trace) /\ b.spans[i].id = c.spans[i].id
             /\ b.spans[i].id \notin {Nowhere, Remote}
             /\ c.spans[i].parent = IF b.spans[i].parent = Remote THEN Nowhere ELSE b.spans[i].parent
             /\ IsProbeServer(b.spans[i]) <=> IsProbeServer(c.spans[i])
  <2>1. b.spans[i] \in SpanRecords /\ b.spans[i] \in Records(b, "spans")
    BY BaselineFields DEF Records, ToSet
  <2>2. b.spans[i].server \in BOOLEAN /\ b.spans[i].trace \in Nat
    BY <2>1 DEF SpanRecords
  <2>3. b.spans[i].id \notin {Nowhere, Remote} /\ b.spans[i].trace \notin NewTraces
    BY <2>1 DEF Extractable
  <2> QED
    BY <2>2, <2>3 DEF Extracted, IsProbeServer
<1>2. ASSUME NEW trace \in Nat \ NewTraces
      PROVE  Entry(b, trace) = Entry(c, Fresh(trace))
  <2> DEFINE M == Members(b, trace)
             N == Members(c, Fresh(trace))
  <2>1. M = N /\ M \subseteq D
    <3>1. \A i \in D : b.spans[i].trace = trace <=> c.spans[i].trace = Fresh(trace)
      BY <1>1, FreshKeepsApart
    <3> QED
      BY <3>1 DEF Extracted
  <2> HIDE DEF M, N
  <2>2. {i \in M : IsProbeServer(b.spans[i])} = {i \in N : IsProbeServer(c.spans[i])}
    BY <1>1, <2>1
  <2>3. {i \in M : \A j \in M : b.spans[j].id # b.spans[i].parent}
          = {i \in N : \A j \in N : c.spans[j].id # c.spans[i].parent}
    <3>1. \A i, j \in M : b.spans[j].id # b.spans[i].parent <=> c.spans[j].id # c.spans[i].parent
      BY <1>1, <2>1 DEF Nowhere, Remote
    <3> QED
      BY <2>1, <3>1
  <2>4. /\ Entry(b, trace) = <<Cardinality(M), Cardinality({i \in M : IsProbeServer(b.spans[i])}),
             Cardinality({i \in M : \A j \in M : b.spans[j].id # b.spans[i].parent})>>
        /\ Entry(c, Fresh(trace)) =
             <<Cardinality(N), Cardinality({i \in N : IsProbeServer(c.spans[i])}),
               Cardinality({i \in N : \A j \in N : c.spans[j].id # c.spans[i].parent})>>
    BY DEF M, N
  <2> HIDE DEF Entry
  <2> QED
    BY <2>1, <2>2, <2>3, <2>4
<1> DEFINE f == [trace \in WorkloadTraces(b) |-> Entry(b, trace)]
           g == [trace \in WorkloadTraces(c) |-> Entry(c, trace)]
           h == [trace \in WorkloadTraces(b) |-> Fresh(trace)]
<1>3. Partitions(b) = Counts(f) /\ Partitions(c) = Counts(g)
  BY DEF Partitions
<1> HIDE DEF Entry, Members
<1>4. /\ WorkloadTraces(c) = {Fresh(trace) : trace \in WorkloadTraces(b)}
      /\ WorkloadTraces(b) \subseteq Nat \ NewTraces
  BY ExtractedPlaces
<1>5. h \in Bijection(DOMAIN f, DOMAIN g)
  <2>1. /\ h \in [DOMAIN f -> DOMAIN g]
        /\ \A u, v \in DOMAIN f : h[u] = h[v] => u = v
        /\ \A v \in DOMAIN g : \E u \in DOMAIN f : h[u] = v
    BY <1>4, FreshKeepsApart
  <2> HIDE DEF f, g, h
  <2> QED
    BY <2>1, Fun_IsBij
<1>6. \A trace \in DOMAIN f : g[h[trace]] = f[trace]
  BY <1>2, <1>4
<1>7. IsFiniteSet(DOMAIN f)
  <2> DEFINE k == [i \in D |-> b.spans[i].trace]
  <2>1. IsFiniteSet(D)
    BY FiniteSpans
  <2>2. IsFiniteSet({k[i] : i \in DOMAIN k})
    <3>1. IsFiniteSet(DOMAIN k)
      BY <2>1
    <3> HIDE DEF k
    <3> QED
      BY <3>1, ImageIsFinite
  <2>3. WorkloadTraces(b) \subseteq {k[i] : i \in DOMAIN k}
    BY SameRecords DEF WorkloadTraces
  <2>4. DOMAIN f = WorkloadTraces(b)
    OBVIOUS
  <2> HIDE DEF k, f
  <2> QED
    BY <2>2, <2>3, <2>4, FS_Subset
<1> HIDE DEF f, g, h
<1> QED
  BY <1>3, <1>5, <1>6, <1>7, RenamedCounts

(* The spans are the same as before (matchingWorkloadIdentityCounts). *)
LEMMA ExtractedAreSame ==
  ASSUME NEW b \in Baselines, Extractable(b), NEW c, Extracted(b, c), case = "propagation-none"
  PROVE  SameSpans(b, c)
<1> DEFINE W == WorkloadSpans(b)
           D == DOMAIN b.spans
<1>1. W = WorkloadSpans(c) /\ W \subseteq D /\ DOMAIN c.spans = D
  BY ExtractedPlaces DEF WorkloadSpans, Extracted
<1>2. ASSUME NEW i \in D
      PROVE  SpanIdentity(b, b.spans[i]) = SpanIdentity(c, c.spans[i])
  <2>1. Relationship(b, b.spans[i]) = Relationship(c, c.spans[i])
    BY ExtractedRelationship
  <2>2. Whole(b.spans[i]) = Whole(c.spans[i]) /\ Context(b.spans[i]) = Context(c.spans[i])
    BY DEF Extracted
  <2>3. \A s : SpanForm(s) = Whole(s)
    BY DEF SpanForm, CountCases
  <2> QED
    BY <2>1, <2>2, <2>3 DEF SpanIdentity
<1>3. [i \in WorkloadSpans(b) |-> SpanIdentity(b, b.spans[i])]
        = [i \in WorkloadSpans(c) |-> SpanIdentity(c, c.spans[i])]
  BY <1>1, <1>2
<1>4. ASSUME NEW i \in D
      PROVE  /\ b.spans[i].trace \in Nat \ NewTraces
             /\ c.spans[i].trace = Fresh(b.spans[i].trace) /\ b.spans[i].id = c.spans[i].id
             /\ IsProbeServer(b.spans[i]) <=> IsProbeServer(c.spans[i])
  <2>1. b.spans[i] \in SpanRecords
    BY BaselineFields
  <2>2. b.spans[i].server \in BOOLEAN
    BY <2>1 DEF SpanRecords
  <2> QED
    BY <2>2, ExtractedPlaces DEF Extracted, IsProbeServer
<1>5. ValidStructure(c)
  <2>1. ASSUME NEW s \in Records(c, "spans"), IsProbeServer(s)
        PROVE  s.trace # 0
    <3>1. PICK i \in D : s = c.spans[i]
      BY <1>1, SameRecords
    <3>2. b.spans[i].trace # 0
      BY <1>4, <2>1, <3>1, SameRecords DEF Extractable, ValidStructure
    <3> QED
      BY <1>4, <3>1, <3>2, FreshKeepsApart
  <2>2. ASSUME NEW i \in W, NEW j \in W, i # j
        PROVE  <<c.spans[i].trace, c.spans[i].id>> # <<c.spans[j].trace, c.spans[j].id>>
    <3>1. <<b.spans[i].trace, b.spans[i].id>> # <<b.spans[j].trace, b.spans[j].id>>
      BY <2>2 DEF Extractable, ValidStructure
    <3>2. i \in D /\ j \in D
      BY <1>1
    <3>3. b.spans[i].trace = b.spans[j].trace <=> c.spans[i].trace = c.spans[j].trace
      BY <1>4, <3>2, FreshKeepsApart
    <3> QED
      BY <1>4, <3>1, <3>2, <3>3
  <2> QED
    BY <1>1, <2>1, <2>2 DEF ValidStructure
<1> QED
  BY <1>3, <1>5, ExtractedPartitions DEF SameSpans

(* The logs are in the context of the same spans as before (logCorrelationID). *)
LEMMA ExtractedLogs ==
  ASSUME NEW b \in Baselines, Extractable(b), NEW c, Extracted(b, c), case = "propagation-none",
         NEW x \in LogRecords, x.trace \notin NewTraces, NEW y,
         y.trace = Fresh(x.trace), y.span = x.span
  PROVE  Correlation(b, x) = Correlation(c, y)
<1> DEFINE at == At(b, x.trace, x.span)
           k == Smallest(at)
<1>1. x.trace \in Nat \ NewTraces
  BY DEF LogRecords
<1>2. At(c, y.trace, y.span) = at
  BY <1>1, ExtractedPlaces
<1>3. y.trace = 0 <=> x.trace = 0
  BY <1>1, FreshKeepsApart
<1>4. (\E i \in WorkloadSpans(b) : b.spans[i].trace = x.trace /\ IsPropagationProbe(b.spans[i]))
        <=> (\E i \in WorkloadSpans(c) :
               c.spans[i].trace = y.trace /\ IsPropagationProbe(c.spans[i]))
  <2>1. WorkloadSpans(b) = WorkloadSpans(c) /\ WorkloadSpans(b) \subseteq DOMAIN b.spans
    BY ExtractedPlaces DEF WorkloadSpans
  <2>2. \A i \in DOMAIN b.spans : b.spans[i].trace = x.trace <=> c.spans[i].trace = y.trace
    BY <1>1, ExtractedPlaces, FreshKeepsApart DEF Extracted
  <2> QED
    BY <2>1, <2>2 DEF Extracted
<1>5. at # {} => /\ Whole(b.spans[k]) = Whole(c.spans[k])
                 /\ Context(b.spans[k]) = Context(c.spans[k])
  <2>1. at \subseteq DOMAIN b.spans /\ DOMAIN b.spans \subseteq Nat
    BY BaselineFields DEF At
  <2> HIDE DEF at
  <2>2. at # {} => k \in DOMAIN b.spans
    BY <2>1, SmallestIsIn
  <2> QED
    BY <2>2 DEF Extracted
<1>6. \A n : Occurrence(b, n) = Occurrence(c, n)
  <2>1. [j \in DOMAIN b.spans |-> <<b.spans[j].name, Context(b.spans[j])>>]
          = [j \in DOMAIN c.spans |-> <<c.spans[j].name, Context(c.spans[j])>>]
    BY DEF Extracted
  <2> QED
    BY <2>1 DEF Occurrence
<1>7. at = At(b, x.trace, x.span) /\ k = Smallest(at)
  OBVIOUS
<1> HIDE DEF at, k
<1> DEFINE P == \E i \in WorkloadSpans(b) :
                  b.spans[i].trace = x.trace /\ IsPropagationProbe(b.spans[i])
           Q == \E i \in WorkloadSpans(c) :
                  c.spans[i].trace = y.trace /\ IsPropagationProbe(c.spans[i])
<1>8. CASE x.trace = 0 \/ x.span = 0
  BY <1>3, <1>8 DEF Correlation
<1>9. CASE x.trace # 0 /\ x.span # 0
  <2>1. Correlation(b, x) =
          IF P THEN IF at = {} THEN <<"probe unmatched">>
                    ELSE <<"probe matched", Whole(b.spans[k]), Context(b.spans[k])>>
          ELSE IF at = {} THEN <<"unmatched">> ELSE <<"matched", Occurrence(b, k)>>
    BY <1>7, <1>9 DEF Correlation
  <2>2. Correlation(c, y) =
          IF Q THEN IF at = {} THEN <<"probe unmatched">>
                    ELSE <<"probe matched", Whole(c.spans[k]), Context(c.spans[k])>>
          ELSE IF at = {} THEN <<"unmatched">> ELSE <<"matched", Occurrence(c, k)>>
    BY <1>2, <1>3, <1>7, <1>9 DEF Correlation
  <2>3. P <=> Q
    BY <1>4
  <2> HIDE DEF P, Q
  <2>4. CASE at = {}
    <3>1. CASE P
      BY <2>1, <2>2, <2>3, <2>4, <3>1
    <3>2. CASE ~P
      BY <2>1, <2>2, <2>3, <2>4, <3>2
    <3> QED
      BY <3>1, <3>2
  <2>5. CASE at # {}
    <3>1. <<"probe matched", Whole(b.spans[k]), Context(b.spans[k])>>
            = <<"probe matched", Whole(c.spans[k]), Context(c.spans[k])>>
      BY <1>5, <2>5, Zenon
    <3>2. <<"matched", Occurrence(b, k)>> = <<"matched", Occurrence(c, k)>>
      BY <1>6, Zenon
    <3> HIDE DEF k
    <3>3. CASE P
      BY <2>1, <2>2, <2>3, <2>5, <3>1, <3>3
    <3>4. CASE ~P
      BY <2>1, <2>2, <2>3, <2>5, <3>2, <3>4
    <3> QED
      BY <3>3, <3>4
  <2> QED
    BY <2>4, <2>5
<1> QED
  BY <1>8, <1>9

(* Every request has a trace of its own, and that is seen (evaluate). *)
LEMMA SeenNewTraces ==
  ASSUME NEW b \in Baselines, Extractable(b), case = "propagation-none", Probes <= 200,
         NEW c, Extracted(b, c), Exercised(b)
  PROVE  Effective(b, c)
<1> DEFINE D == DOMAIN b.spans
           R == {i \in ProbeSpans(b) : b.spans[i].parent = Remote}
           S == {i \in ProbeSpans(c) : c.spans[i].parent = Nowhere}
           f == [i \in S |-> c.spans[i].trace]
           T == {f[i] : i \in DOMAIN f} \ (Incoming \cup {0})
           N == {200 + t : t \in Incoming}
<1>1. ProbeSpans(c) = ProbeSpans(b) /\ ProbeSpans(b) \subseteq D
  BY DEF ProbeSpans, Extracted
<1>2. /\ Cardinality(ProbeSpans(b)) = Probes
      /\ Cardinality({b.spans[i].trace : i \in R} \cap Incoming) = Probes
  BY DEF Exercised, LengthCases, CountCases
<1>3. IsFiniteSet(ProbeSpans(b)) /\ Probes \in Nat
  BY <1>1, FiniteSpans, FS_Subset, ExperimentsAssumption
<1>4. IsFiniteSet(Incoming) /\ Cardinality(Incoming) = Probes /\ Incoming \subseteq Nat
  <2>1. Cardinality(1 .. Probes) = IF 1 > Probes THEN 0 ELSE Probes - 1 + 1
    BY <1>3, FS_Interval
  <2> QED
    BY <1>3, <2>1, FS_Interval, ExperimentsAssumption DEF Incoming
<1>5. Incoming \subseteq {b.spans[i].trace : i \in R}
  <2> DEFINE U == {b.spans[i].trace : i \in R} \cap Incoming
  <2>1. U \subseteq Incoming /\ Cardinality(U) = Cardinality(Incoming)
    BY <1>2, <1>4
  <2> HIDE DEF U
  <2>2. U = Incoming
    BY <1>4, <2>1, FS_Subset
  <2> QED
    BY <2>2 DEF U
<1>6. N \subseteq T
  <2> SUFFICES ASSUME NEW t \in Incoming
               PROVE  200 + t \in T
    OBVIOUS
  <2>1. PICK i \in R : b.spans[i].trace = t
    BY <1>5
  <2>2. i \in S /\ c.spans[i].trace = 200 + t
    BY <1>1, <2>1 DEF Extracted, Fresh
  <2>3. 200 + t \notin Incoming \cup {0}
    BY <1>3, <1>4 DEF Incoming
  <2> QED
    BY <2>2, <2>3
<1>7. Cardinality(N) = Probes
  <2> DEFINE h == [t \in Incoming |-> 200 + t]
  <2>1. /\ h \in [Incoming -> N] /\ \A t, u \in Incoming : h[t] = h[u] => t = u
        /\ \A n \in N : \E t \in Incoming : h[t] = n
    BY <1>4
  <2> HIDE DEF h, N
  <2>2. h \in Bijection(Incoming, N)
    BY <2>1, Fun_IsBij
  <2>3. ExistsBijection(Incoming, N)
    BY <2>2 DEF ExistsBijection
  <2> QED
    BY <1>4, <2>3, FS_Bijection
<1>8. IsFiniteSet(T) /\ Cardinality(T) <= Probes
  <2>1. IsFiniteSet(S) /\ Cardinality(S) <= Probes
    <3>1. S \subseteq ProbeSpans(b)
      BY <1>1
    <3> HIDE DEF S
    <3> QED
      BY <1>2, <1>3, <3>1, FS_Subset
  <2>2. DOMAIN f = S /\ f \in [S -> {f[i] : i \in S}]
    OBVIOUS
  <2>3. T \subseteq {f[i] : i \in DOMAIN f}
    OBVIOUS
  <2> HIDE DEF f, S, T
  <2>4. IsFiniteSet({f[i] : i \in DOMAIN f})
    BY <2>1, <2>2, ImageIsFinite
  <2>5. Cardinality({f[i] : i \in S}) <= Cardinality(S)
    <3>1. f \in Surjection(S, {f[i] : i \in S})
      BY <2>2, Fun_IsSurj
    <3> QED
      BY <2>1, <3>1, FS_Surjection
  <2>6. IsFiniteSet(T) /\ Cardinality(T) <= Cardinality({f[i] : i \in DOMAIN f})
    BY <2>3, <2>4, FS_Subset
  <2>7. Cardinality(T) \in Nat /\ Cardinality(S) \in Nat /\ Cardinality({f[i] : i \in S}) \in Nat
    BY <2>1, <2>2, <2>4, <2>6, FS_CardinalityType
  <2> QED
    BY <1>3, <2>1, <2>2, <2>5, <2>6, <2>7
<1>9. Cardinality(T) = Probes
  <2> HIDE DEF T, N
  <2>1. IsFiniteSet(N) /\ Cardinality(N) <= Cardinality(T)
    BY <1>6, <1>8, FS_Subset
  <2>2. Cardinality(T) \in Nat
    BY <1>8, FS_CardinalityType
  <2> QED
    BY <1>3, <1>7, <1>8, <2>1, <2>2
<1>10. T = {c.spans[i].trace : i \in S} \ (Incoming \cup {0})
  OBVIOUS
<1>11. Cardinality(ProbeSpans(c)) = Probes
  BY <1>1, <1>2
<1>12. Cardinality({c.spans[i].trace : i \in S} \ (Incoming \cup {0})) = Probes
  <2> HIDE DEF T, S
  <2> QED
    BY <1>9, <1>10
<1> QED
  BY <1>11, <1>12 DEF Effective, LengthCases, CountCases

(* Everything is kept. *)
LEMMA ExtractedIsKept ==
  ASSUME NEW b \in Baselines, Extractable(b), case = "propagation-none", Exercised(b)
  PROVE  AllKept(b, Obeying(b))
<1> DEFINE c == Obeying(b)
<1>1. Extracted(b, c)
  BY ExtractedSpans
<1>2. WorkloadSpans(b) # {}
  <2>1. Cardinality({b.spans[i].trace : i \in {i \in ProbeSpans(b) : b.spans[i].parent = Remote}}
                      \cap Incoming) = Probes
    BY DEF Exercised, LengthCases, CountCases
  <2>2. Cardinality({}) = 0 /\ Probes # 0
    BY FS_EmptySet, ExperimentsAssumption
  <2>3. PICK i \in ProbeSpans(b) : b.spans[i].parent = Remote /\ b.spans[i].trace \in Incoming
    <3> DEFINE U == {b.spans[i].trace : i \in {i \in ProbeSpans(b) : b.spans[i].parent = Remote}}
                      \cap Incoming
    <3>1. U # {}
      <4> HIDE DEF U
      <4> QED
        BY <2>1, <2>2 DEF U
    <3> QED
      BY <3>1
  <2>4. i \in DOMAIN b.spans /\ b.spans[i] \in Records(b, "spans")
    BY DEF ProbeSpans, Records, ToSet
  <2>5. IsPropagationProbe(b.spans[i]) /\ b.spans[i].trace # 0
    BY <2>3, <2>4 DEF Extractable, Incoming
  <2> QED
    BY <2>4, <2>5 DEF WorkloadSpans, WorkloadTraces, IsProbeServer, IsPropagationProbe
<1>3. SpansKept(b, c)
  <2>1. SameSpans(b, c)
    BY <1>1, ExtractedAreSame
  <2> HIDE DEF c
  <2> QED
    BY <1>2, <2>1 DEF SpansKept
<1>4. LogsKept(b, c)
  <2>1. DOMAIN c.logs = DOMAIN b.logs /\ \A i \in DOMAIN b.logs : c.logs[i] = ObeyingLog(b.logs[i], i)
    BY ObeyingFields
  <2> HIDE DEF c
  <2>2. ASSUME NEW i \in DOMAIN b.logs
        PROVE  <<LogForm(b.logs[i]), Context(b.logs[i]), Correlation(b, b.logs[i])>>
                 = <<LogForm(c.logs[i]), Context(c.logs[i]), Correlation(c, c.logs[i])>>
    <3> DEFINE x == b.logs[i]
               y == c.logs[i]
               t == Fresh(x.trace)
    <3>1. x \in LogRecords /\ x.trace \notin NewTraces
      BY BaselineFields DEF Extractable, Records, ToSet
    <3>2. y = [x EXCEPT !.trace = t]
      BY <2>1 DEF ObeyingLog
    <3>3. DOMAIN x = {"body", "attrs", "dropped", "trace", "span", "res", "batch"}
      BY <3>1 DEF LogRecords
    <3> HIDE DEF x, y, t
    <3>4. /\ y.trace = t /\ y.span = x.span /\ y.body = x.body /\ y.attrs = x.attrs
          /\ y.dropped = x.dropped /\ y.res = x.res
      BY <3>2, <3>3
    <3>5. LogForm(x) = LogForm(y) /\ Context(x) = Context(y)
      BY <3>4 DEF LogForm, Context
    <3>6. Correlation(b, x) = Correlation(c, y)
      BY <1>1, <3>1, <3>4, ExtractedLogs DEF t
    <3> QED
      BY <3>5, <3>6 DEF x, y
  <2>3. [i \in DOMAIN b.logs |->
           <<LogForm(b.logs[i]), Context(b.logs[i]), Correlation(b, b.logs[i])>>]
          = [i \in DOMAIN c.logs |->
               <<LogForm(c.logs[i]), Context(c.logs[i]), Correlation(c, c.logs[i])>>]
    BY <2>1, <2>2
  <2> QED
    BY <2>3 DEF LogsKept, LogIdentities
<1>5. MetricsKept(b, c)
  BY ObeyedPoints DEF Extractable
<1> QED
  BY <1>3, <1>4, <1>5 DEF AllKept

(* No false alarm for disabled propagation either: wherever the probe's requests *)
(* continued its context before, an SDK that gives each a trace of its own passes *)
(* (evaluate), although every trace, and the parents of the requests, changed.   *)
THEOREM NewTracesPass ==
  Spec => [](Extractable(baseline) /\ Probes <= 200 /\ case = "propagation-none" => ObedienceIsSeen)
<1>1. ASSUME Fields, Followed, Extractable(baseline), Probes <= 200, case = "propagation-none"
      PROVE  ObedienceIsSeen
  <2> SUFFICES ASSUME obeyed, defects = 0
               PROVE  Verdict(baseline, changed) =
                        IF Exercised(baseline) THEN "pass" ELSE "not_exercised"
    BY DEF ObedienceIsSeen
  <2>1. changed = Obeying(baseline) /\ baseline \in Baselines
    BY <1>1 DEF Followed, Fields
  <2>2. ASSUME Exercised(baseline)
        PROVE  Effective(baseline, Obeying(baseline)) /\ AllKept(baseline, Obeying(baseline))
    BY <1>1, <2>1, <2>2, ExtractedSpans, SeenNewTraces, ExtractedIsKept
  <2> QED
    BY <1>1, <2>1, <2>2 DEF Verdict
<1>2. Fields /\ Followed =>
        (Extractable(baseline) /\ Probes <= 200 /\ case = "propagation-none" => ObedienceIsSeen)
  BY <1>1
<1> QED
  BY FieldsAreKept, StaysFollowed, <1>2, PTL
=============================================================================
