------------------------------ MODULE SinkProofs ------------------------------
(***************************************************************************)
(* The safety of the telemetry sink for every set of exports, every quota   *)
(* and any number of failed file operations.                                *)
(***************************************************************************)
EXTENDS Sink, FiniteSetTheorems, TLAPS

(* The sets whose Tally is a number: finitely many records, each charged    *)
(* finitely many bytes and spans.                                           *)
Countable(S) ==
  /\ IsFiniteSet(S)
  /\ IsFiniteSet(RetainedUnits(S))
  /\ IsFiniteSet(SpanUnits(S))

-----------------------------------------------------------------------------
(* Counting *)

(* One more record is charged exactly its own bytes (CaptureCounters::add). *)
LEMMA UnitsOfOne ==
  ASSUME NEW e, NEW n \in Nat
  PROVE  /\ IsFiniteSet({e} \X (1 .. n))
         /\ Cardinality({e} \X (1 .. n)) = n
<1>1. IsFiniteSet({e}) /\ Cardinality({e}) = 1
  BY FS_Singleton
<1>2. IsFiniteSet(1 .. n) /\ Cardinality(1 .. n) = n
  BY FS_Interval
<1>3. /\ IsFiniteSet({e} \X (1 .. n))
      /\ Cardinality({e} \X (1 .. n)) = Cardinality({e}) * Cardinality(1 .. n)
  BY <1>1, <1>2, FS_Product, Zenon
<1>4. 1 * n = n
  OBVIOUS
<1> QED
  BY <1>1, <1>2, <1>3, <1>4

LEMMA RetainedAdd ==
  ASSUME NEW S, NEW e, e \notin S, e.batch.retained \in Nat,
         IsFiniteSet(RetainedUnits(S))
  PROVE  /\ IsFiniteSet(RetainedUnits(S \cup {e}))
         /\ Cardinality(RetainedUnits(S \cup {e})) =
              Cardinality(RetainedUnits(S)) + e.batch.retained
<1> DEFINE U == {e} \X (1 .. e.batch.retained)
<1>1. IsFiniteSet(U) /\ Cardinality(U) = e.batch.retained
  BY UnitsOfOne
<1>2. RetainedUnits(S \cup {e}) = RetainedUnits(S) \cup U
  BY DEF RetainedUnits
<1>3. RetainedUnits(S) \cap U = {}
  BY DEF RetainedUnits
<1>4. Cardinality(RetainedUnits(S) \cap U) = 0
  BY <1>3, FS_EmptySet
<1>5. Cardinality(RetainedUnits(S)) \in Nat
  BY FS_CardinalityType
<1> HIDE DEF U
<1>6. /\ IsFiniteSet(RetainedUnits(S) \cup U)
      /\ Cardinality(RetainedUnits(S) \cup U) =
           Cardinality(RetainedUnits(S)) + Cardinality(U)
             - Cardinality(RetainedUnits(S) \cap U)
  BY <1>1, FS_Union, Zenon
<1>7. \A a, c \in Nat : a + c - 0 = a + c
  OBVIOUS
<1>8. Cardinality(RetainedUnits(S) \cup U) = Cardinality(RetainedUnits(S)) + e.batch.retained
  BY <1>1, <1>4, <1>5, <1>6, <1>7, Zenon
<1> QED
  BY <1>2, <1>6, <1>8, Zenon

LEMMA SpansAdd ==
  ASSUME NEW S, NEW e, e \notin S, e.batch.spans \in Nat,
         IsFiniteSet(SpanUnits(S))
  PROVE  /\ IsFiniteSet(SpanUnits(S \cup {e}))
         /\ Cardinality(SpanUnits(S \cup {e})) =
              Cardinality(SpanUnits(S)) + e.batch.spans
<1> DEFINE U == {e} \X (1 .. e.batch.spans)
<1>1. IsFiniteSet(U) /\ Cardinality(U) = e.batch.spans
  BY UnitsOfOne
<1>2. SpanUnits(S \cup {e}) = SpanUnits(S) \cup U
  BY DEF SpanUnits
<1>3. SpanUnits(S) \cap U = {}
  BY DEF SpanUnits
<1>4. Cardinality(SpanUnits(S) \cap U) = 0
  BY <1>3, FS_EmptySet
<1>5. Cardinality(SpanUnits(S)) \in Nat
  BY FS_CardinalityType
<1> HIDE DEF U
<1>6. /\ IsFiniteSet(SpanUnits(S) \cup U)
      /\ Cardinality(SpanUnits(S) \cup U) =
           Cardinality(SpanUnits(S)) + Cardinality(U)
             - Cardinality(SpanUnits(S) \cap U)
  BY <1>1, FS_Union, Zenon
<1>7. \A a, c \in Nat : a + c - 0 = a + c
  OBVIOUS
<1>8. Cardinality(SpanUnits(S) \cup U) = Cardinality(SpanUnits(S)) + e.batch.spans
  BY <1>1, <1>4, <1>5, <1>6, <1>7, Zenon
<1> QED
  BY <1>2, <1>6, <1>8, Zenon

(* Fewer records are never charged more (what a partial reset relies on). *)
LEMMA CountableSubset ==
  ASSUME NEW S, NEW T, T \subseteq S, Countable(S)
  PROVE  /\ Countable(T)
         /\ Cardinality(T) <= Cardinality(S)
         /\ Cardinality(RetainedUnits(T)) <= Cardinality(RetainedUnits(S))
<1>1. RetainedUnits(T) \subseteq RetainedUnits(S)
  BY DEF RetainedUnits
<1>2. SpanUnits(T) \subseteq SpanUnits(S)
  BY DEF SpanUnits
<1> QED
  BY <1>1, <1>2, FS_Subset DEF Countable

LEMMA EmptyCountable == Countable({}) /\ Tally({}).records = 0 /\ Tally({}).bytes = 0
<1>1. RetainedUnits({}) = {} /\ SpanUnits({}) = {}
  BY DEF RetainedUnits, SpanUnits
<1> QED
  BY <1>1, FS_EmptySet DEF Countable, Tally

LEMMA TallyType ==
  ASSUME NEW S, Countable(S)
  PROVE  Tally(S) \in Tallies
<1>1. \A signal : Countable(OfSignal(S, signal))
  BY CountableSubset DEF OfSignal
<1>2. \A T : Countable(T) =>
        /\ Cardinality(T) \in Nat
        /\ Cardinality(RetainedUnits(T)) \in Nat
        /\ Cardinality(SpanUnits(T)) \in Nat
  BY FS_CardinalityType DEF Countable
<1>3. /\ Cardinality(OfSignal(S, "traces")) \in Nat
      /\ Cardinality(SpanUnits(OfSignal(S, "traces"))) \in Nat
      /\ Cardinality(OfSignal(S, "metrics")) \in Nat
      /\ Cardinality(OfSignal(S, "logs")) \in Nat
  BY <1>1, <1>2
<1> QED
  BY <1>2, <1>3 DEF Tally, Tallies

(* Incrementing the counters counts the same as starting over: ingest adds, *)
(* reset recounts, and the two agree.                                       *)
LEMMA TallyAdd ==
  ASSUME NEW S, Countable(S), NEW e \in Entry, e \notin S
  PROVE  /\ Countable(S \cup {e})
         /\ Tally(S \cup {e}) = Add(Tally(S), e.batch)
<1> DEFINE b == e.batch
           W == S \cup {e}
<1>1. b \in Batch
  BY SinkAssumption DEF Entry
<1>2. b.retained \in Nat /\ b.spans \in Nat /\ b.signal \in Signals
  BY <1>1 DEF Batch
<1>3. Countable(W)
  BY <1>2, FS_AddElement, RetainedAdd, SpansAdd DEF Countable
<1>4. /\ Cardinality(W) = Cardinality(S) + 1
      /\ Cardinality(RetainedUnits(W)) = Cardinality(RetainedUnits(S)) + b.retained
  BY <1>2, FS_AddElement, RetainedAdd DEF Countable
<1>5. ASSUME NEW signal
      PROVE  /\ Countable(OfSignal(S, signal))
             /\ Cardinality(OfSignal(W, signal)) =
                  Cardinality(OfSignal(S, signal)) + One(b.signal = signal)
  <2>1. Countable(OfSignal(S, signal))
    BY CountableSubset DEF OfSignal
  <2>2. Cardinality(OfSignal(S, signal)) \in Nat
    BY <2>1, FS_CardinalityType DEF Countable
  <2>3. CASE b.signal = signal
    <3>1. OfSignal(W, signal) = OfSignal(S, signal) \cup {e} /\ e \notin OfSignal(S, signal)
      BY <2>3 DEF OfSignal
    <3> QED
      BY <2>1, <2>3, <3>1, FS_AddElement DEF Countable, One
  <2>4. CASE b.signal # signal
    <3>1. OfSignal(W, signal) = OfSignal(S, signal)
      BY <2>4 DEF OfSignal
    <3> QED
      BY <2>1, <2>2, <2>4, <3>1 DEF One
  <2> QED
    BY <2>3, <2>4
<1>6. Cardinality(SpanUnits(OfSignal(W, "traces"))) =
        Cardinality(SpanUnits(OfSignal(S, "traces")))
          + IF b.signal = "traces" THEN b.spans ELSE 0
  <2>1. IsFiniteSet(SpanUnits(OfSignal(S, "traces")))
    BY <1>5 DEF Countable
  <2>2. Cardinality(SpanUnits(OfSignal(S, "traces"))) \in Nat
    BY <2>1, FS_CardinalityType
  <2>3. CASE b.signal = "traces"
    <3>1. OfSignal(W, "traces") = OfSignal(S, "traces") \cup {e}
      BY <2>3 DEF OfSignal
    <3>2. e \notin OfSignal(S, "traces")
      BY DEF OfSignal
    <3> QED
      BY <1>2, <2>1, <2>3, <3>1, <3>2, SpansAdd
  <2>4. CASE b.signal # "traces"
    <3>1. OfSignal(W, "traces") = OfSignal(S, "traces")
      BY <2>4 DEF OfSignal
    <3> QED
      BY <2>2, <2>4, <3>1
  <2> QED
    BY <2>3, <2>4
<1> HIDE DEF b, W
<1>7. Tally(W) = Add(Tally(S), b)
  BY <1>4, <1>5, <1>6 DEF Tally, Add
<1> QED
  BY <1>3, <1>7 DEF b, W

-----------------------------------------------------------------------------
(* The inductive invariant.  The counters can only be known to equal the    *)
(* tally of the records if the tally is a number (AllCountable), if no      *)
(* record is counted twice (ArrivalOrder), and if the quota check reads     *)
(* counters that are right (CountersExact): the parts hold together or not  *)
(* at all.                                                                 *)

AllCountable == \A p \in Protocols : Countable(Kept(p))

CountersBounded ==
  \A p \in Protocols :
    counters[p].records <= MaxRecords /\ counters[p].bytes <= CaptureLimit

CaptureInv ==
  /\ TypeOK
  /\ AllCountable
  /\ ArrivalOrder
  /\ CountersExact
  /\ CountersBounded

LEMMA InitCapture == Init => CaptureInv
<1> SUFFICES ASSUME Init PROVE CaptureInv
  OBVIOUS
<1>1. \A p \in Protocols : Kept(p) = {}
  BY DEF Init, Kept
<1>2. Tally({}) \in Tallies
  BY EmptyCountable, TallyType
<1>3. TypeOK
  BY <1>2 DEF Init, TypeOK, ArrayOf, Forms
<1>4. AllCountable
  BY <1>1, EmptyCountable DEF AllCountable
<1>5. ArrivalOrder
  BY <1>1 DEF ArrivalOrder, Init
<1>6. CountersExact
  BY <1>1 DEF CountersExact, Init
<1>7. CountersBounded
  BY EmptyCountable, SinkAssumption DEF CountersBounded, Init
<1> QED
  BY <1>3, <1>4, <1>5, <1>6, <1>7 DEF CaptureInv

(* A step that leaves records, stamps and counters alone. *)
LEMMA SteadyCapture ==
  ASSUME CaptureInv, UNCHANGED <<live, frozen, counters, arrivals>>, TypeOK'
  PROVE  CaptureInv'
<1>1. \A p \in Protocols : Kept(p)' = Kept(p)
  BY DEF Kept
<1> QED
  BY <1>1 DEF CaptureInv, AllCountable, ArrivalOrder, CountersExact, CountersBounded

(* Every file a failed operation can leave is a file. *)
LEMMA FileTypes ==
  ASSUME NEW f \in [form : Forms, held : SUBSET Entry], NEW S \in SUBSET Entry
  PROVE  /\ ArrayOf(S) \in [form : Forms, held : SUBSET Entry]
         /\ PersistFailures(f, S) \subseteq [form : Forms, held : SUBSET Entry]
         /\ \A e \in Entry :
              /\ Appended(f, e) \in [form : Forms, held : SUBSET Entry]
              /\ AppendFailures(f, e) \subseteq [form : Forms, held : SUBSET Entry]
<1> USE DEF Forms, ArrayOf, OpenOf, BareOf, EmptyFile, StubFile, TornFile
<1>1. PersistFailures(f, S) \subseteq [form : Forms, held : SUBSET Entry]
  BY DEF PersistFailures, Prefixes
<1>2. ASSUME NEW e \in Entry
      PROVE  /\ Appended(f, e) \in [form : Forms, held : SUBSET Entry]
             /\ AppendFailures(f, e) \subseteq [form : Forms, held : SUBSET Entry]
  <2>1. f.held \in SUBSET Entry /\ f.held \cup {e} \in SUBSET Entry
    OBVIOUS
  <2>2. Appended(f, e) \in [form : Forms, held : SUBSET Entry]
    BY <2>1 DEF Appended
  <2>3. AppendFailures(f, e) \subseteq [form : Forms, held : SUBSET Entry]
    BY <2>1 DEF AppendFailures
  <2> QED
    BY <2>2, <2>3
<1> QED
  BY <1>1, <1>2

LEMMA PersistType ==
  ASSUME TypeOK, NEW p \in Protocols, NEW S \in SUBSET Entry, Persist(p, S)
  PROVE  /\ file' \in [Protocols -> [form : Forms, held : SUBSET Entry]]
         /\ damaged' \in [Protocols -> BOOLEAN]
         /\ faults' \in Nat
<1>1. file[p] \in [form : Forms, held : SUBSET Entry]
  BY DEF TypeOK
<1>2. ArrayOf(S) \in [form : Forms, held : SUBSET Entry]
  BY <1>1, FileTypes
<1>3. PersistFailures(file[p], S) \subseteq [form : Forms, held : SUBSET Entry]
  BY <1>1, FileTypes
<1>4. CASE file' = [file EXCEPT ![p] = ArrayOf(S)] /\ damaged' = [damaged EXCEPT ![p] = FALSE]
            /\ UNCHANGED faults
  BY <1>2, <1>4 DEF TypeOK
<1>5. CASE /\ \E f \in PersistFailures(file[p], S) : file' = [file EXCEPT ![p] = f]
           /\ damaged' = [damaged EXCEPT ![p] = TRUE]
           /\ faults' = faults + 1
  <2>1. PICK f \in [form : Forms, held : SUBSET Entry] : file' = [file EXCEPT ![p] = f]
    BY <1>3, <1>5
  <2> QED
    BY <1>5, <2>1 DEF TypeOK
<1> QED
  BY <1>4, <1>5 DEF Persist

LEMMA StoredCapture ==
  ASSUME CaptureInv, NEW p \in Protocols, NEW b \in Batches, b.protocol = p,
         IngestStored(p, b)
  PROVE  CaptureInv'
<1> DEFINE e == [id |-> arrivals, batch |-> b]
<1> USE DEF CaptureInv
<1>1. e \in Entry /\ arrivals \in Nat
  BY DEF TypeOK, Entry
<1>2. e \notin Kept(p)
  BY <1>1 DEF ArrivalOrder
<1>3. /\ Kept(p)' = Kept(p) \cup {e}
      /\ \A q \in Protocols \ {p} : Kept(q)' = Kept(q)
  BY DEF IngestStored, Kept, TypeOK
<1>4. Kept(p) \in SUBSET Entry /\ Countable(Kept(p)) /\ counters[p] = Tally(Kept(p))
  BY DEF TypeOK, Kept, AllCountable, CountersExact
<1>5. Countable(Kept(p) \cup {e}) /\ Tally(Kept(p) \cup {e}) = Add(counters[p], e.batch)
  BY <1>1, <1>2, <1>4, TallyAdd
<1>6. Add(counters[p], b) \in Tallies
  BY <1>5, TallyType
<1>7. file[p] \in [form : Forms, held : SUBSET Entry]
  BY DEF TypeOK
<1>8. Appended(file[p], e) \in [form : Forms, held : SUBSET Entry]
  BY <1>1, <1>7, FileTypes
<1>9. /\ live' = [live EXCEPT ![p] = @ \cup {e}]
      /\ file' = [file EXCEPT ![p] = Appended(file[p], e)]
      /\ counters' = [counters EXCEPT ![p] = Add(counters[p], b)]
      /\ arrivals' = arrivals + 1
      /\ UNCHANGED <<taken, frozen, overflow, runs, failures, refused, damaged, faults>>
  BY DEF IngestStored
<1> HIDE DEF e
<1>10. TypeOK'
  BY <1>1, <1>6, <1>8, <1>9 DEF TypeOK
<1>11. AllCountable'
  BY <1>3, <1>5 DEF AllCountable
<1>12. ArrivalOrder'
  <2> USE DEF ArrivalOrder
  <2>1. e.id = arrivals /\ e.batch = b
    BY DEF e
  <2>2. ASSUME NEW q \in Protocols, NEW x \in Kept(q)'
        PROVE  x.id < arrivals' /\ x.batch.protocol = q
    BY <1>1, <1>3, <1>4, <1>9, <2>1, <2>2 DEF TypeOK, Entry, Kept
  <2>3. ASSUME NEW q \in Protocols, NEW x \in frozen'[q], NEW y \in live'[q]
        PROVE  x.id < y.id
    BY <1>9, <2>1, <2>3 DEF TypeOK, Kept
  <2>4. ASSUME NEW q \in Protocols, NEW x \in Kept(q)', NEW y \in Kept(q)', x.id = y.id
        PROVE  x = y
    BY <1>1, <1>3, <2>1, <2>4 DEF TypeOK, Entry, Kept
  <2> QED
    BY <2>2, <2>3, <2>4
<1>13. CountersExact'
  BY <1>3, <1>5, <1>9 DEF CountersExact, TypeOK, e
<1>14. CountersBounded'
  <2>1. /\ counters[p].records < MaxRecords
        /\ counters[p].bytes + b.retained <= CaptureLimit
    <3>1. counters[p] \in Tallies /\ b \in Batch
      BY SinkAssumption DEF TypeOK
    <3> QED
      BY <3>1, SinkAssumption DEF IngestStored, Admitted, Full, TooBig, Tallies, Batch
  <2>2. /\ Add(counters[p], b).records = counters[p].records + 1
        /\ Add(counters[p], b).bytes = counters[p].bytes + b.retained
    BY DEF Add
  <2>3. counters[p] \in Tallies
    BY DEF TypeOK
  <2> QED
    BY <1>9, <2>1, <2>2, <2>3, SinkAssumption DEF CountersBounded, TypeOK, Tallies
<1> QED
  BY <1>10, <1>11, <1>12, <1>13, <1>14

(* A dump moves the live records behind the frozen ones; nothing is lost,   *)
(* and their order is the order of arrival.                                 *)
LEMMA FreezeCapture ==
  ASSUME CaptureInv, NEW p \in Protocols, FreezeRecords(p),
         UNCHANGED <<counters, arrivals>>, TypeOK'
  PROVE  CaptureInv'
<1> USE DEF CaptureInv
<1>1. /\ frozen' = [frozen EXCEPT ![p] = Kept(p)]
      /\ live' = [live EXCEPT ![p] = {}]
  BY DEF FreezeRecords
<1>2. \A q \in Protocols : Kept(q)' = Kept(q)
  BY <1>1 DEF Kept, TypeOK
<1>3. ArrivalOrder'
  BY <1>1, <1>2 DEF ArrivalOrder, TypeOK
<1> QED
  BY <1>2, <1>3 DEF AllCountable, CountersExact, CountersBounded

LEMMA ResetCapture ==
  ASSUME CaptureInv, NEW p \in Protocols, NEW path \in ResetPaths, Reset(p, path)
  PROVE  CaptureInv'
<1> USE DEF CaptureInv
<1> DEFINE R == Retain(Kept(p), path)
<1>1. /\ live' = [live EXCEPT ![p] = Retain(@, path)]
      /\ frozen' = [frozen EXCEPT ![p] = Retain(@, path)]
      /\ taken' = [taken EXCEPT ![p] = @ /\ path # "/reset"]
      /\ counters' = [counters EXCEPT ![p] = Tally(R)]
      /\ overflow' = [overflow EXCEPT ![p] = FALSE]
      /\ runs' = [runs EXCEPT ![p] = 0]
      /\ failures' = [failures EXCEPT ![p] = 0]
      /\ refused' = [refused EXCEPT ![p] = {}]
      /\ UNCHANGED arrivals
  BY DEF Reset, Recount
<1>2. R \subseteq Kept(p) /\ R \in SUBSET Entry
  BY DEF Retain, Kept, TypeOK
<1>3. /\ Kept(p)' = R
      /\ \A q \in Protocols \ {p} : Kept(q)' = Kept(q)
  BY <1>1 DEF Kept, Retain, TypeOK
<1>4. /\ Countable(R)
      /\ Cardinality(R) <= Cardinality(Kept(p))
      /\ Cardinality(RetainedUnits(R)) <= Cardinality(RetainedUnits(Kept(p)))
  BY <1>2, CountableSubset DEF AllCountable
<1>5. Tally(R) \in Tallies
  BY <1>4, TallyType
<1>6. Persist(p, R)
  BY DEF Reset
<1>7. \A q \in Protocols : frozen'[q] \subseteq frozen[q] /\ live'[q] \subseteq live[q]
  BY <1>1 DEF Retain, TypeOK
<1> HIDE DEF R
<1>8. TypeOK'
  <2>1. /\ file' \in [Protocols -> [form : Forms, held : SUBSET Entry]]
        /\ damaged' \in [Protocols -> BOOLEAN]
        /\ faults' \in Nat
    BY <1>2, <1>6, PersistType
  <2>2. live' \in [Protocols -> SUBSET Entry] /\ frozen' \in [Protocols -> SUBSET Entry]
    BY <1>1 DEF TypeOK, Retain
  <2>3. taken' \in [Protocols -> BOOLEAN]
    BY <1>1 DEF TypeOK
  <2>4. counters' \in [Protocols -> Tallies]
    BY <1>1, <1>5 DEF TypeOK
  <2> QED
    BY <1>1, <2>1, <2>2, <2>3, <2>4 DEF TypeOK
<1>9. AllCountable'
  BY <1>3, <1>4 DEF AllCountable
<1>10. ArrivalOrder'
  <2>1. \A q \in Protocols : Kept(q)' \subseteq Kept(q)
    BY <1>2, <1>3
  <2> QED
    BY <1>1, <1>7, <2>1 DEF ArrivalOrder
<1>11. CountersExact'
  BY <1>1, <1>3 DEF CountersExact, TypeOK
<1>12. CountersBounded'
  <2>1. /\ Tally(R).records <= counters[p].records
        /\ Tally(R).bytes <= counters[p].bytes
    <3>1. counters[p] = Tally(Kept(p))
      BY DEF CountersExact
    <3>2. /\ Tally(R).records = Cardinality(R)
          /\ Tally(R).bytes = Cardinality(RetainedUnits(R))
          /\ Tally(Kept(p)).records = Cardinality(Kept(p))
          /\ Tally(Kept(p)).bytes = Cardinality(RetainedUnits(Kept(p)))
      BY DEF Tally
    <3> QED
      BY <1>4, <3>1, <3>2
  <2>2. counters[p] \in Tallies
    BY DEF TypeOK
  <2> QED
    BY <1>1, <1>5, <2>1, <2>2, SinkAssumption DEF CountersBounded, TypeOK, Tallies
<1> QED
  BY <1>8, <1>9, <1>10, <1>11, <1>12

LEMMA NextCapture == CaptureInv /\ [Next]_vars => CaptureInv'
<1> SUFFICES ASSUME CaptureInv, [Next]_vars PROVE CaptureInv'
  OBVIOUS
<1>1. ASSUME NEW p \in Protocols, Ingest(p) PROVE CaptureInv'
  <2>1. PICK b \in Batches :
          /\ b.protocol = p
          /\ IngestRefused(p, b) \/ IngestStored(p, b) \/ IngestUnwritten(p, b)
    BY <1>1 DEF Ingest
  <2>2. CASE IngestRefused(p, b)
    BY <2>2, SteadyCapture DEF IngestRefused, CaptureInv, TypeOK
  <2>3. CASE IngestStored(p, b)
    BY <2>1, <2>3, StoredCapture
  <2>4. CASE IngestUnwritten(p, b)
    <3>1. /\ file[p] \in [form : Forms, held : SUBSET Entry]
          /\ [id |-> arrivals, batch |-> b] \in Entry
      BY DEF CaptureInv, TypeOK, Entry
    <3>2. PICK f \in [form : Forms, held : SUBSET Entry] : file' = [file EXCEPT ![p] = f]
      BY <2>4, <3>1, FileTypes DEF IngestUnwritten
    <3> QED
      BY <2>4, <3>2, SteadyCapture DEF IngestUnwritten, CaptureInv, TypeOK
  <2> QED
    BY <2>1, <2>2, <2>3, <2>4
<1>2. ASSUME NEW p \in Protocols, Dump(p) PROVE CaptureInv'
  <2>1. Kept(p) \in SUBSET Entry
    BY DEF CaptureInv, TypeOK, Kept
  <2>2. /\ file' \in [Protocols -> [form : Forms, held : SUBSET Entry]]
        /\ damaged' \in [Protocols -> BOOLEAN]
        /\ faults' \in Nat
    BY <1>2, <2>1, PersistType DEF Dump, CaptureInv
  <2>3. TypeOK'
    BY <1>2, <2>1, <2>2 DEF Dump, FreezeRecords, CaptureInv, TypeOK
  <2> QED
    BY <1>2, <2>3, FreezeCapture DEF Dump
<1>3. ASSUME NEW p \in Protocols, DumpScheme(p) PROVE CaptureInv'
  <2>1. Kept(p) \in SUBSET Entry
    BY DEF CaptureInv, TypeOK, Kept
  <2>2. TypeOK'
    BY <1>3, <2>1 DEF DumpScheme, FreezeRecords, CaptureInv, TypeOK
  <2> QED
    BY <1>3, <2>2, FreezeCapture DEF DumpScheme
<1>4. ASSUME NEW p \in Protocols, NEW path \in ResetPaths, Reset(p, path)
      PROVE CaptureInv'
  BY <1>4, ResetCapture
<1>5. ASSUME NEW p \in Protocols, NEW failed \in BOOLEAN, Validate(p, failed)
      PROVE CaptureInv'
  BY <1>5, SteadyCapture DEF Validate, CaptureInv, TypeOK, One
<1>6. ASSUME NEW source \in Protocols \cup {"none"}, ReadRefused(source)
      PROVE CaptureInv'
  <2>1. overflow' \in [Protocols -> BOOLEAN]
    BY <1>6 DEF ReadRefused, CaptureInv, TypeOK
  <2>2. refused' \in [Protocols -> SUBSET {"read", "ingest"}]
    BY <1>6 DEF ReadRefused, CaptureInv, TypeOK
  <2> QED
    BY <1>6, <2>1, <2>2, SteadyCapture DEF ReadRefused, CaptureInv, TypeOK
<1>7. CASE UNCHANGED vars
  <2>1. TypeOK'
    BY <1>7 DEF vars, CaptureInv, TypeOK
  <2> QED
    BY <1>7, <2>1, SteadyCapture DEF vars
<1> QED
  BY <1>1, <1>2, <1>3, <1>4, <1>5, <1>6, <1>7 DEF Next

LEMMA Capturing == Spec => []CaptureInv
BY InitCapture, NextCapture, PTL DEF Spec

-----------------------------------------------------------------------------
(* The theorems *)

(* The variables of the sink keep their types.                              *)
THEOREM TypeCorrect == Spec => []TypeOK
<1>1. CaptureInv => TypeOK
  BY DEF CaptureInv
<1> QED
  BY <1>1, Capturing, PTL

(* /stats is exact in every state, over every mixture of exports, dumps and *)
(* partial resets.                                                         *)
THEOREM StatsAreExact == Spec => []CountersExact
<1>1. CaptureInv => CountersExact
  BY DEF CaptureInv
<1> QED
  BY <1>1, Capturing, PTL

(* A capture never outgrows its quota of records and retained bytes.        *)
THEOREM QuotaHolds == Spec => []WithinQuota
<1>1. CaptureInv => WithinQuota
  <2> SUFFICES ASSUME CaptureInv, NEW p \in Protocols
               PROVE  /\ Cardinality(Kept(p)) <= MaxRecords
                      /\ Cardinality(RetainedUnits(Kept(p))) <= CaptureLimit
    BY DEF WithinQuota
  <2>1. counters[p] = Tally(Kept(p))
    BY DEF CaptureInv, CountersExact
  <2>2. /\ Tally(Kept(p)).records = Cardinality(Kept(p))
        /\ Tally(Kept(p)).bytes = Cardinality(RetainedUnits(Kept(p)))
    BY DEF Tally
  <2> QED
    BY <2>1, <2>2 DEF CaptureInv, CountersBounded
<1> QED
  BY <1>1, Capturing, PTL

(* Dumped and live records together are in arrival order, without           *)
(* duplicates, each in the capture of its own protocol.                     *)
THEOREM OrderHolds == Spec => []ArrivalOrder
<1>1. CaptureInv => ArrivalOrder
  BY DEF CaptureInv
<1> QED
  BY <1>1, Capturing, PTL

(* The output file and the capture differ only while a storage error stands *)
(* that was answered 500: a successful dump or reset ends it.               *)
THEOREM DamageIsReported == Spec => []DamageWasReported
<1>1. Init => DamageWasReported
  <2> SUFFICES ASSUME Init PROVE DamageWasReported
    OBVIOUS
  <2>1. \A p \in Protocols : Kept(p) = {}
    BY DEF Init, Kept
  <2> QED
    BY <2>1 DEF Init, DamageWasReported
<1>2. ASSUME CaptureInv, DamageWasReported, [Next]_vars
      PROVE  DamageWasReported'
  <2> USE <1>2 DEF DamageWasReported, CaptureInv
  <2>1. ASSUME NEW p \in Protocols, NEW S, Persist(p, S), Kept(p)' = S,
               \A q \in Protocols \ {p} : Kept(q)' = Kept(q)
        PROVE  DamageWasReported'
    <3>1. CASE /\ file' = [file EXCEPT ![p] = ArrayOf(S)]
               /\ damaged' = [damaged EXCEPT ![p] = FALSE]
      BY <2>1, <3>1 DEF TypeOK
    <3>2. CASE /\ damaged' = [damaged EXCEPT ![p] = TRUE]
               /\ \E f \in PersistFailures(file[p], S) : file' = [file EXCEPT ![p] = f]
      BY <2>1, <3>2 DEF TypeOK
    <3> QED
      BY <2>1, <3>1, <3>2 DEF Persist
  <2>2. ASSUME UNCHANGED <<live, frozen, file, damaged>> PROVE DamageWasReported'
    BY <2>2 DEF Kept
  <2>3. ASSUME NEW p \in Protocols, NEW b \in Batches, IngestStored(p, b)
        PROVE  DamageWasReported'
    <3> DEFINE e == [id |-> arrivals, batch |-> b]
    <3>1. /\ Kept(p)' = Kept(p) \cup {e}
          /\ \A q \in Protocols \ {p} : Kept(q)' = Kept(q)
      BY <2>3 DEF IngestStored, Kept, TypeOK
    <3>2. file' = [file EXCEPT ![p] = Appended(file[p], e)] /\ UNCHANGED damaged
      BY <2>3 DEF IngestStored
    <3>3. Appended(ArrayOf(Kept(p)), e) = ArrayOf(Kept(p) \cup {e})
      BY DEF Appended, ArrayOf
    <3> HIDE DEF e
    <3> QED
      BY <3>1, <3>2, <3>3 DEF TypeOK
  <2>4. ASSUME NEW p \in Protocols, NEW b \in Batches, IngestUnwritten(p, b)
        PROVE  DamageWasReported'
    <3>1. \A q \in Protocols : Kept(q)' = Kept(q)
      BY <2>4 DEF IngestUnwritten, Kept
    <3>2. damaged' = [damaged EXCEPT ![p] = TRUE] /\ \A q \in Protocols \ {p} : file'[q] = file[q]
      BY <2>4 DEF IngestUnwritten, TypeOK
    <3> QED
      BY <3>1, <3>2 DEF TypeOK
  <2>5. ASSUME NEW p \in Protocols, FreezeRecords(p)
        PROVE  \A q \in Protocols : Kept(q)' = Kept(q)
    BY <2>5 DEF FreezeRecords, Kept, TypeOK
  <2>6. ASSUME NEW p \in Protocols, NEW path \in ResetPaths, Reset(p, path)
        PROVE  /\ Kept(p)' = Retain(Kept(p), path)
               /\ \A q \in Protocols \ {p} : Kept(q)' = Kept(q)
    BY <2>6 DEF Reset, Kept, Retain, TypeOK
  <2>7. ASSUME NEW p \in Protocols, Dump(p) PROVE DamageWasReported'
    BY <2>7, <2>5, <2>1 DEF Dump
  <2>8. ASSUME NEW p \in Protocols, DumpScheme(p) PROVE DamageWasReported'
    BY <2>8, <2>5 DEF DumpScheme
  <2>9. ASSUME NEW p \in Protocols, NEW path \in ResetPaths, Reset(p, path)
        PROVE DamageWasReported'
    BY <2>9, <2>6, <2>1 DEF Reset
  <2>10. ASSUME NEW p \in Protocols, Ingest(p) PROVE DamageWasReported'
    <3>1. ASSUME NEW b \in Batches, IngestRefused(p, b) PROVE DamageWasReported'
      BY <3>1, <2>2 DEF IngestRefused
    <3> QED
      BY <2>10, <2>3, <2>4, <3>1 DEF Ingest
  <2>11. ASSUME NEW p \in Protocols, NEW failed \in BOOLEAN, Validate(p, failed)
         PROVE DamageWasReported'
    BY <2>11, <2>2 DEF Validate
  <2>12. ASSUME NEW source \in Protocols \cup {"none"}, ReadRefused(source)
         PROVE DamageWasReported'
    BY <2>12, <2>2 DEF ReadRefused
  <2>13. CASE UNCHANGED vars
    BY <2>13, <2>2 DEF vars
  <2> QED
    BY <2>7, <2>8, <2>9, <2>10, <2>11, <2>12, <2>13 DEF Next
<1> QED
  BY <1>1, <1>2, Capturing, PTL DEF Spec

(* No export is refused for its size without the overflow flag telling so   *)
(* until the next reset (in stress mode also not while it is read, for      *)
(* Datadog), and outside stress mode the flag tells of nothing else.        *)
THEOREM LossStaysVisible == Spec => []LossIsVisible
<1>1. Init => LossIsVisible
  BY DEF Init, LossIsVisible, Protocols
<1>2. ASSUME CaptureInv, LossIsVisible, [Next]_vars
      PROVE  LossIsVisible'
  <2> USE <1>2 DEF LossIsVisible, CaptureInv
  <2>1. ASSUME UNCHANGED <<overflow, refused>> PROVE LossIsVisible'
    BY <2>1
  <2>2. ASSUME NEW p \in Protocols, NEW b \in Batches, IngestRefused(p, b)
        PROVE LossIsVisible'
    BY <2>2 DEF IngestRefused, TypeOK
  <2>3. ASSUME NEW p \in Protocols, Ingest(p) PROVE LossIsVisible'
    BY <2>1, <2>2, <2>3 DEF Ingest, IngestStored, IngestUnwritten
  <2>4. ASSUME NEW p \in Protocols, NEW path \in ResetPaths, Reset(p, path)
        PROVE LossIsVisible'
    <3>1. /\ overflow' = [overflow EXCEPT ![p] = FALSE]
          /\ refused' = [refused EXCEPT ![p] = {}]
      BY <2>4 DEF Reset
    <3> QED
      BY <3>1 DEF TypeOK
  <2>5. ASSUME NEW source \in Protocols \cup {"none"}, ReadRefused(source)
        PROVE LossIsVisible'
    <3>1. \A p \in Protocols : "ingest" \in refused'[p] <=> "ingest" \in refused[p]
      BY <2>5 DEF ReadRefused
    <3>2. CASE Stress
      BY <2>5, <3>1, <3>2 DEF ReadRefused, TypeOK, Protocols
    <3>3. CASE ~ Stress
      BY <2>5, <3>1, <3>3 DEF ReadRefused
    <3> QED
      BY <3>2, <3>3
  <2>6. ASSUME NEW p \in Protocols, Dump(p) \/ DumpScheme(p) PROVE LossIsVisible'
    BY <2>1, <2>6 DEF Dump, DumpScheme
  <2>7. ASSUME NEW p \in Protocols, NEW failed \in BOOLEAN, Validate(p, failed)
        PROVE LossIsVisible'
    BY <2>1, <2>7 DEF Validate
  <2>8. CASE UNCHANGED vars
    BY <2>1, <2>8 DEF vars
  <2> QED
    BY <2>3, <2>4, <2>5, <2>6, <2>7, <2>8 DEF Next
<1> QED
  BY <1>1, <1>2, Capturing, PTL DEF Spec

(* Whatever the request, the other protocol's records, counters, flags and  *)
(* file are out of its reach.                                               *)
THEOREM OneProtocol == Spec => OneProtocolPerRequest
<1>1. ASSUME CaptureInv, [Next]_vars
      PROVE  [\A p, q \in Protocols : p # q => (Own(p)' = Own(p) \/ Own(q)' = Own(q))]_vars
  <2> DEFINE Others(p) == \A q \in Protocols \ {p} : Own(q)' = Own(q)
  <2> USE <1>1 DEF CaptureInv, TypeOK
  <2>0. ASSUME NEW p \in Protocols, NEW S, Persist(p, S)
        PROVE  \A q \in Protocols \ {p} : file'[q] = file[q]
    <3>1. \E f : file' = [file EXCEPT ![p] = f]
      BY <2>0, Zenon DEF Persist
    <3> QED
      BY <3>1
  <2>1. ASSUME NEW p \in Protocols, Ingest(p) PROVE Others(p)
    BY <2>1 DEF Ingest, IngestRefused, IngestStored, IngestUnwritten, Own
  <2>2. ASSUME NEW p \in Protocols, Dump(p) PROVE Others(p)
    BY <2>0, <2>2 DEF Dump, FreezeRecords, Own
  <2>3. ASSUME NEW p \in Protocols, DumpScheme(p) PROVE Others(p)
    BY <2>3 DEF DumpScheme, FreezeRecords, Own
  <2>4. ASSUME NEW p \in Protocols, NEW path \in ResetPaths, Reset(p, path)
        PROVE Others(p)
    BY <2>0, <2>4 DEF Reset, Own
  <2>5. ASSUME NEW p \in Protocols, NEW failed \in BOOLEAN, Validate(p, failed)
        PROVE Others(p)
    BY <2>5 DEF Validate, Own
  <2>6. ASSUME NEW source \in Protocols \cup {"none"}, ReadRefused(source)
        PROVE Others("datadog")
    BY <2>6 DEF ReadRefused, Own
  <2>7. "datadog" \in Protocols
    BY DEF Protocols
  <2>8. Next => \E p \in Protocols : Others(p)
    BY <2>1, <2>2, <2>3, <2>4, <2>5, <2>6, <2>7 DEF Next
  <2>9. (\E p \in Protocols : Others(p)) =>
          \A p, q \in Protocols : p # q => (Own(p)' = Own(p) \/ Own(q)' = Own(q))
    OBVIOUS
  <2> QED
    BY <1>1, <2>8, <2>9
<1> QED
  BY <1>1, Capturing, PTL DEF Spec, OneProtocolPerRequest

-----------------------------------------------------------------------------
(* The sink implements Capture *)

LEMMA ArrivalsBounded == Spec => [](arrivals \in Nat /\ arrivals <= MaxArrivals)
<1>1. Init => arrivals \in Nat /\ arrivals <= MaxArrivals
  BY SinkAssumption DEF Init
<1>2. ASSUME arrivals \in Nat /\ arrivals <= MaxArrivals, [Next]_vars
      PROVE  (arrivals \in Nat /\ arrivals <= MaxArrivals)'
  <2>1. UNCHANGED arrivals \/ (arrivals < MaxArrivals /\ arrivals' = arrivals + 1)
    BY <1>2 DEF Next, vars, Ingest, IngestRefused, IngestStored, IngestUnwritten,
                Dump, DumpScheme, Reset, Validate, ReadRefused
  <2> QED
    BY <1>2, <2>1, SinkAssumption
<1> QED
  BY <1>1, <1>2, PTL DEF Spec

(* Every behaviour of the sink, with its counters, files and storage        *)
(* failures, is one of the abstract capture: what was acknowledged is kept  *)
(* until a reset names it, and snapshots change only in dumps and resets.   *)
THEOREM ImplementsCapture == Spec => KeepsPromise
<1> DEFINE E == [id : 0 .. MaxArrivals, batch : Batches]
           K == [p \in Protocols |-> Kept(p)]
           Gone(path) == {e \in E : e.batch.signal \notin Retained(path)}
<1>1. Init => Promise!Init
  BY DEF Init, Promise!Init, Kept
<1>2. ASSUME CaptureInv, arrivals \in Nat /\ arrivals <= MaxArrivals, [Next]_vars
      PROVE  [Promise!Next]_(Promise!vars)
  <2> USE <1>2 DEF CaptureInv
  <2>1. ASSUME UNCHANGED <<live, taken, frozen>> PROVE UNCHANGED Promise!vars
    BY <2>1 DEF Promise!vars, Kept
  <2>2. ASSUME NEW p \in Protocols, NEW b \in Batches, IngestStored(p, b)
        PROVE  Promise!Next
    <3> DEFINE e == [id |-> arrivals, batch |-> b]
    <3>1. e \in E
      BY <2>2 DEF IngestStored
    <3>2. \A q \in Protocols : e \notin K[q]
      BY DEF ArrivalOrder
    <3>3. K' = [K EXCEPT ![p] = @ \cup {e}]
      BY <2>2 DEF IngestStored, Kept, TypeOK
    <3>4. UNCHANGED <<taken, frozen>>
      BY <2>2 DEF IngestStored
    <3>5. Promise!Acknowledge(p, e)
      BY <3>2, <3>3, <3>4 DEF Promise!Acknowledge
    <3> QED
      BY <3>1, <3>5 DEF Promise!Next
  <2>3. ASSUME NEW p \in Protocols, FreezeRecords(p) PROVE Promise!Next
    <3>1. K' = K
      BY <2>3 DEF FreezeRecords, Kept, TypeOK
    <3>2. Promise!Freeze(p)
      BY <2>3, <3>1 DEF FreezeRecords, Promise!Freeze
    <3> QED
      BY <3>2 DEF Promise!Next
  <2>4. ASSUME NEW p \in Protocols, NEW path \in ResetPaths, Reset(p, path)
        PROVE  Promise!Next
    <3>1. /\ live' = [live EXCEPT ![p] = Retain(@, path)]
          /\ frozen' = [frozen EXCEPT ![p] = Retain(@, path)]
          /\ taken' = [taken EXCEPT ![p] = @ /\ path # "/reset"]
      BY <2>4 DEF Reset
    <3>2. ASSUME NEW q \in Protocols, NEW e \in Kept(q) PROVE e \in E
      <4>1. e \in Entry /\ e.id < arrivals
        BY DEF ArrivalOrder, Kept, TypeOK
      <4>2. e = [id |-> e.id, batch |-> e.batch] /\ e.id \in Nat /\ e.batch \in Batches
        BY <4>1 DEF Entry
      <4>3. e.id \in 0 .. MaxArrivals
        BY <4>1, <4>2, SinkAssumption
      <4> QED
        BY <4>2, <4>3, Zenon
    <3>3. \A S \in SUBSET E : Retain(S, path) = S \ Gone(path)
      BY DEF Retain
    <3>4. live[p] \in SUBSET E /\ frozen[p] \in SUBSET E
      BY <3>2 DEF Kept
    <3>5. CASE path = "/reset"
      <4>1. \A S : Retain(S, path) = {}
        BY <3>5 DEF Retain, Retained
      <4>2. K' = [K EXCEPT ![p] = {}] /\ frozen' = [frozen EXCEPT ![p] = {}]
        BY <3>1, <4>1 DEF Kept, TypeOK
      <4>3. taken' = [taken EXCEPT ![p] = FALSE]
        BY <3>1, <3>5
      <4> QED
        BY <4>2, <4>3 DEF Promise!Next, Promise!Clear
    <3>6. CASE path # "/reset"
      <4>1. Retain(live[p], path) = live[p] \ Gone(path)
            /\ Retain(frozen[p], path) = frozen[p] \ Gone(path)
        BY <3>3, <3>4
      <4> HIDE DEF Gone
      <4>2. frozen' = [frozen EXCEPT ![p] = @ \ Gone(path)]
        BY <3>1, <4>1
      <4>3. K' = [K EXCEPT ![p] = @ \ Gone(path)]
        BY <3>1, <4>1 DEF Kept, TypeOK
      <4>4. UNCHANGED taken
        BY <3>1, <3>6 DEF TypeOK
      <4>5. Promise!Discard(p, Gone(path))
        BY <4>2, <4>3, <4>4 DEF Promise!Discard
      <4> QED
        BY <4>5 DEF Promise!Next, Gone
    <3> QED
      BY <3>5, <3>6
  <2>5. ASSUME NEW p \in Protocols, Ingest(p)
        PROVE  Promise!Next \/ UNCHANGED Promise!vars
    BY <2>1, <2>2, <2>5 DEF Ingest, IngestRefused, IngestUnwritten
  <2>6. ASSUME NEW p \in Protocols, Dump(p) \/ DumpScheme(p) PROVE Promise!Next
    BY <2>3, <2>6 DEF Dump, DumpScheme
  <2>7. ASSUME NEW p \in Protocols, NEW failed \in BOOLEAN, Validate(p, failed)
        PROVE  UNCHANGED Promise!vars
    BY <2>1, <2>7 DEF Validate
  <2>8. ASSUME NEW source \in Protocols \cup {"none"}, ReadRefused(source)
        PROVE  UNCHANGED Promise!vars
    BY <2>1, <2>8 DEF ReadRefused
  <2>9. CASE UNCHANGED vars
    BY <2>1, <2>9 DEF vars
  <2> QED
    BY <2>4, <2>5, <2>6, <2>7, <2>8, <2>9 DEF Next
<1> QED
  BY <1>1, <1>2, Capturing, ArrivalsBounded, PTL DEF Spec, KeepsPromise, Promise!Spec
=============================================================================
