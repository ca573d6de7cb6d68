--------------------------------- MODULE Sink ---------------------------------
(***************************************************************************)
(* The telemetry sink: harness/otel_sink/{server,storage,stats}.rs.         *)
(*                                                                         *)
(* One process accepts one connection at a time and answers it completely   *)
(* before the next, so every request is one step.  For each protocol it     *)
(* keeps the live records, the frozen snapshot, the counters /stats shows,  *)
(* and an output file it extends on every export.  File operations can fail *)
(* at any byte; what is then on disk is chosen among the contents a cut     *)
(* write can leave.                                                        *)
(*                                                                         *)
(* A Vec of records is modelled by the set of its entries, each stamped     *)
(* with its arrival number: push, append and retain all keep arrival order, *)
(* and ArrivalOrder below shows that frozen ++ live is in that order.       *)
(* Requests that change nothing (/stats, /candidate, /info, /healthz, and   *)
(* the refusals for method, path, headers and content type) are stuttering. *)
(***************************************************************************)
EXTENDS Integers, FiniteSets

Protocols == {"otlp", "datadog"}
Signals == {"traces", "metrics", "logs"}

CONSTANTS
  Batches,      \* the exports clients may send
  Stress,       \* the --stress-capture mode of the sink
  MaxRecords,   \* MAX_CAPTURE_RECORDS
  CaptureLimit, \* bytes of one capture: 4 MiB, or 64 MiB under Stress
  DecodedLimit, \* per protocol: bytes of one decoded payload
  MaxArrivals,  \* bound: acknowledged exports in a behaviour
  MaxRuns,      \* bound: validations between two resets
  MaxFaults     \* bound: failed file operations in a behaviour

(* An export as the sink measures it: its body, its decoded JSON, what its   *)
(* record is charged, what a Datadog decoder allocates for it, and what the  *)
(* decoder says of it ("limit" is any error that mentions a limit or budget, *)
(* "malformed" any other).                                                  *)
Batch ==
  [protocol : Protocols, signal : Signals, spans : Nat, body : Nat,
   decoded : Nat, working : Nat, retained : Nat,
   decodes : {"ok", "limit", "malformed"}]

ASSUME SinkAssumption ==
  /\ Batches \subseteq Batch
  /\ \A b \in Batches : b.protocol = "datadog" => b.signal = "traces"
  /\ Stress \in BOOLEAN
  /\ MaxRecords \in Nat
  /\ CaptureLimit \in Nat
  /\ DecodedLimit \in [Protocols -> Nat]
  /\ MaxArrivals \in Nat
  /\ MaxRuns \in Nat
  /\ MaxFaults \in Nat

Entry == [id : Nat, batch : Batches]

VARIABLES
  live,      \* live[p]: records since the last dump
  taken,     \* taken[p]: the Option around the frozen records is Some
  frozen,    \* frozen[p]: the records dumps have shown, empty if not taken
  counters,  \* counters[p]: CaptureCounters without its overflow flag
  overflow,  \* overflow[p]: CaptureCounters.overflow
  runs,      \* runs[p]: ValidationStats.runs
  failures,  \* failures[p]: ValidationStats.failures
  file,      \* file[p]: what the output file of p holds
  arrivals,  \* history: exports acknowledged so far, the next stamp
  refused,   \* history: where an export of p was refused for its size
  damaged,   \* history: a file operation of p failed since its last rewrite
  faults     \* history: failed file operations so far

vars == <<live, taken, frozen, counters, overflow, runs, failures, file,
          arrivals, refused, damaged, faults>>

-----------------------------------------------------------------------------
(* Counters *)

(* One element for every byte, or every span, the records of S are charged. *)
RetainedUnits(S) == UNION {{e} \X (1 .. e.batch.retained) : e \in S}
SpanUnits(S) == UNION {{e} \X (1 .. e.batch.spans) : e \in S}
OfSignal(S, signal) == {e \in S : e.batch.signal = signal}

(* What the counters of the records in S must be, counted from scratch: the *)
(* loop over frozen and live records at the end of every reset.             *)
Tally(S) ==
  [records |-> Cardinality(S),
   bytes |-> Cardinality(RetainedUnits(S)),
   traceRequests |-> Cardinality(OfSignal(S, "traces")),
   traceSpans |-> Cardinality(SpanUnits(OfSignal(S, "traces"))),
   metricRequests |-> Cardinality(OfSignal(S, "metrics")),
   logRequests |-> Cardinality(OfSignal(S, "logs"))]

One(condition) == IF condition THEN 1 ELSE 0

(* Mutant of Add: a trace request counts as one span. *)
AddOneSpan(c, b) ==
  [records |-> c.records + 1,
   bytes |-> c.bytes + b.retained,
   traceRequests |-> c.traceRequests + One(b.signal = "traces"),
   traceSpans |-> c.traceSpans + One(b.signal = "traces"),
   metricRequests |-> c.metricRequests + One(b.signal = "metrics"),
   logRequests |-> c.logRequests + One(b.signal = "logs")]

(* CaptureCounters::add *)
Add(c, b) ==
  [records |-> c.records + 1,
   bytes |-> c.bytes + b.retained,
   traceRequests |-> c.traceRequests + One(b.signal = "traces"),
   traceSpans |-> c.traceSpans + IF b.signal = "traces" THEN b.spans ELSE 0,
   metricRequests |-> c.metricRequests + One(b.signal = "metrics"),
   logRequests |-> c.logRequests + One(b.signal = "logs")]

-----------------------------------------------------------------------------
(* The output file.  form says what the bytes are:                          *)
(*   "array"  a complete JSON array of the held records                     *)
(*   "open"   cut so that the next append completes the array again         *)
(*   "bare"   complete but for its last newline, which the next append      *)
(*            mistakes for the closing bracket                              *)
(*   "empty"  no byte                                                       *)
(*   "stub"   the single byte "["                                           *)
(*   "torn"   anything else; no append mends it                             *)

ArrayOf(S) == [form |-> "array", held |-> S]
OpenOf(S) == [form |-> "open", held |-> S]
BareOf(S) == [form |-> "bare", held |-> S]
EmptyFile == [form |-> "empty", held |-> {}]
StubFile == [form |-> "stub", held |-> {}]
TornFile == [form |-> "torn", held |-> {}]

Forms == {"array", "open", "bare", "empty", "stub", "torn"}

(* The first records of S, for every possible number of them. *)
Prefixes(S) == {T \in SUBSET S : \A e \in T, d \in S : d.id <= e.id => d \in T}

(* persist_bytes: the file is truncated, then written.  A failure to open    *)
(* leaves it as it was; a write cut right after a record, or one byte before *)
(* the end, leaves an array the next append completes.                      *)
PersistFailures(f, S) ==
  {f, EmptyFile, StubFile, TornFile}
    \cup {OpenOf(T) : T \in IF S = {} THEN {} ELSE Prefixes(S)}

(* append_record seeks two bytes back from the end, over the closing         *)
(* bracket, and cannot when the file holds one byte.                        *)
CanAppend(f) == f.form # "stub"

(* Mutant of Appended: the file is opened for truncation. *)
AppendedFresh(f, e) == ArrayOf({e})

Appended(f, e) ==
  IF f.form \in {"bare", "torn"} THEN TornFile ELSE ArrayOf(f.held \cup {e})

AppendFailures(f, e) ==
  {f}
    \cup (IF f.form \in {"array", "open", "empty"}
          THEN {OpenOf(f.held), TornFile, BareOf(f.held \cup {e})} ELSE {})
    \cup (IF f.form = "empty" THEN {StubFile} ELSE {})
    \cup (IF f.form = "bare" THEN {TornFile} ELSE {})

-----------------------------------------------------------------------------
Kept(p) == frozen[p] \cup live[p]

Init ==
  /\ live = [p \in Protocols |-> {}]
  /\ taken = [p \in Protocols |-> FALSE]
  /\ frozen = [p \in Protocols |-> {}]
  /\ counters = [p \in Protocols |-> Tally({})]
  /\ overflow = [p \in Protocols |-> FALSE]
  /\ runs = [p \in Protocols |-> 0]
  /\ failures = [p \in Protocols |-> 0]
  /\ file = [p \in Protocols |-> ArrayOf({})]
  /\ arrivals = 0
  /\ refused = [p \in Protocols |-> {}]
  /\ damaged = [p \in Protocols |-> FALSE]
  /\ faults = 0

(* The whole capture S of p is written over the file. *)
Persist(p, S) ==
  \/ /\ file' = [file EXCEPT ![p] = ArrayOf(S)]
     /\ damaged' = [damaged EXCEPT ![p] = FALSE]
     /\ UNCHANGED faults
  \/ /\ faults < MaxFaults
     /\ \E f \in PersistFailures(file[p], S) : file' = [file EXCEPT ![p] = f]
     /\ damaged' = [damaged EXCEPT ![p] = TRUE]
     /\ faults' = faults + 1

-----------------------------------------------------------------------------
(* Exports: the checks of ingest, in its order. *)

(* Mutant of Full: one record too many. *)
FullOffByOne(p, b) ==
  \/ counters[p].records > MaxRecords
  \/ counters[p].bytes + b.body > CaptureLimit

Full(p, b) ==
  \/ counters[p].records >= MaxRecords
  \/ counters[p].bytes + b.body > CaptureLimit

OverBudget(p, b) ==
  \/ b.decodes = "limit"
  \/ /\ b.decodes = "ok"
     /\ p = "datadog"
     /\ b.working > CaptureLimit - counters[p].bytes - b.body

TooBig(p, b) ==
  \/ b.decoded > DecodedLimit[p]
  \/ counters[p].bytes + b.retained > CaptureLimit

(* Mutant of IngestRefused: a payload too large once decoded raises no flag. *)
IngestRefusedSilently(p, b) ==
  /\ \/ Full(p, b)
     \/ OverBudget(p, b)
     \/ b.decodes = "ok" /\ TooBig(p, b)
  /\ overflow' = [overflow EXCEPT ![p] = @ \/ Full(p, b) \/ OverBudget(p, b)]
  /\ refused' = [refused EXCEPT ![p] = @ \cup {"ingest"}]
  /\ UNCHANGED <<live, taken, frozen, counters, runs, failures, file, arrivals,
                 damaged, faults>>

(* Refused for its size, by the count and byte quota, by the decoder, or by *)
(* what the decoded payload would retain: the overflow flag is raised.      *)
IngestRefused(p, b) ==
  /\ \/ Full(p, b)
     \/ OverBudget(p, b)
     \/ b.decodes = "ok" /\ TooBig(p, b)
  /\ overflow' = [overflow EXCEPT ![p] = TRUE]
  /\ refused' = [refused EXCEPT ![p] = @ \cup {"ingest"}]
  /\ UNCHANGED <<live, taken, frozen, counters, runs, failures, file, arrivals,
                 damaged, faults>>

Admitted(p, b) ==
  /\ b.decodes = "ok"
  /\ ~ Full(p, b)
  /\ ~ OverBudget(p, b)
  /\ ~ TooBig(p, b)

(* Pushed, appended to the file, counted, answered 200. *)
IngestStored(p, b) ==
  /\ arrivals < MaxArrivals
  /\ Admitted(p, b)
  /\ CanAppend(file[p])
  /\ LET e == [id |-> arrivals, batch |-> b] IN
       /\ live' = [live EXCEPT ![p] = @ \cup {e}]
       /\ file' = [file EXCEPT ![p] = Appended(file[p], e)]
  /\ counters' = [counters EXCEPT ![p] = Add(counters[p], b)]
  /\ arrivals' = arrivals + 1
  /\ UNCHANGED <<taken, frozen, overflow, runs, failures, refused, damaged,
                 faults>>

(* Pushed, not appended, popped again, answered 500. *)
IngestUnwritten(p, b) ==
  /\ Admitted(p, b)
  /\ faults < MaxFaults
  /\ \E f \in AppendFailures(file[p], [id |-> arrivals, batch |-> b]) :
       file' = [file EXCEPT ![p] = f]
  /\ damaged' = [damaged EXCEPT ![p] = TRUE]
  /\ faults' = faults + 1
  /\ UNCHANGED <<live, taken, frozen, counters, overflow, runs, failures,
                 arrivals, refused>>

Ingest(p) ==
  \E b \in {c \in Batches : c.protocol = p} :
    \/ IngestRefused(p, b)
    \/ IngestStored(p, b)
    \/ IngestUnwritten(p, b)

(* Mutant of ReadRefused: the flag is never raised. *)
ReadRefusedQuietly(source) ==
  /\ refused' = [p \in Protocols |->
                   refused[p] \cup IF p = source THEN {"read"} ELSE {}]
  /\ UNCHANGED <<live, taken, frozen, counters, overflow, runs, failures, file,
                 arrivals, damaged, faults>>

(* A request refused while it is read: an export of protocol source with a   *)
(* body over the limit of its path, or ("none") any other request that is    *)
(* too large.  In stress mode it always raises the Datadog flag.            *)
ReadRefused(source) ==
  /\ overflow' = IF Stress THEN [overflow EXCEPT !["datadog"] = TRUE]
                           ELSE overflow
  /\ refused' = [p \in Protocols |->
                   refused[p] \cup IF p = source THEN {"read"} ELSE {}]
  /\ UNCHANGED <<live, taken, frozen, counters, runs, failures, file, arrivals,
                 damaged, faults>>

-----------------------------------------------------------------------------
(* Dumps, resets and validation *)

(* Mutants of FreezeRecords: the live records are copied, not moved; the    *)
(* older snapshot is replaced; both protocols are frozen.                   *)
FreezeCopies(p) ==
  /\ frozen' = [frozen EXCEPT ![p] = Kept(p)]
  /\ taken' = [taken EXCEPT ![p] = TRUE]
  /\ UNCHANGED live

FreezeReplaces(p) ==
  /\ frozen' = [frozen EXCEPT ![p] = live[p]]
  /\ live' = [live EXCEPT ![p] = {}]
  /\ taken' = [taken EXCEPT ![p] = TRUE]

FreezeBoth(p) ==
  /\ frozen' = [q \in Protocols |-> Kept(q)]
  /\ live' = [q \in Protocols |-> {}]
  /\ taken' = [q \in Protocols |-> TRUE]

(* freeze_records: the live records are moved behind the frozen ones. *)
FreezeRecords(p) ==
  /\ frozen' = [frozen EXCEPT ![p] = Kept(p)]
  /\ live' = [live EXCEPT ![p] = {}]
  /\ taken' = [taken EXCEPT ![p] = TRUE]

(* GET /dump: frozen first, persisted second; a failed write answers 500    *)
(* and the records stay frozen.                                            *)
Dump(p) ==
  /\ FreezeRecords(p)
  /\ Persist(p, Kept(p))
  /\ UNCHANGED <<counters, overflow, runs, failures, arrivals, refused>>

(* GET /dump.scm freezes too, and leaves the file alone. *)
DumpScheme(p) ==
  /\ FreezeRecords(p)
  /\ UNCHANGED <<counters, overflow, runs, failures, file, arrivals, refused,
                 damaged, faults>>

(* The signals each reset path retains. *)
Retained(path) ==
  CASE path = "/reset" -> {}
    [] path = "/reset/traces" -> {"metrics", "logs"}
    [] path = "/reset/traces-and-metrics" -> {"logs"}

ResetPaths == {"/reset", "/reset/traces", "/reset/traces-and-metrics"}

Retain(S, path) == {e \in S : e.batch.signal \in Retained(path)}

(* Mutant of Recount: what goes is subtracted, dumped records twice. *)
RecountBySubtraction(p, path) ==
  [counters[p] EXCEPT
     !.records = @ - Cardinality(frozen[p]) - Cardinality(Kept(p))]

(* The counters restart from what is retained. *)
Recount(p, path) == Tally(Retain(Kept(p), path))

Reset(p, path) ==
  /\ live' = [live EXCEPT ![p] = Retain(@, path)]
  /\ frozen' = [frozen EXCEPT ![p] = Retain(@, path)]
  /\ taken' = [taken EXCEPT ![p] = @ /\ path # "/reset"]
  /\ counters' = [counters EXCEPT ![p] = Recount(p, path)]
  /\ overflow' = [overflow EXCEPT ![p] = FALSE]
  /\ runs' = [runs EXCEPT ![p] = 0]
  /\ failures' = [failures EXCEPT ![p] = 0]
  /\ refused' = [refused EXCEPT ![p] = {}]
  /\ Persist(p, Retain(Kept(p), path))
  /\ UNCHANGED arrivals

(* POST /validate and /validate-bytecode: 200, or 409 or 422. *)
Validate(p, failed) ==
  /\ runs[p] < MaxRuns
  /\ runs' = [runs EXCEPT ![p] = @ + 1]
  /\ failures' = [failures EXCEPT ![p] = @ + One(failed)]
  /\ UNCHANGED <<live, taken, frozen, counters, overflow, file, arrivals,
                 refused, damaged, faults>>

Next ==
  \/ \E p \in Protocols :
       \/ Ingest(p)
       \/ Dump(p)
       \/ DumpScheme(p)
       \/ \E path \in ResetPaths : Reset(p, path)
       \/ \E failed \in BOOLEAN : Validate(p, failed)
  \/ \E source \in Protocols \cup {"none"} : ReadRefused(source)

Spec == Init /\ [][Next]_vars

-----------------------------------------------------------------------------
(* Properties *)

Tallies ==
  [records : Nat, bytes : Nat, traceRequests : Nat, traceSpans : Nat,
   metricRequests : Nat, logRequests : Nat]

(* Every variable keeps its type: the Vecs, counters and flags of serve.    *)
TypeOK ==
  /\ live \in [Protocols -> SUBSET Entry]
  /\ taken \in [Protocols -> BOOLEAN]
  /\ frozen \in [Protocols -> SUBSET Entry]
  /\ counters \in [Protocols -> Tallies]
  /\ overflow \in [Protocols -> BOOLEAN]
  /\ runs \in [Protocols -> Nat]
  /\ failures \in [Protocols -> Nat]
  /\ file \in [Protocols -> [form : Forms, held : SUBSET Entry]]
  /\ arrivals \in Nat
  /\ refused \in [Protocols -> SUBSET {"read", "ingest"}]
  /\ damaged \in [Protocols -> BOOLEAN]
  /\ faults \in Nat

(* /stats always shows exactly what the frozen and live records add up to:  *)
(* the increments of ingest and the recount of a reset never drift apart.   *)
CountersExact == \A p \in Protocols : counters[p] = Tally(Kept(p))

(* One capture never retains more records or bytes than its quota, whatever *)
(* mixture of exports, dumps and partial resets led to it.                  *)
WithinQuota ==
  \A p \in Protocols :
    /\ Cardinality(Kept(p)) <= MaxRecords
    /\ Cardinality(RetainedUnits(Kept(p))) <= CaptureLimit

(* frozen ++ live is in arrival order and holds no record twice, also when  *)
(* dumps and partial resets are interleaved with exports; and a record only *)
(* ever sits in the capture of its own protocol.                            *)
ArrivalOrder ==
  \A p \in Protocols :
    /\ \A e \in frozen[p], d \in live[p] : e.id < d.id
    /\ \A e, d \in Kept(p) : e.id = d.id => e = d
    /\ \A e \in Kept(p) : e.id < arrivals /\ e.batch.protocol = p

(* The output file differs from the capture only after a file operation     *)
(* failed, and was answered 500, since the last dump or reset rewrote it.   *)
DamageWasReported ==
  \A p \in Protocols : ~ damaged[p] => file[p] = ArrayOf(Kept(p))

(* An export that ingest refuses for its size is visible in /stats until    *)
(* the next reset; without stress mode nothing else raises the flag; with   *)
(* it, no Datadog export is lost silently, not even while it is read.       *)
LossIsVisible ==
  /\ \A p \in Protocols : "ingest" \in refused[p] => overflow[p]
  /\ ~ Stress => \A p \in Protocols : overflow[p] => "ingest" \in refused[p]
  /\ Stress => (refused["datadog"] # {} => overflow["datadog"])

Own(p) ==
  <<live[p], taken[p], frozen[p], counters[p], overflow[p], runs[p],
    failures[p], file[p]>>

(* A request changes the state of one protocol only: no dump, reset, export *)
(* or validation of one reaches the records, counters or file of the other. *)
OneProtocolPerRequest ==
  [][\A p, q \in Protocols : p # q => (Own(p)' = Own(p) \/ Own(q)' = Own(q))]_vars

(* storage.rs: "Maintain a complete JSON array on disk".  Every export that *)
(* is answered 200 leaves the complete capture on disk.                     *)
CompleteArrayOnDisk ==
  [][arrivals' # arrivals =>
       \A p \in Protocols : live'[p] # live[p] => file'[p] = ArrayOf(Kept(p)')]_vars

(* harness/README.md: "Each protocol has independent snapshots and          *)
(* counters".  The overflow flag of a protocol speaks of its own exports.   *)
IndependentCounters ==
  \A p \in Protocols : overflow[p] => refused[p] # {}

(* The sink keeps the promise of Capture.tla. *)
Promise ==
  INSTANCE Capture WITH
    Entries <- [id : 0 .. MaxArrivals, batch : Batches],
    Discards <- {{e \in [id : 0 .. MaxArrivals, batch : Batches] :
                    e.batch.signal \notin Retained(path)} : path \in ResetPaths},
    kept <- [p \in Protocols |-> Kept(p)],
    snapshot <- frozen
KeepsPromise == Promise!Spec
=============================================================================
