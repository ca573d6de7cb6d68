----------------------------- MODULE Experiments -----------------------------
(***************************************************************************)
(* How the external feature probe infers from two captures that a setting    *)
(* had its effect (evaluate and the functions it is built from,              *)
(* harness/external_features/capture.go).                                    *)
(*                                                                         *)
(* The baseline capture is what the workload makes an SDK export without the  *)
(* setting.  The changed capture starts as what an SDK that obeys the         *)
(* setting, or one that ignores it, exports for the same workload, and then   *)
(* suffers defects one after the other: records lost, repeated, damaged, put  *)
(* into another trace.  The verdict is evaluate's on each of these captures.  *)
(*                                                                         *)
(* A record keeps what the verdict depends on.  Its name stands for its name, *)
(* kind, flags, status, links, scope and times; an attribute value for its    *)
(* length; the order of the records for that of their timestamps.            *)
(***************************************************************************)
EXTENDS Naturals, FiniteSets, Sequences, SequencesExt

CONSTANTS
  Cases,      \* the experiments evaluated
  Baselines,  \* the captures they start from
  Probes,     \* tagged requests of the workload (4 in the code)
  Limit,      \* the length limit of the settings (8 in the code)
  MaxDefects  \* defects suffered

LengthCases == {"span-length", "attribute-length", "log-length"}
CountCases == {"attribute-count", "event-attributes", "log-count"}

(* What a capture holds: spans with their events, logs, metric points. *)
Attributes == [key : STRING, len : Nat]
AttributeSets == {A \in SUBSET Attributes : IsFiniteSet(A)}
Resources == [service : STRING, probe : STRING, rest : STRING]
SpanEvents == [name : STRING, attrs : AttributeSets, dropped : Nat]
SpanRecords ==
  [id : Nat, trace : Nat, parent : Nat, name : STRING, server : BOOLEAN,
   attrs : AttributeSets, dropped : Nat, events : Seq(SpanEvents), lost : Nat,
   res : Resources, batch : Nat]
LogRecords ==
  [body : STRING, attrs : AttributeSets, dropped : Nat, trace : Nat, span : Nat,
   res : Resources, batch : Nat]
PointRecords ==
  [name : STRING, state : STRING, type : {"histogram", "exponential", "sum"}, count : Nat,
   exemplars : {"none", "valid", "invalid"}, res : Resources, group : Nat]
Captures == [spans : Seq(SpanRecords), logs : Seq(LogRecords), points : Seq(PointRecords)]

ASSUME ExperimentsAssumption ==
  /\ Cases \subseteq LengthCases \cup CountCases \cup
       {"default-service", "resource", "span-batch", "log-batch", "request-headers",
        "propagation-none", "disabled", "sampler", "events", "exemplars",
        "exemplars-always-on", "histogram"}
  /\ Baselines \subseteq Captures
  /\ {Probes, Limit} \subseteq Nat \ {0}
  /\ MaxDefects \in Nat

VARIABLES
  case,      \* the experiment
  baseline,  \* the capture without the setting
  changed,   \* the capture with it
  obeyed,    \* the SDK obeyed the setting
  defects    \* defects suffered so far

vars == <<case, baseline, changed, obeyed, defects>>

Nowhere == 0    \* no parent
Remote == 99    \* the parent the probe sends in its traceparent header
UserAgent == 2 * Limit + 4  \* the length of the probe's user agent
Header == [key |-> "header", len |-> Limit - 1]  \* the one header it sends
Nothing == [spans |-> <<>>, logs |-> <<>>, points |-> <<>>]

Records(c, signal) == ToSet(c[signal])
MaxOf(S) == IF S = {} THEN 0 ELSE CHOOSE n \in S : \A m \in S : m <= n
Smallest(S) == CHOOSE n \in S : \A m \in S : n <= m

(* How often a function takes each of its values: matchingIdentityCounts finds *)
(* as many identities present as expected exactly when these are equal.       *)
Counts(f) == [v \in {f[i] : i \in DOMAIN f} |-> Cardinality({i \in DOMAIN f : f[i] = v})]

(* The position of a record among those of the same identity *)
Ordinal(ids, i) == <<ids[i], Cardinality({j \in DOMAIN ids : j < i /\ ids[j] = ids[i]})>>

-----------------------------------------------------------------------------
(* The spans of the workload *)

Incoming == 1 .. Probes

(* probeSpans: the user agent is compared as a whole. *)
ProbeSpans(c) ==
  {i \in DOMAIN c.spans :
     c.spans[i].server /\ [key |-> "agent", len |-> UserAgent] \in c.spans[i].attrs}
IncomingProbeTraces(c) == {c.spans[i].trace : i \in ProbeSpans(c)} \cap Incoming
IncomingServerTraces(c) ==
  {s.trace : s \in {s \in Records(c, "spans") : s.server}} \cap Incoming

IsProbeServer(s) == s.server /\ s.name \in {"tags", "users"}

(* isPropagationProbeServerSpan: by a prefix of the user agent or the parent *)
IsPropagationProbe(s) ==
  /\ s.server /\ s.name = "tags"
  /\ s.parent = Remote \/ \E a \in s.attrs : a.key = "agent" /\ a.len > 0

(* Trace 0 is an invalid trace identifier. *)
WorkloadTraces(c) == {s.trace : s \in {s \in Records(c, "spans") : IsProbeServer(s)}} \ {0}
WorkloadSpans(c) == {i \in DOMAIN c.spans : c.spans[i].trace \in WorkloadTraces(c)}

ValidStructure(c) ==
  /\ \A s \in Records(c, "spans") : IsProbeServer(s) => s.trace # 0
  /\ \A i, j \in WorkloadSpans(c) :
       i # j => <<c.spans[i].trace, c.spans[i].id>> # <<c.spans[j].trace, c.spans[j].id>>

(* workloadTracePartitions *)
Partitions(c) ==
  Counts([trace \in WorkloadTraces(c) |->
    LET members == {i \in DOMAIN c.spans : c.spans[i].trace = trace}
    IN <<Cardinality(members),
         Cardinality({i \in members : IsProbeServer(c.spans[i])}),
         Cardinality({i \in members : \A j \in members : c.spans[j].id # c.spans[i].parent})>>])

(* The resource a record is compared with: some settings change it. *)
Context(r) ==
  CASE case = "default-service" -> [r.res EXCEPT !.service = "ignored"]
    [] case = "resource" -> [r.res EXCEPT !.service = "ignored", !.probe = "ignored"]
    [] OTHER -> r.res

At(c, trace, id) == {i \in DOMAIN c.spans : c.spans[i].trace = trace /\ c.spans[i].id = id}

(* Mutant of Relationship: the parents of probes are compared under propagation-none too. *)
RelationshipAlways(c, s) ==
  CASE s.parent = Nowhere -> <<"root">>
    [] s.parent # Nowhere /\ At(c, s.trace, s.parent) # {} ->
         LET p == c.spans[Smallest(At(c, s.trace, s.parent))] IN <<"local", p.name, Context(p)>>
    [] OTHER -> IF IsPropagationProbe(s) THEN <<"remote probe", s.parent>> ELSE <<"remote">>

(* spanParentRelationshipID and spanParentRelationshipIDForPropagation *)
Relationship(c, s) ==
  LET parents == At(c, s.trace, s.parent)
      parent == c.spans[Smallest(parents)]
  IN IF case = "propagation-none" /\ IsPropagationProbe(s) THEN <<"propagation probe">>
     ELSE CASE s.parent = Nowhere -> <<"root">>
            [] s.parent # Nowhere /\ parents # {} -> <<"local", parent.name, Context(parent)>>
            [] s.parent # Nowhere /\ parents = {} ->
                 IF IsPropagationProbe(s) THEN <<"remote probe", s.parent>> ELSE <<"remote">>

Shortened(attrs) == {[a EXCEPT !.len = IF @ > Limit THEN Limit ELSE @] : a \in attrs}
ShortenedEvents(events) == [i \in DOMAIN events |-> [events[i] EXCEPT !.attrs = Shortened(@)]]

(* Attributes and their dropped count are left out where the limit applies. *)
Uncounted(r, cap) ==
  IF Cardinality(r.attrs) > cap \/ r.dropped > 0 THEN [r EXCEPT !.attrs = {}, !.dropped = 0] ELSE r

Whole(s) == [name |-> s.name, attrs |-> s.attrs, dropped |-> s.dropped,
             events |-> s.events, lost |-> s.lost]
LengthLimited(s) == [Whole(s) EXCEPT !.attrs = Shortened(@), !.events = ShortenedEvents(@)]
CountLimited(s) ==
  [Uncounted(Whole(s), 2) EXCEPT !.events = [i \in DOMAIN @ |-> Uncounted(@[i], 2)]]

(* workloadSpanID and its variants, one for each kind of setting *)
SpanForm(s) ==
  CASE case = "request-headers" /\ IsPropagationProbe(s) ->
         [Whole(s) EXCEPT !.attrs = {a \in @ : a.key # "header"}]
    [] case = "span-length" -> [LengthLimited(s) EXCEPT !.events = s.events]
    [] case = "attribute-length" -> LengthLimited(s)
    [] case = "attribute-count" -> CountLimited(s)
    [] case \in {"events", "event-attributes"} -> [Whole(s) EXCEPT !.events = <<>>, !.lost = 0]
    [] OTHER -> Whole(s)

SpanIdentity(c, s) == <<SpanForm(s), Context(s), Relationship(c, s)>>

(* Mutant of SameSpans: the traces the spans are in are not compared. *)
SameSpansAnywhere(b, c) ==
  Counts([i \in WorkloadSpans(b) |-> SpanIdentity(b, b.spans[i])]) =
  Counts([i \in WorkloadSpans(c) |-> SpanIdentity(c, c.spans[i])])

(* matchingWorkloadIdentityCounts *)
SameSpans(b, c) ==
  /\ Counts([i \in WorkloadSpans(b) |-> SpanIdentity(b, b.spans[i])]) =
     Counts([i \in WorkloadSpans(c) |-> SpanIdentity(c, c.spans[i])])
  /\ ValidStructure(c)
  /\ Partitions(b) = Partitions(c)

SpansKept(b, c) ==
  \/ case \in {"disabled", "sampler", "exemplars-always-on"}
  \/ case \in {"default-service", "resource", "exemplars"} /\ b.spans = <<>>
  \/ /\ SameSpans(b, c)
     /\ case \in {"log-batch", "log-length", "log-count", "event-attributes", "events",
                  "histogram"} \/ WorkloadSpans(b) # {}

-----------------------------------------------------------------------------
(* Logs *)

(* correlatedSpanOccurrenceID: which of the spans of that shape it is *)
Occurrence(c, i) ==
  Ordinal([j \in DOMAIN c.spans |-> <<c.spans[j].name, Context(c.spans[j])>>], i)

(* logCorrelationID, and its forms for the samplers and for propagation *)
Correlation(c, l) ==
  LET at == At(c, l.trace, l.span)
      probed == \E i \in WorkloadSpans(c) :
                  c.spans[i].trace = l.trace /\ IsPropagationProbe(c.spans[i])
      span == c.spans[Smallest(at)]
  IN CASE l.trace = 0 /\ l.span = 0 -> <<"none">>
       [] (l.trace = 0) # (l.span = 0) -> <<"invalid">>
       [] l.trace # 0 /\ l.span # 0 ->
            IF case = "sampler" THEN <<"valid">>
            ELSE IF case = "propagation-none" /\ probed
            THEN IF at = {} THEN <<"probe unmatched">>
                 ELSE <<"probe matched", Whole(span), Context(span)>>
            ELSE IF at = {} THEN <<"unmatched">> ELSE <<"matched", Occurrence(c, Smallest(at))>>

(* logStreamID, logLengthStreamID and logCountStreamID *)
LogForm(l) ==
  LET whole == [body |-> l.body, attrs |-> l.attrs, dropped |-> l.dropped] IN
  CASE case \in {"attribute-length", "log-length"} -> [whole EXCEPT !.attrs = Shortened(@)]
    [] case = "attribute-count" -> Uncounted(whole, 2)
    [] case = "log-count" -> Uncounted(whole, 1)
    [] OTHER -> whole

LogIdentities(c) ==
  Counts([i \in DOMAIN c.logs |->
    <<LogForm(c.logs[i]), Context(c.logs[i]), Correlation(c, c.logs[i])>>])

LogsKept(b, c) ==
  \/ case = "disabled"
  \/ /\ case \in {"default-service", "resource", "propagation-none", "sampler", "exemplars"}
     /\ b.logs = <<>>
  \/ LogIdentities(b) = LogIdentities(c)

-----------------------------------------------------------------------------
(* Metrics: the points of a capture are compared as a set, but one export may *)
(* not repeat a point.                                                      *)

Transient(p) == p.name = "connections"
PointID(p) == <<p.name, p.type, Context(p), p.state>>
StreamID(p) == <<p.name, p.type, Context(p)>>

(* metricMeasurementID: not the value, only that there is one *)
Measured(p) == p.type = "sum" \/ p.count > 0

(* controlMetricPointIDWithExemplars *)
PointIdentity(p) ==
  IF Transient(p) THEN [id |-> <<StreamID(p), "any">>, measured |-> TRUE, exemplars |-> "ignored"]
  ELSE [id |-> <<StreamID(p), p.state>>,
        measured |-> Measured(p),
        exemplars |-> IF case \in {"sampler", "exemplars", "exemplars-always-on"}
                      THEN "ignored" ELSE p.exemplars]

Compared(c) ==
  {i \in DOMAIN c.points : case = "histogram" => c.points[i].type = "sum"}

MetricIdentities(c) == {PointIdentity(c.points[i]) : i \in Compared(c)}

Duplicated(c) ==
  \E i, j \in Compared(c) :
    /\ i # j /\ c.points[i].group = c.points[j].group
    /\ ~Transient(c.points[i])
    /\ PointIdentity(c.points[i]) = PointIdentity(c.points[j])

MetricsKept(b, c) ==
  \/ case = "disabled"
  \/ /\ case \in {"default-service", "resource", "propagation-none", "sampler"}
     /\ b.points = <<>>
  \/ MetricIdentities(b) = MetricIdentities(c) /\ ~Duplicated(c)

WithExemplars(c) == {p \in Records(c, "points") : p.exemplars # "none" /\ ~Transient(p)}

(* Mutant of ExemplarsSuppressed: remaining exemplars are not counted. *)
ExemplarsPreserved(b, c) ==
  {PointID(p) : p \in WithExemplars(b)} \subseteq {PointID(p) : p \in Records(c, "points")}

(* suppressedExemplars *)
ExemplarsSuppressed(b, c) ==
  /\ {PointID(p) : p \in WithExemplars(b)} \subseteq {PointID(p) : p \in Records(c, "points")}
  /\ \A p \in Records(c, "points") : p.exemplars = "none"

(* unsampledExemplars: points of the streams without an exemplar *)
Unsampled(b) ==
  {PointID(p) : p \in {p \in Records(b, "points") :
     ~Transient(p) /\ StreamID(p) \notin {StreamID(q) : q \in WithExemplars(b)}}}

UnsampledGained(b, c) ==
  Unsampled(b) \subseteq
    {PointID(p) : p \in {p \in Records(c, "points") : p.exemplars = "valid"}}

(* convertedHistograms: every series, with the largest count it reached *)
Series(c, type) ==
  LET points == {p \in Records(c, "points") : p.type = type /\ p.count > 0}
      Key(p) == <<p.name, p.state, Context(p)>>
  IN [k \in {Key(p) : p \in points} |-> MaxOf({p.count : p \in {p \in points : Key(p) = k}})]

HistogramsConverted(b, c) ==
  /\ Series(b, "histogram") = Series(c, "exponential")
  /\ \A p \in Records(c, "points") :
       p.type # "histogram" /\ (p.type = "exponential" => p.count > 0)

-----------------------------------------------------------------------------
(* What a limit must keep of the records it affects *)

Events(c) == UNION {ToSet(s.events) : s \in Records(c, "spans")}
LengthOf(R) == MaxOf(UNION {{a.len : a \in r.attrs} : r \in R})
CountOf(R) == MaxOf({Cardinality(r.attrs) : r \in R})

(* maxBatch: of the records one export request carries *)
BatchOf(c, signal) ==
  MaxOf({Cardinality({j \in DOMAIN c[signal] : c[signal][j].batch = c[signal][i].batch}) :
           i \in DOMAIN c[signal]})

(* identifiedLogRecords, identifiedIncomingSpans and identifiedSpans *)
IdentifiedLogs(c) ==
  LET ids == [i \in DOMAIN c.logs |-> <<c.logs[i].body, c.logs[i].res>>]
  IN {[id |-> <<"log", Ordinal(ids, i)>>, of |-> c.logs[i]] : i \in DOMAIN ids}

IdentifiedIncoming(c) ==
  LET ids == [i \in DOMAIN c.spans |-> <<c.spans[i].trace, c.spans[i].name, c.spans[i].res>>]
  IN {[id |-> <<"span", Ordinal(ids, i)>>, of |-> c.spans[i]] :
        i \in {i \in DOMAIN ids : c.spans[i].trace \in Incoming}}

IdentifiedSpans(c) ==
  LET ids == [i \in DOMAIN c.spans |-> <<c.spans[i].name, c.spans[i].attrs, c.spans[i].res>>]
  IN {[id |-> Ordinal(ids, i), of |-> c.spans[i]] : i \in DOMAIN ids}

(* identifiedGlobalEvents, by the form of the span they are in *)
IdentifiedEvents(c, Form(_)) ==
  LET all == FlattenSeq([i \in DOMAIN c.spans |->
               [k \in DOMAIN c.spans[i].events |->
                  [id |-> <<Form(c.spans[i]), c.spans[i].res, Relationship(c, c.spans[i]),
                            c.spans[i].events[k].name>>,
                   of |-> c.spans[i].events[k]]]])
      ids == [i \in DOMAIN all |-> all[i].id]
  IN {[id |-> <<"event", Ordinal(ids, i)>>, of |-> all[i].of] : i \in DOMAIN all}

Shape(s) == s.name

(* preservedLongIdentifiedAttributes: every attribute that was too long is     *)
(* found cut to the limit on the record of the same identity.                 *)
LongPreserved(before, after) ==
  LET cut == UNION {{<<r.id, [a EXCEPT !.len = Limit]>> :
                       a \in {a \in r.of.attrs : a.len > Limit}} : r \in before}
  IN cut # {} /\ \A l \in cut : \E r \in after : r.id = l[1] /\ l[2] \in r.of.attrs

(* Mutant of Retained: the count of dropped attributes is not compared. *)
RetainedUncounted(x, y, cap) ==
  Cardinality(x.attrs) > cap /\ Cardinality(y.attrs) = cap /\ y.attrs \subseteq x.attrs

(* A record over the limit keeps as many attributes as the limit allows, and  *)
(* counts those it dropped.                                                  *)
Retained(x, y, cap) ==
  /\ Cardinality(x.attrs) > cap /\ Cardinality(y.attrs) = cap /\ y.attrs \subseteq x.attrs
  /\ y.dropped = x.dropped + Cardinality(x.attrs) - cap

(* Every record over the limit is taken by a later record that fits it: each  *)
(* of those, in their order, takes the first that fits, whose place goes to    *)
(* the first that is left.                                                   *)
AllTaken(over, after, Fits(_, _)) ==
  LET left[k \in 0 .. Len(after)] ==
        IF k = 0 THEN over
        ELSE LET fits == {p \in DOMAIN left[k - 1] : Fits(left[k - 1][p], after[k])}
             IN IF fits = {} THEN left[k - 1]
                ELSE Tail([left[k - 1] EXCEPT ![Smallest(fits)] = left[k - 1][1]])
  IN left[Len(after)] = <<>>

(* limitedCountLogStreamRecords *)
LogsLimited(b, c, cap) ==
  LET Kind(l) == <<l.body, l.res>>
      Fits(x, y) == Kind(x) = Kind(y) /\ Retained(x, y, cap)
  IN \A kind \in {Kind(l) : l \in Records(b, "logs")} :
       AllTaken(SelectSeq(b.logs, LAMBDA l : Kind(l) = kind /\ Cardinality(l.attrs) > cap),
                c.logs, Fits)

(* limitedGlobalCountSpanRecords: what the SDK counts as dropped may exceed    *)
(* what is missing, but is the same for all spans of one identity.            *)
SpansLimited(b, c) ==
  LET Workload(d) == SelectSeq(d.spans, LAMBDA s : s.trace \in WorkloadTraces(d))
      Cut(y) == Cardinality(y.attrs) = 2
      Reported(id) ==
        {y.dropped : y \in {y \in ToSet(Workload(c)) :
           SpanIdentity(c, y) = id /\ Cut(y) /\ y.dropped > 0}}
      Fits(x, y) ==
        /\ SpanIdentity(b, x) = SpanIdentity(c, y)
        /\ Cut(y) /\ y.attrs \subseteq x.attrs
        /\ y.dropped \in Reported(SpanIdentity(c, y))
        /\ \A n \in Reported(SpanIdentity(c, y)) : y.dropped <= n
        /\ y.dropped >= x.dropped + Cardinality(x.attrs) - 2
  IN \A id \in {SpanIdentity(b, x) : x \in ToSet(Workload(b))} :
       AllTaken(SelectSeq(Workload(b),
                  LAMBDA x : SpanIdentity(b, x) = id /\ Cardinality(x.attrs) > 2),
                Workload(c), Fits)

(* limitedGlobalCountEventRecords and matchingGlobalCountLimitedEvents *)
EventsLimited(b, c) ==
  LET Kinds(d) == {[e EXCEPT !.of = Uncounted(@, 2)] : e \in IdentifiedEvents(d, Shape)}
  IN /\ \A x \in IdentifiedEvents(b, CountLimited) : Cardinality(x.of.attrs) > 2 =>
          \E y \in IdentifiedEvents(c, CountLimited) :
            y.id = x.id /\ Retained(x.of, y.of, 2)
     /\ Kinds(b) = Kinds(c)

(* limitedEventRecords and matchingCountLimitedEvents: by the span they are in *)
EventAttributesLimited(b, c) ==
  LET Kinds(d) ==
        {<<s.id, Counts([k \in DOMAIN s.of.events |-> Uncounted(s.of.events[k], 1)])>> :
           s \in {s \in IdentifiedSpans(d) : s.of.events # <<>>}}
      Fits(x, y) == x.name = y.name /\ Retained(x, y, 1)
      Over(s) == SelectSeq(s.events, LAMBDA e : Cardinality(e.attrs) > 1)
  IN /\ \A x \in IdentifiedSpans(b) :
          \A name \in {e.name : e \in ToSet(Over(x.of))} :
            \E y \in IdentifiedSpans(c) :
              /\ y.id = x.id
              /\ AllTaken(SelectSeq(Over(x.of), LAMBDA e : e.name = name), y.of.events, Fits)
     /\ Kinds(b) = Kinds(c)

(* suppressedEventRecords *)
EventsSuppressed(b, c) ==
  \A x \in IdentifiedSpans(b) : x.of.events # <<>> =>
    \E y \in IdentifiedSpans(c) :
      y.id = x.id /\ y.of.events = <<>> /\ y.of.lost = x.of.lost + Len(x.of.events)

(* limitedProbeRequests *)
ProbesLimited(b, c) ==
  \A t \in IncomingProbeTraces(b) : \E s \in Records(c, "spans") :
    s.trace = t /\ s.server /\ Cardinality(s.attrs) = 2 /\ s.dropped > 0

-----------------------------------------------------------------------------
(* evaluate *)

AllRecords(c) == Records(c, "spans") \cup Records(c, "logs") \cup Records(c, "points")
Attributed(c) == Records(c, "spans") \cup Records(c, "logs") \cup Events(c)
AllProbes(c) ==
  Cardinality(ProbeSpans(c)) = Probes /\ Cardinality(IncomingProbeTraces(c)) = Probes

(* The records whose attributes the setting limits *)
Limited(c) ==
  CASE case = "span-length" -> Records(c, "spans")
    [] case \in {"log-length", "log-count"} -> Records(c, "logs")
    [] case = "event-attributes" -> Events(c)
    [] OTHER -> Attributed(c)

Cap == IF case = "attribute-count" THEN 2 ELSE 1

(* The prerequisite: the baseline has what the setting acts on. *)
Exercised(b) ==
  CASE case \in {"default-service", "resource"} -> AllRecords(b) # {}
    [] case = "span-batch" -> BatchOf(b, "spans") > 1
    [] case = "log-batch" -> BatchOf(b, "logs") > 1
    [] case = "exemplars-always-on" -> Unsampled(b) # {} /\ b.spans = <<>>
    [] case = "request-headers" -> AllProbes(b)
    [] case = "propagation-none" ->
         /\ Cardinality(ProbeSpans(b)) = Probes
         /\ Cardinality({b.spans[i].trace : i \in {i \in ProbeSpans(b) :
              b.spans[i].parent = Remote}} \cap Incoming) = Probes
    [] case \in {"disabled", "sampler"} -> b.spans # <<>>
    [] case \in LengthCases -> LengthOf(Limited(b)) > Limit
    [] case = "attribute-count" -> CountOf(Limited(b)) > Cap /\ WorkloadSpans(b) # {}
    [] case \in {"event-attributes", "log-count"} -> CountOf(Limited(b)) > Cap
    [] case = "events" -> Events(b) # {}
    [] case = "exemplars" -> WithExemplars(b) # {}
    [] case = "histogram" -> DOMAIN Series(b, "histogram") # {}

AllKept(b, c) == SpansKept(b, c) /\ LogsKept(b, c) /\ MetricsKept(b, c)

RequestsPreserved(b, c) ==
  IncomingProbeTraces(b) = {} \/
    Cardinality(IncomingServerTraces(c)) = Cardinality(IncomingProbeTraces(b))

SomeDropped(R) == \E r \in R : r.dropped > 0

(* The length settings *)
LengthsLimited(b, c) ==
  /\ LengthOf(Limited(c)) = Limit
  /\ case = "log-length" => LongPreserved(IdentifiedLogs(b), IdentifiedLogs(c))
  /\ case = "span-length" => LongPreserved(IdentifiedIncoming(b), IdentifiedIncoming(c))
  /\ case = "attribute-length" =>
       LET All(d) == IdentifiedLogs(d) \cup IdentifiedIncoming(d)
                       \cup IdentifiedEvents(d, LengthLimited)
           Kinds(d) == {<<e.id, Shortened(e.of.attrs)>> : e \in IdentifiedEvents(d, LengthLimited)}
       IN LongPreserved(All(b), All(c)) /\ Kinds(b) = Kinds(c)
  /\ case # "log-length" =>
       /\ Cardinality(IncomingProbeTraces(b)) = Probes
       /\ Cardinality(IncomingServerTraces(c)) = Probes

(* The count settings *)
CountsLimited(b, c) ==
  /\ CountOf(Limited(c)) = Cap
  /\ SomeDropped(Limited(c))
  /\ case = "log-count" => LogsLimited(b, c, 1)
  /\ case = "event-attributes" => EventAttributesLimited(b, c)
  /\ case = "attribute-count" =>
       /\ IncomingProbeTraces(b) # {} /\ ProbesLimited(b, c)
       /\ SpansLimited(b, c) /\ LogsLimited(b, c, 2) /\ EventsLimited(b, c)

(* The success, but for what must be kept *)
Effective(b, c) ==
  CASE case = "default-service" ->
         /\ AllRecords(c) # {} /\ \A r \in AllRecords(c) : r.res.service = "unknown"
         /\ ProbeSpans(b) # {} => Cardinality(ProbeSpans(c)) = Cardinality(ProbeSpans(b))
         /\ ProbeSpans(b) # {} =>
              Cardinality(IncomingServerTraces(c)) = Cardinality(IncomingProbeTraces(b))
    [] case = "resource" ->
         /\ AllRecords(c) # {}
         /\ \A r \in AllRecords(c) : r.res.service = "external-probe" /\ r.res.probe = "visible"
         /\ RequestsPreserved(b, c)
    [] case = "span-batch" -> BatchOf(c, "spans") = 1 /\ AllProbes(c)
    [] case = "log-batch" -> BatchOf(c, "logs") = 1 /\ Len(c.logs) >= 2
    [] case = "exemplars-always-on" -> c.spans = <<>> /\ UnsampledGained(b, c)
    [] case = "request-headers" ->
         /\ AllProbes(c)
         /\ \A i \in ProbeSpans(c) : {a \in c.spans[i].attrs : a.key = "header"} = {Header}
    [] case = "propagation-none" ->
         /\ Cardinality(ProbeSpans(c)) = Probes
         /\ Cardinality({c.spans[i].trace : i \in {i \in ProbeSpans(c) :
              c.spans[i].parent = Nowhere}} \ (Incoming \cup {0})) = Probes
    [] case = "disabled" -> c = Nothing
    [] case = "sampler" -> c.spans = <<>>
    [] case \in LengthCases -> LengthsLimited(b, c)
    [] case \in CountCases -> CountsLimited(b, c)
    [] case = "events" ->
         /\ c.spans # <<>> /\ Events(c) = {} /\ EventsSuppressed(b, c)
         /\ \E s \in Records(c, "spans") : s.lost > 0
    [] case = "exemplars" -> ExemplarsSuppressed(b, c)
    [] case = "histogram" -> HistogramsConverted(b, c)

(* Mutant of Verdict: the observation does not start as a gap. *)
VerdictUnset(b, c) ==
  IF Exercised(b) THEN IF Effective(b, c) /\ AllKept(b, c) THEN "pass" ELSE ""
  ELSE "not_exercised"

Verdict(b, c) ==
  IF Exercised(b) THEN IF Effective(b, c) /\ AllKept(b, c) THEN "pass" ELSE "gap"
  ELSE IF case = "histogram" /\ b # Nothing /\ ~AllKept(b, c) THEN "gap" ELSE "not_exercised"

-----------------------------------------------------------------------------
(* The SDK under the setting *)

Lasting(attrs, cap) ==
  IF Cardinality(attrs) <= cap THEN attrs
  ELSE CHOOSE S \in SUBSET attrs : Cardinality(S) = cap

Cut(r, cap) ==
  [r EXCEPT !.attrs = Lasting(@, cap),
            !.dropped = @ + Cardinality(r.attrs) - Cardinality(Lasting(r.attrs, cap))]

Named(r) ==
  CASE case = "default-service" -> [r EXCEPT !.res.service = "unknown"]
    [] case = "resource" -> [r EXCEPT !.res.service = "external-probe", !.res.probe = "visible"]
    [] OTHER -> r

(* A request whose context is not extracted starts a trace of its own. *)
Fresh(trace) == IF trace \in Incoming THEN 200 + trace ELSE trace

ObeyingSpan(s, i) ==
  CASE case = "span-batch" -> [s EXCEPT !.batch = i]
    [] case = "request-headers" /\ IsPropagationProbe(s) -> [s EXCEPT !.attrs = @ \cup {Header}]
    [] case = "propagation-none" ->
         [s EXCEPT !.trace = Fresh(@), !.parent = IF @ = Remote THEN Nowhere ELSE @]
    [] case = "span-length" -> [s EXCEPT !.attrs = Shortened(@)]
    [] case = "attribute-length" ->
         [s EXCEPT !.attrs = Shortened(@), !.events = ShortenedEvents(@)]
    [] case = "attribute-count" ->
         [Cut(s, 2) EXCEPT !.events = [k \in DOMAIN @ |-> Cut(@[k], 2)]]
    [] case = "event-attributes" -> [s EXCEPT !.events = [k \in DOMAIN @ |-> Cut(@[k], 1)]]
    [] case = "events" -> [s EXCEPT !.events = <<>>, !.lost = @ + Len(s.events)]
    [] OTHER -> Named(s)

ObeyingLog(l, i) ==
  CASE case = "log-batch" -> [l EXCEPT !.batch = i]
    [] case = "propagation-none" -> [l EXCEPT !.trace = Fresh(@)]
    [] case \in {"attribute-length", "log-length"} -> [l EXCEPT !.attrs = Shortened(@)]
    [] case = "attribute-count" -> Cut(l, 2)
    [] case = "log-count" -> Cut(l, 1)
    [] OTHER -> Named(l)

ObeyingPoint(p) ==
  CASE case \in {"sampler", "exemplars"} -> [p EXCEPT !.exemplars = "none"]
    [] case = "exemplars-always-on" -> [p EXCEPT !.exemplars = "valid"]
    [] case = "histogram" -> [p EXCEPT !.type = IF @ = "histogram" THEN "exponential" ELSE @]
    [] OTHER -> Named(p)

Obeying(b) ==
  IF case = "disabled" THEN Nothing
  ELSE [spans |-> IF case = "sampler" THEN <<>>
                  ELSE [i \in DOMAIN b.spans |-> ObeyingSpan(b.spans[i], i)],
        logs |-> [i \in DOMAIN b.logs |-> ObeyingLog(b.logs[i], i)],
        points |-> [i \in DOMAIN b.points |-> ObeyingPoint(b.points[i])]]

Init ==
  /\ case \in Cases
  /\ baseline \in Baselines
  /\ obeyed \in BOOLEAN
  /\ changed = IF obeyed THEN Obeying(baseline) ELSE baseline
  /\ defects = 0

Suffer(capture) ==
  /\ defects < MaxDefects
  /\ capture # changed
  /\ changed' = capture
  /\ defects' = defects + 1
  /\ UNCHANGED <<case, baseline, obeyed>>

Lose == \E signal \in DOMAIN changed : \E i \in DOMAIN changed[signal] :
  Suffer([changed EXCEPT ![signal] = RemoveAt(@, i)])

Repeat == \E signal \in DOMAIN changed : \E i \in DOMAIN changed[signal] :
  Suffer([changed EXCEPT ![signal] = Append(@, @[i])])

LoseAttribute == \E signal \in {"spans", "logs"} : \E i \in DOMAIN changed[signal] :
  \E a \in changed[signal][i].attrs :
    Suffer([changed EXCEPT ![signal][i].attrs = @ \ {a}])

Damage == \E signal \in {"spans", "logs"} : \E i \in DOMAIN changed[signal] :
  \E a \in changed[signal][i].attrs :
    Suffer([changed EXCEPT ![signal][i].attrs = (@ \ {a}) \cup {[a EXCEPT !.len = @ - 1]}])

(* A count of what was dropped is one too low or one too high. *)
Miscount == \E signal \in {"spans", "logs"} : \E i \in DOMAIN changed[signal] :
  \E n \in {changed[signal][i].dropped + 1, changed[signal][i].dropped - 1} \cap Nat :
    Suffer([changed EXCEPT ![signal][i].dropped = n])

LoseEvent == \E i \in DOMAIN changed.spans : \E k \in DOMAIN changed.spans[i].events :
  Suffer([changed EXCEPT !.spans[i].events = RemoveAt(@, k)])

ForgetLostEvents == \E i \in DOMAIN changed.spans :
  Suffer([changed EXCEPT !.spans[i].lost = 0])

(* A span goes to the trace of another, or under another parent. *)
Move == \E i, j \in DOMAIN changed.spans :
  \/ Suffer([changed EXCEPT !.spans[i].trace = changed.spans[j].trace])
  \/ Suffer([changed EXCEPT !.spans[i].parent = changed.spans[j].id])

(* A log is written in the context of another span, or of none. *)
Misattribute == \E i \in DOMAIN changed.logs :
  \/ Suffer([changed EXCEPT !.logs[i].trace = 0, !.logs[i].span = 0])
  \/ \E j \in DOMAIN changed.spans :
       Suffer([changed EXCEPT !.logs[i].trace = changed.spans[j].trace,
                              !.logs[i].span = changed.spans[j].id])

Batch == \E signal \in {"spans", "logs"} : \E i \in DOMAIN changed[signal] :
  Suffer([changed EXCEPT ![signal][i].batch = 1])

Disown == \E signal \in DOMAIN changed : \E i \in DOMAIN changed[signal] :
  Suffer([changed EXCEPT ![signal][i].res = [service |-> "app", probe |-> "", rest |-> "other"]])

ChangeExemplars == \E i \in DOMAIN changed.points : \E e \in {"none", "valid", "invalid"} :
  Suffer([changed EXCEPT !.points[i].exemplars = e])

Miscollect == \E i \in DOMAIN changed.points :
  Suffer([changed EXCEPT !.points[i].count = 0])

Next ==
  \/ Lose \/ Repeat \/ LoseAttribute \/ Damage \/ Miscount \/ LoseEvent \/ ForgetLostEvents
  \/ Move \/ Misattribute \/ Batch \/ Disown \/ ChangeExemplars \/ Miscollect

Spec == Init /\ [][Next]_vars

-----------------------------------------------------------------------------
(* What the verdict should mean, record by record *)

Same(x, y, fields) == \A f \in fields : x[f] = y[f]

(* y is what the setting makes of the resource of x. *)
SameService(x, y) ==
  /\ x.res.rest = y.res.rest
  /\ case \notin {"default-service", "resource"} => x.res = y.res
  /\ case = "default-service" => y.res.service = "unknown" /\ x.res.probe = y.res.probe
  /\ case = "resource" => y.res.service = "external-probe" /\ y.res.probe = "visible"

Kept(x, y, cap, exactly) ==
  IF Cardinality(x.attrs) <= cap THEN Same(x, y, {"attrs", "dropped"})
  ELSE /\ y.attrs \subseteq x.attrs /\ Cardinality(y.attrs) = cap
       /\ LET removed == x.dropped + Cardinality(x.attrs) - cap
          IN IF exactly THEN y.dropped = removed ELSE y.dropped >= removed

EventOutcome(x, y) ==
  /\ x.name = y.name
  /\ CASE case = "attribute-length" -> y.attrs = Shortened(x.attrs) /\ x.dropped = y.dropped
       [] case = "attribute-count" -> Kept(x, y, 2, TRUE)
       [] case = "event-attributes" -> Kept(x, y, 1, TRUE)
       [] OTHER -> x = y

SpanOutcome(x, y) ==
  /\ Same(x, y, {"name", "server"}) /\ SameService(x, y)
  /\ CASE case \in {"span-length", "attribute-length"} ->
            y.attrs = Shortened(x.attrs) /\ x.dropped = y.dropped
       [] case = "attribute-count" -> Kept(x, y, 2, FALSE)
       [] case = "request-headers" /\ IsPropagationProbe(x) ->
            y.attrs = x.attrs \cup {Header} /\ x.dropped = y.dropped
       [] OTHER -> Same(x, y, {"attrs", "dropped"})
  /\ IF case = "events" THEN y.events = <<>> /\ y.lost = x.lost + Len(x.events)
     ELSE /\ x.lost = y.lost /\ Len(x.events) = Len(y.events)
          /\ \A k \in DOMAIN x.events : EventOutcome(x.events[k], y.events[k])
  /\ case = "propagation-none" /\ IsPropagationProbe(x) =>
       y.parent = Nowhere /\ y.trace \notin Incoming
  /\ case # "propagation-none" => (x.parent = Remote <=> y.parent = Remote)

LogOutcome(x, y) ==
  /\ x.body = y.body /\ SameService(x, y)
  /\ CASE case \in {"attribute-length", "log-length"} ->
            y.attrs = Shortened(x.attrs) /\ x.dropped = y.dropped
       [] case = "attribute-count" -> Kept(x, y, 2, TRUE)
       [] case = "log-count" -> Kept(x, y, 1, TRUE)
       [] OTHER -> Same(x, y, {"attrs", "dropped"})

PointOutcome(x, y) ==
  /\ SameService(x, y) /\ x.name = y.name
  /\ Transient(x) \/ x.state = y.state
  /\ y.type = IF case = "histogram" /\ x.type = "histogram" THEN "exponential" ELSE x.type
  /\ Measured(x) = Measured(y)
  /\ CASE case = "exemplars" -> y.exemplars = "none"
       [] case = "exemplars-always-on" ->
            PointID(x) \in Unsampled(baseline) => y.exemplars = "valid"
       [] case = "sampler" \/ Transient(x) \/ (case = "histogram" /\ x.type = "histogram") -> TRUE
       [] OTHER -> x.exemplars = y.exemplars

Pairings(S, T) == {f \in [S -> T] : \A i, j \in S : i # j => f[i] # f[j]}

(* The workload's spans correspond one to one, each under a span that is what    *)
(* the setting makes of its parent, in as many traces.                         *)
SpansCorrespond ==
  /\ Cardinality(WorkloadTraces(baseline)) = Cardinality(WorkloadTraces(changed))
  /\ Cardinality(WorkloadSpans(baseline)) = Cardinality(WorkloadSpans(changed))
  /\ \E f \in Pairings(WorkloadSpans(baseline), WorkloadSpans(changed)) :
       \A i \in DOMAIN f :
         LET x == baseline.spans[i]
             y == changed.spans[f[i]]
         IN /\ SpanOutcome(x, y)
            /\ \A j \in At(baseline, x.trace, x.parent) : \E k \in At(changed, y.trace, y.parent) :
                 SpanOutcome(baseline.spans[j], changed.spans[k])

(* The logs correspond one to one, and are still those of a span of that kind. *)
LogsCorrespond ==
  /\ Len(baseline.logs) = Len(changed.logs)
  /\ \E f \in Pairings(DOMAIN baseline.logs, DOMAIN changed.logs) :
       \A i \in DOMAIN f :
         LET x == baseline.logs[i]
             y == changed.logs[f[i]]
         IN /\ LogOutcome(x, y)
            /\ (x.span = 0) = (y.span = 0)
            /\ case # "sampler" =>
                 \A j \in At(baseline, x.trace, x.span) : \E k \in At(changed, y.trace, y.span) :
                   SpanOutcome(baseline.spans[j], changed.spans[k])

PointsCorrespond ==
  /\ \A x \in Records(baseline, "points") : \E y \in Records(changed, "points") : PointOutcome(x, y)
  /\ \A y \in Records(changed, "points") : \E x \in Records(baseline, "points") : PointOutcome(x, y)

(* The captures and the verdict have their types; a capture the setting acts   *)
(* on is a pass or a gap.                                                     *)
TypeOK ==
  /\ case \in Cases /\ baseline \in Baselines /\ defects \in 0 .. MaxDefects
  /\ DOMAIN changed = DOMAIN Nothing
  /\ Exercised(baseline) => Verdict(baseline, changed) \in {"pass", "gap"}
  /\ ~Exercised(baseline) => Verdict(baseline, changed) \in {"not_exercised", "gap"}

(* A pass is evidence: every record of the workload is in the changed capture, *)
(* exactly as the setting leaves it, once, under its parent and with its logs, *)
(* whatever was lost, repeated, damaged or moved on the way (evaluate counts    *)
(* identities and matches records greedily to find out).                      *)
PassIsEvidence ==
  Verdict(baseline, changed) = "pass" =>
    /\ case = "disabled" => changed = Nothing
    /\ case = "span-batch" => \A i, j \in DOMAIN changed.spans :
         changed.spans[i].batch = changed.spans[j].batch => i = j
    /\ case = "log-batch" => \A i, j \in DOMAIN changed.logs :
         changed.logs[i].batch = changed.logs[j].batch => i = j
    /\ case \in {"sampler", "exemplars-always-on"} => changed.spans = <<>>
    /\ case \notin {"disabled", "sampler", "exemplars-always-on"} => SpansCorrespond
    /\ case # "disabled" => LogsCorrespond /\ PointsCorrespond

(* An SDK that obeys the setting and loses nothing is not reported as a gap:    *)
(* it passes wherever the baseline lets the setting act (evaluate).  The global *)
(* limits are the exception: they also ask for the tagged requests' spans, so   *)
(* that an application that only exports logs cannot pass them.               *)
ObedienceIsSeen ==
  /\ obeyed /\ defects = 0
  /\ case \in {"attribute-length", "attribute-count"} => AllProbes(baseline)
  => Verdict(baseline, changed) = IF Exercised(baseline) THEN "pass" ELSE "not_exercised"

(* An SDK that ignores the setting never passes, however complete its capture  *)
(* is: the same telemetry with and without the setting is no effect.          *)
DisregardIsSeen ==
  ~obeyed /\ defects = 0 =>
    Verdict(baseline, changed) = IF Exercised(baseline) THEN "gap" ELSE "not_exercised"
=============================================================================
