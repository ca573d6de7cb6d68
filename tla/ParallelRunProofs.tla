-------------------------- MODULE ParallelRunProofs --------------------------
(***************************************************************************)
(* The safety of the parallel driver for every number of workers and every   *)
(* setting: any number of executions of any length, any limits, and an       *)
(* application that confuses what it likes.                                  *)
(*                                                                         *)
(* The inductive invariant ties the three places a request can be in, the    *)
(* Hurl process, the handler and the application, to the ledger, as long as  *)
(* the Hurl process has not failed; and every span to the request it names.  *)
(***************************************************************************)
EXTENDS ParallelRun, FiniteSetTheorems, TLAPS

-----------------------------------------------------------------------------
(* The inductive invariant *)

Of(i, j) == ledger[i].execution = j

(* No handler holds an open entry of j. *)
Closed(j) == \A i \in DOMAIN ledger : Of(i, j) => ledger[i].answer # "none"

(* The first n requests of j are in the ledger. *)
Entered(j, n) ==
  \A m \in 1 .. n : \E i \in DOMAIN ledger : Of(i, j) /\ ledger[i].request = m

(* What is known of an execution from where its Hurl process is. *)
Link(j) ==
  /\ j \in running <=> hurl[j] \in {"ready", "waiting", "refused"}
  /\ hurl[j] \in {"queued", "ready", "refused", "done"} =>
       j \notin arriving /\ Closed(j)
  /\ hurl[j] = "queued" => sent[j] = 0
  /\ hurl[j] \in {"ready", "done"} => Entered(j, sent[j])
  /\ hurl[j] = "done" => sent[j] = Len(setting.plan[j])
  /\ hurl[j] = "waiting" => sent[j] > 0 /\ Entered(j, sent[j] - 1)
  /\ hurl[j] = "waiting" /\ j \in arriving => Closed(j)
  /\ hurl[j] = "waiting" /\ j \notin arriving =>
       /\ Entered(j, sent[j])
       /\ \A i, k \in Open : Of(i, j) /\ Of(k, j) => i = k
  /\ hurl[j] = "failed" => "hurl" \in failures

(* The queue hands the executions out in their order. *)
Linked ==
  \A j \in Executions : Link(j) /\ (hurl[j] = "queued" <=> queue <= j)

(* Every entry is of a request that was sent, and the application knows it. *)
Sized ==
  /\ Len(app) = Len(ledger)
  /\ \A j \in Executions : sent[j] <= Len(setting.plan[j])
  /\ \A j \in arriving : sent[j] > 0
  /\ \A i \in DOMAIN ledger : ledger[i].request \in 1 .. sent[ledger[i].execution]
  /\ IsFiniteSet(pending)
  /\ IsFiniteSet(kept["datadog"])

(* Spans are made for requests in the ledger, for each of its queries once,   *)
(* but for the server spans of the startup.                                 *)
OfStartup(s) == s.kind = "server" /\ s.request = 0

Traced ==
  \A s \in pending \cup kept["datadog"] \cup dump :
    \/ OfStartup(s)
    \/ /\ s.request \in DOMAIN ledger
       /\ s.kind = "server" => s.query = 0
       /\ s.kind = "sql" => s.query \in Queries(ledger, s.request)

(* What a passing result claims. *)
Isolated ==
  /\ \A j \in Executions : \A n \in DOMAIN setting.plan[j] :
       \E i \in DOMAIN values : values[i].execution = j /\ values[i].request = n
  /\ dump = UNION {OwnSpans(values, i) : i \in DOMAIN values}

(* What the coordinator has established by then. *)
Established ==
  /\ phase \notin {"startup", "workload", "exit"} =>
       queue \notin Executions /\ running = {}
  /\ phase \in {"files", "result"} =>
       values = ledger /\ (failures = {} => Isolated)
  /\ phase = "result" => disk.capture /\ disk.ledger
  /\ phase # "exit" => exit = "running" /\ disk.result = "none"
  /\ disk.result # "none" => disk.capture /\ disk.ledger
  /\ exit = "passed" => disk.result = "passed"
  /\ disk.result = "passed" => failures = {} /\ running = {} /\ Isolated

IInv ==
  /\ TypeOK
  /\ Linked
  /\ Sized
  /\ Traced
  /\ Established

-----------------------------------------------------------------------------
(* The workload *)

LEMMA Workload ==
  ASSUME TypeOK
  PROVE  /\ setting \in Setting
         /\ Len(setting.plan) \in Nat
         /\ Executions = 1 .. Len(setting.plan)
         /\ \A j \in Executions :
              /\ setting.plan[j] \in Seq(Request)
              /\ Len(setting.plan[j]) \in Nat
              /\ DOMAIN setting.plan[j] = 1 .. Len(setting.plan[j])
<1>1. setting \in Setting
  BY ParallelAssumption DEF TypeOK
<1>2. setting.plan \in Seq(Seq(Request))
  BY <1>1 DEF Setting
<1>3. Len(setting.plan) \in Nat /\ DOMAIN setting.plan = 1 .. Len(setting.plan)
  BY <1>2
<1>4. ASSUME NEW j \in DOMAIN setting.plan
      PROVE  setting.plan[j] \in Seq(Request)
  BY <1>2, <1>3, <1>4
<1> QED
  BY <1>1, <1>3, <1>4 DEF Executions

(* The entries of the ledger are numbered from one. *)
LEMMA Positions ==
  ASSUME TypeOK
  PROVE  /\ Len(ledger) \in Nat
         /\ DOMAIN ledger = 1 .. Len(ledger)
         /\ DOMAIN ledger \subseteq Identities
         /\ \A i \in DOMAIN ledger : ledger[i] \in Entry /\ ledger[i].execution \in Executions
         /\ Open \subseteq Identities
<1>1. Len(ledger) \in Nat /\ DOMAIN ledger = 1 .. Len(ledger)
  BY DEF TypeOK
<1>2. \A i \in DOMAIN ledger : ledger[i] \in Entry
  BY DEF TypeOK
<1>3. DOMAIN ledger \subseteq Identities
  BY <1>1 DEF Identities
<1>4. \A i \in DOMAIN ledger : ledger[i].execution \in Executions
  BY <1>2 DEF Entry
<1> QED
  BY <1>1, <1>2, <1>3, <1>4 DEF Open

(* Any part of the ledger is finite. *)
LEMMA SomeEntries ==
  ASSUME TypeOK, NEW P \in SUBSET DOMAIN ledger
  PROVE  IsFiniteSet(P) /\ Cardinality(P) \in Nat
<1>1. Len(ledger) \in Nat /\ DOMAIN ledger = 1 .. Len(ledger)
  BY Positions
<1>2. IsFiniteSet(1 .. Len(ledger))
  BY <1>1, FS_Interval
<1>3. IsFiniteSet(P)
  BY <1>1, <1>2, FS_Subset
<1> QED
  BY <1>3, FS_CardinalityType

(* The request of an entry is one of the plan's. *)
LEMMA Requests ==
  ASSUME TypeOK, Sized, NEW i \in DOMAIN ledger
  PROVE  /\ RequestOf(ledger[i]) \in Request
         /\ RequestOf(ledger[i]).queries \in Nat
         /\ Context(ledger, i) \in Identities \cup {0}
         /\ Queries(ledger, i) \subseteq Nat
         /\ IsFiniteSet(Queries(ledger, i))
         /\ Cardinality(Queries(ledger, i)) = RequestOf(ledger[i]).queries
<1> DEFINE j == ledger[i].execution
           n == ledger[i].request
<1>1. j \in Executions /\ i \in Identities
  BY Positions
<1>2. n \in 1 .. sent[j] /\ sent[j] \in Nat /\ sent[j] <= Len(setting.plan[j])
  BY <1>1 DEF Sized, TypeOK
<1>3. setting.plan[j] \in Seq(Request)
  BY <1>1, Workload
<1>4. setting.plan[j][n] \in Request
  <2>1. n \in 1 .. Len(setting.plan[j])
    BY <1>2, <1>3
  <2> HIDE DEF j, n
  <2> QED
    BY <2>1, <1>3
<1>5. RequestOf(ledger[i]) \in Request
  BY <1>4 DEF RequestOf
<1>6. RequestOf(ledger[i]).queries \in Nat
  BY <1>5 DEF Request
<1>7. /\ IsFiniteSet(1 .. RequestOf(ledger[i]).queries)
      /\ Cardinality(1 .. RequestOf(ledger[i]).queries) = RequestOf(ledger[i]).queries
  BY <1>6, FS_Interval
<1> QED
  BY <1>1, <1>5, <1>6, <1>7 DEF Context, Queries

-----------------------------------------------------------------------------
(* The ledger: entries are appended and answered, nothing else. *)

Kept ==
  /\ setting' = setting
  /\ DOMAIN ledger \subseteq DOMAIN ledger'
  /\ \A i \in DOMAIN ledger :
       /\ ledger'[i].execution = ledger[i].execution
       /\ ledger'[i].request = ledger[i].request

App == [stage : {"none", "serving", "served"}, beside : SUBSET Identities]

LEMMA SameEntries ==
  ASSUME setting' = setting
  PROVE  Executions' = Executions /\ Entry' = Entry
<1>1. Executions' = Executions
  BY DEF Executions
<1> QED
  BY <1>1 DEF Entry

(* The entry a handler appends. *)
NewEntry(j) ==
  [execution |-> j, request |-> sent[j], answer |-> "none",
   sequence |-> 1 + Cardinality({i \in DOMAIN ledger : ledger[i].execution = j}),
   beside |-> Open]

LEMMA AppendStep ==
  ASSUME TypeOK, NEW j \in Executions, setting' = setting,
         ledger' = Append(ledger, NewEntry(j))
  PROVE  /\ ledger' \in Seq(Entry)
         /\ Len(ledger') = Len(ledger) + 1
         /\ DOMAIN ledger' = DOMAIN ledger \cup {Len(ledger) + 1}
         /\ Len(ledger) + 1 \notin DOMAIN ledger
         /\ \A i \in DOMAIN ledger : ledger'[i] = ledger[i]
         /\ ledger'[Len(ledger) + 1] = NewEntry(j)
         /\ Kept
<1>1. NewEntry(j) \in Entry
  <2>1. Cardinality({i \in DOMAIN ledger : ledger[i].execution = j}) \in Nat
    BY SomeEntries
  <2>2. sent[j] \in Nat /\ Open \in SUBSET Identities
    BY Positions DEF TypeOK
  <2> HIDE DEF Open
  <2> QED
    BY <2>1, <2>2 DEF NewEntry, Entry
<1>2. ledger \in Seq(Entry)
  BY DEF TypeOK
<1> HIDE DEF Entry, NewEntry
<1>3. /\ ledger' \in Seq(Entry)
      /\ Len(ledger') = Len(ledger) + 1
      /\ DOMAIN ledger' = DOMAIN ledger \cup {Len(ledger) + 1}
      /\ Len(ledger) + 1 \notin DOMAIN ledger
      /\ \A i \in DOMAIN ledger : ledger'[i] = ledger[i]
      /\ ledger'[Len(ledger) + 1] = NewEntry(j)
  BY <1>1, <1>2
<1> QED
  BY <1>3 DEF Kept

LEMMA AnswerStep ==
  ASSUME TypeOK, NEW i \in DOMAIN ledger, NEW answer \in {"complete", "broken"},
         setting' = setting, ledger' = [ledger EXCEPT ![i].answer = answer]
  PROVE  /\ ledger' \in Seq(Entry)
         /\ Len(ledger') = Len(ledger)
         /\ DOMAIN ledger' = DOMAIN ledger
         /\ ledger'[i].answer = answer
         /\ \A k \in DOMAIN ledger \ {i} : ledger'[k] = ledger[k]
         /\ Kept
<1> DEFINE e == [ledger[i] EXCEPT !.answer = answer]
<1>1. ledger[i] \in Entry /\ ledger \in Seq(Entry)
  BY Positions DEF TypeOK
<1>2. /\ e \in Entry
      /\ e.answer = answer
      /\ e.execution = ledger[i].execution
      /\ e.request = ledger[i].request
  BY <1>1 DEF Entry
<1>3. ledger' = [ledger EXCEPT ![i] = e]
  OBVIOUS
<1> HIDE DEF e, Entry
<1>4. /\ ledger' \in Seq(Entry)
      /\ Len(ledger') = Len(ledger)
      /\ DOMAIN ledger' = DOMAIN ledger
      /\ ledger'[i] = e
      /\ \A k \in DOMAIN ledger \ {i} : ledger'[k] = ledger[k]
  BY <1>1, <1>2, <1>3
<1> QED
  BY <1>2, <1>4 DEF Kept

(* The books of the application follow the ledger. *)
LEMMA AppStep ==
  ASSUME TypeOK, NEW i \in DOMAIN app, NEW a \in App
  PROVE  /\ [app EXCEPT ![i] = a] \in Seq(App)
         /\ Len([app EXCEPT ![i] = a]) = Len(app)
<1>1. app \in Seq(App)
  BY DEF TypeOK, App
<1> HIDE DEF App
<1> QED
  BY <1>1

LEMMA AppGrows ==
  ASSUME TypeOK
  PROVE  LET new == Append(app, [stage |-> "none", beside |-> {}]) IN
           new \in Seq(App) /\ Len(new) = Len(app) + 1
<1>1. app \in Seq(App) /\ [stage |-> "none", beside |-> {}] \in App
  BY DEF TypeOK, App
<1> HIDE DEF App
<1> QED
  BY <1>1

-----------------------------------------------------------------------------
(* The spans of a response *)

NewSpans(i, k, under) ==
  {ServerSpan(i, Context(ledger, k))}
    \cup {SqlSpan(i, q, under[q]) : q \in Queries(ledger, i)}

LEMMA Responses ==
  ASSUME TypeOK, Sized, NEW i \in Serving, NEW k \in Candidates(i, "contexts"),
         NEW under \in [Queries(ledger, i) -> Candidates(i, "parents")]
  PROVE  /\ i \in DOMAIN ledger
         /\ NewSpans(i, k, under) \subseteq Span
         /\ IsFiniteSet(NewSpans(i, k, under))
         /\ \A s \in NewSpans(i, k, under) :
              /\ s.request = i
              /\ s.kind = "server" => s.query = 0
              /\ s.kind = "sql" => s.query \in Queries(ledger, i)
<1> DEFINE Sql == {SqlSpan(i, q, under[q]) : q \in Queries(ledger, i)}
           f == [q \in Queries(ledger, i) |-> SqlSpan(i, q, under[q])]
<1>1. DOMAIN app = DOMAIN ledger
  BY Positions DEF Sized, TypeOK
<1>2. /\ i \in DOMAIN ledger /\ k \in DOMAIN ledger
      /\ Candidates(i, "parents") \subseteq DOMAIN ledger
  BY <1>1 DEF Serving, Candidates
<1>3. DOMAIN ledger \subseteq Identities
  BY Positions
<1>4. Context(ledger, k) \in Identities \cup {0}
  BY <1>2, Requests
<1>5. Queries(ledger, i) \subseteq Nat /\ IsFiniteSet(Queries(ledger, i))
  BY <1>2, Requests
<1>6. /\ ServerSpan(i, Context(ledger, k)) \in Span
      /\ ServerSpan(i, Context(ledger, k)).request = i
      /\ ServerSpan(i, Context(ledger, k)).query = 0
      /\ ServerSpan(i, Context(ledger, k)).kind = "server"
  BY <1>2, <1>3, <1>4 DEF ServerSpan, Span
<1>7. ASSUME NEW s \in Sql
      PROVE  s \in Span /\ s.request = i /\ s.kind = "sql" /\ s.query \in Queries(ledger, i)
  <2>1. PICK q \in Queries(ledger, i) : s = SqlSpan(i, q, under[q])
    OBVIOUS
  <2>2. under[q] \in Identities
    BY <1>2, <1>3
  <2> QED
    BY <2>1, <2>2, <1>2, <1>3, <1>5 DEF SqlSpan, Span
<1>8. IsFiniteSet(Sql)
  <2>1. f \in Surjection(Queries(ledger, i), Sql)
    BY DEF Surjection
  <2> HIDE DEF f, Sql
  <2> QED
    BY <2>1, <1>5, FS_Surjection
<1>9. IsFiniteSet({ServerSpan(i, Context(ledger, k))})
  BY FS_Singleton
<1>10. NewSpans(i, k, under) = {ServerSpan(i, Context(ledger, k))} \cup Sql
  BY DEF NewSpans
<1> HIDE DEF Sql
<1>11. IsFiniteSet({ServerSpan(i, Context(ledger, k))} \cup Sql)
  BY <1>8, <1>9, FS_Union
<1> QED
  BY <1>2, <1>6, <1>7, <1>10, <1>11

(* The steps of the sink: a span more, a dump, or nothing. *)
LEMMA SinkAcknowledges ==
  ASSUME Sink!TypeOK, NEW s \in Span, Sink!Acknowledge("datadog", s)
  PROVE  Sink!TypeOK' /\ kept'["datadog"] = kept["datadog"] \cup {s}
BY DEF Sink!TypeOK, Sink!Acknowledge

LEMMA SinkFreezes ==
  ASSUME Sink!TypeOK, Sink!Freeze("datadog")
  PROVE  Sink!TypeOK' /\ kept' = kept
BY DEF Sink!TypeOK, Sink!Freeze

LEMMA SinkDiscards ==
  ASSUME Sink!TypeOK, Sink!Discard("datadog", Span)
  PROVE  Sink!TypeOK' /\ kept'["datadog"] \subseteq kept["datadog"]
BY DEF Sink!TypeOK, Sink!Discard

LEMMA SinkRests ==
  ASSUME Sink!TypeOK, UNCHANGED <<kept, taken, snapshot>>
  PROVE  Sink!TypeOK' /\ kept' = kept
BY DEF Sink!TypeOK

(* The reset of the startup erases, or fails before or after it did. *)
LEMMA StartupErased ==
  ASSUME TypeOK, ResetStartup
  PROVE  /\ Sink!TypeOK'
         /\ kept'["datadog"] \subseteq kept["datadog"]
         /\ overflow' \in BOOLEAN
<1>1. CASE EraseStartup
  BY <1>1, SinkDiscards DEF TypeOK, EraseStartup
<1>2. CASE UNCHANGED sink
  BY <1>2, SinkRests DEF TypeOK, sink
<1> QED
  BY <1>1, <1>2 DEF ResetStartup

-----------------------------------------------------------------------------
(* Types *)

LEMMA SettingStays ==
  ASSUME [Next]_vars
  PROVE  setting' = setting
BY DEF Next, Worker, Coordinator, Environment, vars, outcome, TakeJob,
     Send, Finish, Fail, ResetStartup, StartDrain, Poll, DrainGivesUp,
     TakeDump, Judge, WriteFiles, WriteResult, Admit, Serve, Respond, Complete, Break,
     Export, DeadlinePasses

LEMMA TypeStep ==
  ASSUME TypeOK, Sized, [Next]_vars
  PROVE  TypeOK'
<1>e. setting' = setting /\ Executions' = Executions /\ Entry' = Entry
  BY SettingStays, SameEntries
<1>x. Executions = 1 .. Len(setting.plan) /\ Len(setting.plan) \in Nat
  BY Workload
<1>s. ASSUME UNCHANGED <<kept, taken, snapshot>>
      PROVE  Sink!TypeOK'
  BY <1>s, SinkRests DEF TypeOK
<1>a. DOMAIN app = DOMAIN ledger
  BY Positions DEF Sized, TypeOK
<1>1. CASE TakeJob
  BY <1>1, <1>e, <1>x, <1>s
     DEF TypeOK, TakeJob, proxy, sink, drain, outcome
<1>2. ASSUME NEW j \in Executions, Send(j)
      PROVE  TypeOK'
  BY <1>2, <1>e, <1>s DEF TypeOK, Send, proxy, sink, drain, outcome
<1>3. ASSUME NEW j \in Executions, Finish(j)
      PROVE  TypeOK'
  BY <1>3, <1>e, <1>s DEF TypeOK, Finish, proxy, sink, drain, outcome
<1>4. ASSUME NEW j \in Executions, Fail(j)
      PROVE  TypeOK'
  BY <1>4, <1>e, <1>s DEF TypeOK, Fail, proxy, sink, drain, outcome
<1>5. CASE StartDrain
  BY <1>5, <1>e, <1>s DEF TypeOK, StartDrain, system, workload, proxy,
     sink, drain, outcome
<1>6. CASE Poll
  <2>1. Cardinality(kept["datadog"]) \in Nat
    BY FS_CardinalityType DEF Sized
  <2> QED
    BY <1>6, <2>1, <1>e, <1>s
       DEF TypeOK, Poll, system, workload, proxy, sink, outcome, Ends
<1>7. CASE DrainGivesUp
  BY <1>7, <1>e, <1>s DEF TypeOK, DrainGivesUp, system, workload, proxy,
     sink, drain, outcome
<1>8. CASE TakeDump
  <2>1. Sink!TypeOK' /\ kept["datadog"] \subseteq Span
    BY <1>8, <1>s, SinkFreezes DEF TypeOK, TakeDump, Sink!TypeOK
  <2> QED
    BY <1>8, <2>1, <1>e DEF TypeOK, TakeDump, system, workload, proxy, drain, Ends
<1>9. CASE Judge
  BY <1>9, <1>e, <1>s DEF TypeOK, Judge, system, workload, proxy, sink,
     drain, Ends
<1>10. CASE WriteFiles
  BY <1>10, <1>e, <1>s DEF TypeOK, WriteFiles, system, workload, proxy,
     sink, drain, Ends
<1>11. CASE WriteResult
  BY <1>11, <1>e, <1>s DEF TypeOK, WriteResult, system, workload, proxy,
     sink, drain, Ends
<1>12. ASSUME NEW j \in Executions, Admit(j)
      PROVE  TypeOK'
  <2>1. ledger' \in Seq(Entry) /\ app' \in Seq(App) /\ hurl' \in
           [Executions -> {"queued", "ready", "waiting", "refused", "done", "failed"}]
    <3>1. CASE Len(ledger) >= setting.maxStressRequests /\ Reply(j, "refused")
                 /\ UNCHANGED <<ledger, app>>
      BY <3>1 DEF TypeOK, Reply, App
    <3>2. CASE /\ ledger' = Append(ledger, NewEntry(j))
               /\ app' = Append(app, [stage |-> "none", beside |-> {}])
               /\ UNCHANGED hurl
      <4>1. ledger' \in Seq(Entry)
        BY <3>2, <1>e, AppendStep
      <4>2. app' \in Seq(App)
        BY <3>2, AppGrows
      <4> QED
        BY <3>2, <4>1, <4>2 DEF TypeOK
    <3> QED
      BY <1>12, <3>1, <3>2 DEF Admit, NewEntry
  <2> QED
    BY <1>12, <2>1, <1>e, <1>s DEF TypeOK, App, Admit, sink, drain, outcome
<1>13. ASSUME NEW i \in DOMAIN ledger, Serve(i)
      PROVE  TypeOK'
  <2>1. [stage |-> "serving", beside |-> Serving] \in App
    BY <1>a, Positions DEF Serving, App
  <2>2. app' \in Seq(App)
    BY <1>13, <1>a, <2>1, AppStep DEF Serve
  <2> QED
    BY <1>13, <2>2, <1>e, <1>s DEF TypeOK, App, Serve, workload, sink, drain, outcome
<1>14. ASSUME NEW i \in DOMAIN ledger, Respond(i)
      PROVE  TypeOK'
  <2>1. PICK k \in Candidates(i, "contexts"),
             under \in [Queries(ledger, i) -> Candidates(i, "parents")] :
               pending' = pending \cup NewSpans(i, k, under)
    BY <1>14 DEF Respond, NewSpans
  <2>2. pending' \subseteq Span
    BY <1>14, <2>1, Responses DEF TypeOK, Respond
  <2>3. app' \in Seq(App)
    <3>1. app[i] \in App
      <4>1. app \in Seq(App)
        BY DEF TypeOK, App
      <4> QED
        BY <4>1, <1>a
    <3>2. [app[i] EXCEPT !.stage = "served"] \in App
      BY <3>1 DEF App
    <3>3. app' = [app EXCEPT ![i] = [app[i] EXCEPT !.stage = "served"]]
      BY <1>14 DEF Respond
    <3> QED
      BY <1>a, <3>2, <3>3, AppStep
  <2>4. /\ UNCHANGED <<workload, ledger, overflow, phase, failures, drain, outcome>>
        /\ UNCHANGED <<kept, taken, snapshot>>
    BY <1>14 DEF Respond, sink
  <2>5. Sink!TypeOK'
    BY <2>4, <1>s
  <2> QED
    BY <2>2, <2>3, <2>4, <2>5, <1>e DEF TypeOK, App, workload, drain, outcome
<1>15. ASSUME NEW i \in DOMAIN ledger, Complete(i)
      PROVE  TypeOK'
  <2>1. ledger' \in Seq(Entry)
    BY <1>15, <1>e, AnswerStep DEF Complete, Open
  <2>2. hurl' \in [Executions ->
           {"queued", "ready", "waiting", "refused", "done", "failed"}]
    BY <1>15 DEF TypeOK, Complete, Reply
  <2> QED
    BY <1>15, <2>1, <2>2, <1>e, <1>s DEF TypeOK, Complete, sink, drain, outcome
<1>16. ASSUME NEW i \in DOMAIN ledger, Break(i)
      PROVE  TypeOK'
  <2>1. ledger' \in Seq(Entry)
    BY <1>16, <1>e, AnswerStep DEF Break, Open
  <2>2. hurl' \in [Executions ->
           {"queued", "ready", "waiting", "refused", "done", "failed"}]
    BY <1>16 DEF TypeOK, Break, Reply
  <2> QED
    BY <1>16, <2>1, <2>2, <1>e, <1>s DEF TypeOK, Break, sink, drain, outcome
<1>17. ASSUME NEW s \in pending, Export(s)
      PROVE  TypeOK'
  <2>1. Sink!TypeOK'
    BY <1>17, <1>s, SinkAcknowledges DEF TypeOK, Export
  <2>2. /\ UNCHANGED <<workload, ledger, app, phase, failures, drain, outcome>>
        /\ pending' \subseteq pending /\ overflow' \in BOOLEAN
    BY <1>17 DEF Export, TypeOK
  <2> QED
    BY <2>1, <2>2, <1>e DEF TypeOK, workload, drain, outcome
<1>18. CASE DeadlinePasses
  BY <1>18, <1>e, <1>s DEF TypeOK, DeadlinePasses, system, workload,
     proxy, sink, outcome
<1>19. CASE UNCHANGED vars
  BY <1>19, <1>e, <1>s DEF TypeOK, vars, workload, proxy, sink, drain,
     outcome
<1>20. CASE ResetStartup
  <2>1. Sink!TypeOK' /\ overflow' \in BOOLEAN
    BY <1>20, StartupErased
  <2> QED
    BY <1>20, <2>1, <1>e DEF TypeOK, ResetStartup, system, workload, proxy, drain, Ends
<1> QED
  BY <1>1, <1>2, <1>3, <1>4, <1>5, <1>6, <1>7, <1>8, <1>9, <1>10, <1>11,
     <1>12, <1>13, <1>14, <1>15, <1>16, <1>17, <1>18, <1>19, <1>20 DEF Next,
     Worker, Coordinator, Environment

-----------------------------------------------------------------------------
(* The ledger only grows, and the books stay in step with it *)

LEMMA LedgerKept ==
  ASSUME TypeOK, [Next]_vars
  PROVE  Kept
<1>e. setting' = setting
  BY SettingStays
<1>s. ledger' = ledger => Kept
  BY <1>e DEF Kept
<1>1. CASE TakeJob
  BY <1>1, <1>s DEF TakeJob, proxy
<1>2. ASSUME NEW j \in Executions, Send(j)
      PROVE  Kept
  BY <1>2, <1>s DEF Send, proxy
<1>3. ASSUME NEW j \in Executions, Finish(j)
      PROVE  Kept
  BY <1>3, <1>s DEF Finish, proxy
<1>4. ASSUME NEW j \in Executions, Fail(j)
      PROVE  Kept
  BY <1>4, <1>s DEF Fail, proxy
<1>5. CASE StartDrain
  BY <1>5, <1>s DEF StartDrain, system, proxy
<1>6. CASE Poll
  BY <1>6, <1>s DEF Poll, system, proxy
<1>7. CASE DrainGivesUp
  BY <1>7, <1>s DEF DrainGivesUp, system, proxy
<1>8. CASE TakeDump
  BY <1>8, <1>s DEF TakeDump, system, proxy
<1>9. CASE Judge
  BY <1>9, <1>s DEF Judge, system, proxy
<1>10. CASE WriteFiles
  BY <1>10, <1>s DEF WriteFiles, system, proxy
<1>11. CASE WriteResult
  BY <1>11, <1>s DEF WriteResult, system, proxy
<1>12. ASSUME NEW j \in Executions, Admit(j)
      PROVE  Kept
  BY <1>12, <1>e, <1>s, AppendStep DEF Admit, NewEntry
<1>13. ASSUME NEW i \in DOMAIN ledger, Serve(i)
      PROVE  Kept
  BY <1>13, <1>s DEF Serve
<1>14. ASSUME NEW i \in DOMAIN ledger, Respond(i)
      PROVE  Kept
  BY <1>14, <1>s DEF Respond
<1>15. ASSUME NEW i \in DOMAIN ledger, Complete(i)
      PROVE  Kept
  BY <1>15, <1>e, AnswerStep DEF Complete
<1>16. ASSUME NEW i \in DOMAIN ledger, Break(i)
      PROVE  Kept
  BY <1>16, <1>e, AnswerStep DEF Break
<1>17. ASSUME NEW s \in pending, Export(s)
      PROVE  Kept
  BY <1>17, <1>s DEF Export
<1>18. CASE DeadlinePasses
  BY <1>18, <1>s DEF DeadlinePasses, system, proxy
<1>19. CASE UNCHANGED vars
  BY <1>19, <1>s DEF vars, proxy
<1>20. CASE ResetStartup
  BY <1>20, <1>s DEF ResetStartup, system, proxy
<1> QED
  BY <1>1, <1>2, <1>3, <1>4, <1>5, <1>6, <1>7, <1>8, <1>9, <1>10, <1>11,
     <1>12, <1>13, <1>14, <1>15, <1>16, <1>17, <1>18, <1>19, <1>20 DEF Next,
     Worker, Coordinator, Environment

LEMMA SizedStep ==
  ASSUME TypeOK, Sized, [Next]_vars
  PROVE  Sized'
<1>e. setting' = setting /\ Executions' = Executions
  BY SettingStays, SameEntries
<1>a. DOMAIN app = DOMAIN ledger /\ Len(ledger) \in Nat
  BY Positions DEF Sized, TypeOK
<1>p. \A i \in DOMAIN ledger : ledger[i].execution \in Executions
  BY Positions
<1>w. \A j \in Executions : Len(setting.plan[j]) \in Nat /\ sent[j] \in Nat
  BY Workload DEF TypeOK
<1>1. CASE TakeJob
  BY <1>1, <1>e DEF Sized, TakeJob, proxy, sink, drain, outcome
<1>2. ASSUME NEW j \in Executions, Send(j)
      PROVE  Sized'
  <2>1. /\ sent'[j] = sent[j] + 1 /\ \A k \in Executions \ {j} : sent'[k] = sent[k]
        /\ sent[j] < Len(setting.plan[j])
        /\ arriving' = arriving \cup {j}
        /\ ledger' = ledger /\ app' = app /\ pending' = pending /\ kept' = kept
    BY <1>2 DEF TypeOK, Send, proxy, sink
  <2>2. \A k \in Executions : sent'[k] <= Len(setting.plan[k])
    BY <1>2, <2>1, <1>w DEF Sized
  <2>3. \A k \in arriving' : sent'[k] > 0
    BY <1>2, <2>1, <1>w DEF Sized, TypeOK
  <2>4. \A i \in DOMAIN ledger : ledger[i].request \in 1 .. sent'[ledger[i].execution]
    BY <1>2, <2>1, <1>w, <1>p DEF Sized
  <2> QED
    BY <2>1, <2>2, <2>3, <2>4, <1>e DEF Sized
<1>3. ASSUME NEW j \in Executions, Finish(j)
      PROVE  Sized'
  BY <1>3, <1>e DEF Sized, Finish, proxy, sink, drain, outcome
<1>4. ASSUME NEW j \in Executions, Fail(j)
      PROVE  Sized'
  BY <1>4, <1>e DEF Sized, Fail, proxy, sink, drain, outcome
<1>5. CASE StartDrain
  BY <1>5, <1>e DEF Sized, StartDrain, system, workload, proxy, sink,
     drain, outcome
<1>6. CASE Poll
  BY <1>6, <1>e DEF Sized, Poll, system, workload, proxy, sink, outcome,
     Ends
<1>7. CASE DrainGivesUp
  BY <1>7, <1>e DEF Sized, DrainGivesUp, system, workload, proxy, sink,
     drain, outcome
<1>8. CASE TakeDump
  <2>1. kept' = kept
    BY <1>8, SinkFreezes DEF TypeOK, TakeDump
  <2> QED
    BY <1>8, <2>1, <1>e DEF Sized, TakeDump, system, workload, proxy
<1>9. CASE Judge
  BY <1>9, <1>e DEF Sized, Judge, system, workload, proxy, sink, drain,
     Ends
<1>10. CASE WriteFiles
  BY <1>10, <1>e DEF Sized, WriteFiles, system, workload, proxy, sink,
     drain, Ends
<1>11. CASE WriteResult
  BY <1>11, <1>e DEF Sized, WriteResult, system, workload, proxy, sink,
     drain, Ends
<1>12. ASSUME NEW j \in Executions, Admit(j)
      PROVE  Sized'
  <2>1. CASE UNCHANGED <<ledger, app>>
    BY <1>12, <2>1, <1>e DEF Sized, Admit, sink
  <2>2. CASE /\ ledger' = Append(ledger, NewEntry(j))
             /\ app' = Append(app, [stage |-> "none", beside |-> {}])
    <3>1. Len(app') = Len(ledger')
      BY <2>2, <1>e, AppGrows, AppendStep DEF Sized
    <3>2. sent[j] > 0
      BY <1>12 DEF Sized, Admit
    <3>3. \A i \in DOMAIN ledger' : ledger'[i].request \in 1 .. sent[ledger'[i].execution]
      <4>1. NewEntry(j).execution = j /\ NewEntry(j).request = sent[j]
        BY DEF NewEntry
      <4> QED
        BY <1>12, <2>2, <3>2, <4>1, <1>e, <1>w, AppendStep DEF Sized
    <3> QED
      BY <1>12, <3>1, <3>3, <1>e DEF Sized, Admit, sink
  <2> QED
    BY <1>12, <2>1, <2>2 DEF Admit, NewEntry
<1>13. ASSUME NEW i \in DOMAIN ledger, Serve(i)
      PROVE  Sized'
  <2>1. Len(app') = Len(app)
    BY <1>13 DEF TypeOK, Serve
  <2> QED
    BY <1>13, <2>1, <1>e DEF Sized, Serve, workload, sink
<1>14. ASSUME NEW i \in DOMAIN ledger, Respond(i)
      PROVE  Sized'
  <2>1. PICK k \in Candidates(i, "contexts"),
             under \in [Queries(ledger, i) -> Candidates(i, "parents")] :
               pending' = pending \cup NewSpans(i, k, under)
    BY <1>14 DEF Respond, NewSpans
  <2>2. IsFiniteSet(NewSpans(i, k, under))
    BY <1>14, <2>1, Responses DEF Respond
  <2>3. IsFiniteSet(pending')
    BY <2>1, <2>2, FS_Union DEF Sized
  <2>4. Len(app') = Len(app)
    BY <1>14 DEF TypeOK, Respond
  <2> QED
    BY <1>14, <2>3, <2>4, <1>e DEF Sized, Respond, workload, sink
<1>15. ASSUME NEW i \in DOMAIN ledger, Complete(i)
      PROVE  Sized'
  <2>1. Len(ledger') = Len(ledger) /\ DOMAIN ledger' = DOMAIN ledger /\ Kept
    BY <1>15, <1>e, AnswerStep DEF Complete
  <2> QED
    BY <1>15, <2>1, <1>e DEF Sized, Kept, Complete, sink
<1>16. ASSUME NEW i \in DOMAIN ledger, Break(i)
      PROVE  Sized'
  <2>1. Len(ledger') = Len(ledger) /\ DOMAIN ledger' = DOMAIN ledger /\ Kept
    BY <1>16, <1>e, AnswerStep DEF Break
  <2> QED
    BY <1>16, <2>1, <1>e DEF Sized, Kept, Break, sink
<1>17. ASSUME NEW s \in pending, Export(s)
      PROVE  Sized'
  <2>1. IsFiniteSet(pending')
    BY <1>17, FS_Subset DEF Sized, Export
  <2>2. IsFiniteSet({s}) /\ IsFiniteSet(kept["datadog"] \cup {s})
    BY FS_Singleton, FS_Union DEF Sized
  <2>3. kept' = kept \/ kept'["datadog"] = kept["datadog"] \cup {s}
    BY <1>17, SinkAcknowledges DEF TypeOK, Export
  <2> QED
    BY <1>17, <2>1, <2>2, <2>3, <1>e DEF Sized, Export, workload
<1>18. CASE DeadlinePasses
  BY <1>18, <1>e DEF Sized, DeadlinePasses, system, workload, proxy,
     sink, outcome
<1>19. CASE UNCHANGED vars
  BY <1>19, <1>e DEF Sized, vars, workload, proxy, sink, drain, outcome
<1>20. CASE ResetStartup
  <2>1. IsFiniteSet(kept'["datadog"])
    BY <1>20, StartupErased, FS_Subset DEF Sized
  <2> QED
    BY <1>20, <2>1, <1>e DEF Sized, ResetStartup, system, workload, proxy
<1> QED
  BY <1>1, <1>2, <1>3, <1>4, <1>5, <1>6, <1>7, <1>8, <1>9, <1>10, <1>11,
     <1>12, <1>13, <1>14, <1>15, <1>16, <1>17, <1>18, <1>19, <1>20 DEF Next,
     Worker, Coordinator, Environment

-----------------------------------------------------------------------------
(* Every span is of a request *)

Made(s) ==
  /\ s.request \in DOMAIN ledger
  /\ s.kind = "server" => s.query = 0
  /\ s.kind = "sql" => s.query \in Queries(ledger, s.request)

Known(s) == OfStartup(s) \/ Made(s)

LEMMA MadeStaysMade ==
  ASSUME Kept, NEW s, Made(s)
  PROVE  Made(s)'
<1>1. Queries(ledger, s.request)' = Queries(ledger, s.request)
  BY DEF Queries, RequestOf, Kept, Made
<1> QED
  BY <1>1 DEF Made, Kept

LEMMA KnownStaysKnown ==
  ASSUME Kept, NEW s, Known(s)
  PROVE  Known(s)'
BY MadeStaysMade DEF Known, OfStartup

LEMMA TracedStep ==
  ASSUME TypeOK, Sized, Traced, [Next]_vars
  PROVE  Traced'
<1>1. Kept
  BY LedgerKept
<1>2. ASSUME \A s \in pending' \cup kept'["datadog"] \cup dump' : Known(s)
      PROVE  Traced'
  BY <1>1, <1>2, KnownStaysKnown DEF Traced, Known, Made
<1>3. \A s \in pending \cup kept["datadog"] \cup dump : Known(s)
  BY DEF Traced, Known, Made
<1>4. ASSUME NEW i \in DOMAIN ledger, Respond(i)
      PROVE  Traced'
  <2>1. PICK k \in Candidates(i, "contexts"),
             under \in [Queries(ledger, i) -> Candidates(i, "parents")] :
               pending' = pending \cup NewSpans(i, k, under)
    BY <1>4 DEF Respond, NewSpans
  <2>2. \A s \in NewSpans(i, k, under) : Known(s)
    BY <1>4, <2>1, Responses DEF Respond, Known, Made
  <2> QED
    BY <1>2, <1>3, <1>4, <2>1, <2>2 DEF Respond, sink, outcome
<1>5. ASSUME NEW s \in pending, Export(s)
      PROVE  Traced'
  <2>1. kept' = kept \/ kept'["datadog"] = kept["datadog"] \cup {s}
    BY <1>5, SinkAcknowledges DEF TypeOK, Export
  <2> QED
    BY <1>2, <1>3, <1>5, <2>1 DEF Export, outcome
<1>6. CASE TakeDump
  <2>1. kept' = kept
    BY <1>6, SinkFreezes DEF TypeOK, TakeDump
  <2> QED
    BY <1>2, <1>3, <1>6, <2>1 DEF TakeDump, system, proxy
<1>7. CASE UNCHANGED <<pending, kept, dump>>
  BY <1>2, <1>3, <1>7
<1>8. CASE ResetStartup
  <2>1. kept'["datadog"] \subseteq kept["datadog"]
    BY <1>8, StartupErased
  <2> QED
    BY <1>2, <1>3, <1>8, <2>1 DEF ResetStartup, system, proxy
<1> QED
  <2>1. TakeJob \/ (\E j \in Executions : Send(j) \/ Finish(j) \/ Fail(j) \/ Admit(j))
          => UNCHANGED <<pending, kept, dump>>
    BY DEF TakeJob, Send, Finish, Fail, Admit, proxy, sink, outcome
  <2>2. (\E i \in DOMAIN ledger : Serve(i) \/ Complete(i) \/ Break(i)) \/ UNCHANGED vars
          => UNCHANGED <<pending, kept, dump>>
    BY DEF Serve, Complete, Break, proxy, sink, outcome, vars
  <2>3. StartDrain \/ Poll \/ DrainGivesUp \/ Judge \/ WriteFiles \/ WriteResult
          \/ DeadlinePasses => UNCHANGED <<pending, kept, dump>>
    BY DEF StartDrain, Poll, DrainGivesUp, Judge, WriteFiles, WriteResult,
           DeadlinePasses, system, proxy, sink, outcome
  <2> QED
    BY <1>4, <1>5, <1>6, <1>7, <1>8, <2>1, <2>2, <2>3
       DEF Next, Worker, Coordinator, Environment

-----------------------------------------------------------------------------
(* Hurl, handler and ledger *)

InQueue(j) == hurl[j] = "queued" <=> queue <= j

(* What a step does that is not about execution j: its process, its request   *)
(* under way and its entries stay, a failure is kept.                        *)
Elsewhere(j) ==
  /\ hurl'[j] = hurl[j]
  /\ sent'[j] = sent[j]
  /\ j \in running' <=> j \in running
  /\ j \in arriving' <=> j \in arriving
  /\ failures \subseteq failures'
  /\ \A i \in DOMAIN ledger' : ledger'[i].execution = j =>
       i \in DOMAIN ledger /\ ledger'[i].answer = ledger[i].answer

LEMMA LinkStays ==
  ASSUME TypeOK, Kept, NEW j \in Executions, Link(j), Elsewhere(j)
  PROVE  Link(j)'
<1>1. Closed(j) => Closed(j)'
  BY DEF Kept, Elsewhere, Closed, Of
<1>2. ASSUME Entered(j, sent[j])
      PROVE  Entered(j, sent[j])'
  BY <1>2 DEF Kept, Elsewhere, Entered, Of
<1>3. ASSUME Entered(j, sent[j] - 1)
      PROVE  Entered(j, sent[j] - 1)'
  BY <1>3 DEF Kept, Elsewhere, Entered, Of
<1>4. ASSUME \A i, k \in Open : Of(i, j) /\ Of(k, j) => i = k
      PROVE  (\A i, k \in Open : Of(i, j) /\ Of(k, j) => i = k)'
  BY <1>4 DEF Kept, Elsewhere, Open, Of
<1>5. setting' = setting
  BY DEF Kept
<1> HIDE DEF Closed, Entered, Open, Of
<1> QED
  BY <1>1, <1>2, <1>3, <1>4, <1>5 DEF Link, Elsewhere

(* The answer to an open entry reaches its Hurl process, if it still waits,   *)
(* and there is no other entry of it to be answered.                         *)
LEMMA AnswerLink ==
  ASSUME TypeOK, Kept, \A j \in Executions : Link(j), NEW i \in Open,
         NEW how \in {"ready", "refused"}, NEW answer \in {"complete", "broken"},
         Reply(ledger[i].execution, how),
         ledger' = [ledger EXCEPT ![i].answer = answer],
         UNCHANGED <<queue, running, sent, arriving, failures>>
  PROVE  /\ \A j \in Executions : Link(j)'
         /\ \A j \in Executions : hurl'[j] = "queued" <=> hurl[j] = "queued"
<1>j. PICK j \in Executions : j = ledger[i].execution
  BY Positions DEF Open
<1>0. setting' = setting
  BY DEF Kept
<1>1. /\ i \in DOMAIN ledger /\ ledger[i].answer = "none"
  BY DEF Open
<1>2. /\ DOMAIN ledger' = DOMAIN ledger
      /\ ledger'[i].answer # "none"
      /\ ledger'[i].execution = j
      /\ \A k \in DOMAIN ledger \ {i} : ledger'[k] = ledger[k]
  BY <1>0, <1>1, <1>j, AnswerStep DEF Kept
<1>3. /\ hurl'[j] = IF hurl[j] = "waiting" THEN how ELSE hurl[j]
      /\ \A k \in Executions \ {j} : hurl'[k] = hurl[k]
  BY <1>1, <1>j DEF TypeOK, Reply
<1>4. Of(i, j)
  BY <1>j DEF Of
<1>5. ASSUME NEW k \in Executions, k # j
      PROVE  Link(k)'
  <2>1. Elsewhere(k)
    BY <1>2, <1>3, <1>5 DEF Elsewhere
  <2> QED
    BY <2>1, LinkStays
<1>6. ~ Closed(j)
  BY <1>1, <1>4 DEF Closed
<1>7. hurl[j] \in {"waiting", "failed"}
  BY <1>1, <1>6 DEF Link, TypeOK
<1>8. CASE hurl[j] = "waiting"
  <2>1. j \notin arriving /\ j \in running /\ Entered(j, sent[j])
    BY <1>1, <1>6, <1>8 DEF Link
  <2>2. \A k, l \in Open : Of(k, j) /\ Of(l, j) => k = l
    BY <1>1, <1>8, <2>1 DEF Link
  <2>3. Closed(j)'
    BY <1>1, <1>2, <1>4, <2>2 DEF Closed, Of, Open
  <2>4. Entered(j, sent[j])'
    BY <2>1 DEF Kept, Entered, Of
  <2>5. Link(j)'
    BY <1>3, <1>8, <2>1, <2>3, <2>4 DEF Link
  <2> QED
    BY <1>1, <1>3, <1>5, <1>8, <2>5
<1>9. CASE hurl[j] = "failed"
  <2>1. Link(j)'
    BY <1>1, <1>3, <1>9 DEF Link
  <2> QED
    BY <1>1, <1>3, <1>5, <1>9, <2>1
<1> QED
  BY <1>7, <1>8, <1>9

LEMMA LinkedStep ==
  ASSUME TypeOK, Sized, Linked, Established, [Next]_vars
  PROVE  Linked'
<1>k. Kept /\ setting' = setting /\ Executions' = Executions
  BY LedgerKept, SettingStays, SameEntries
<1>l. \A j \in Executions : Link(j) /\ InQueue(j)
  BY DEF Linked, InQueue
<1>x. Executions = 1 .. Len(setting.plan) /\ Len(setting.plan) \in Nat
  BY Workload
<1>g. ASSUME \A j \in Executions : Link(j)' /\ InQueue(j)'
      PROVE  Linked'
  BY <1>g, <1>k DEF Linked, InQueue
<1>i. ASSUME queue' = queue, \A j \in Executions : Link(j)',
             \A j \in Executions : hurl'[j] = "queued" <=> hurl[j] = "queued"
      PROVE  Linked'
  BY <1>i, <1>g, <1>l DEF InQueue
<1>u. ASSUME UNCHANGED workload, UNCHANGED ledger, failures \subseteq failures'
      PROVE  Linked'
  <2>1. \A j \in Executions : Elsewhere(j)
    BY <1>u DEF workload, Elsewhere
  <2> QED
    BY <2>1, <1>u, <1>k, <1>l, <1>i, LinkStays DEF workload
<1>1. CASE TakeJob
  <2>0. PICK next \in Executions : next = queue
    BY <1>1 DEF TakeJob
  <2>1. /\ queue = next /\ next \in Nat
        /\ running' = running \cup {next}
        /\ hurl'[next] = "ready" /\ \A j \in Executions \ {next} : hurl'[j] = hurl[j]
        /\ queue' = next + 1
        /\ sent' = sent /\ arriving' = arriving /\ ledger' = ledger
        /\ failures' = failures
    BY <1>1, <2>0, <1>x DEF TypeOK, TakeJob, proxy
  <2>2. ASSUME NEW j \in Executions, j # next
        PROVE  Link(j)'
    <3>1. Elsewhere(j)
      BY <2>1, <2>2 DEF Elsewhere
    <3> QED
      BY <3>1, <1>k, <1>l, LinkStays
  <2>3. Link(next)'
    <3>1. hurl[next] = "queued"
      BY <2>1, <1>l DEF InQueue
    <3>2. next \notin arriving /\ Closed(next) /\ sent[next] = 0
      BY <2>1, <3>1, <1>l DEF Link
    <3>4. \A i \in DOMAIN ledger' : ledger'[i].execution = next => ledger'[i].answer # "none"
      BY <2>1, <3>2 DEF Closed, Of
    <3> QED
      BY <2>1, <3>2, <3>4 DEF Link, Closed, Entered, Of
  <2>4. \A j \in Executions : InQueue(j)'
    BY <2>1, <1>l, <1>x DEF InQueue
  <2> QED
    BY <2>1, <2>2, <2>3, <2>4, <1>g
<1>2. ASSUME NEW j \in Executions, Send(j)
      PROVE  Linked'
  <2>1. /\ hurl[j] = "ready" /\ hurl'[j] = "waiting" /\ j \in running
        /\ sent'[j] = sent[j] + 1 /\ sent[j] \in Nat
        /\ arriving' = arriving \cup {j}
        /\ \A k \in Executions \ {j} : hurl'[k] = hurl[k] /\ sent'[k] = sent[k]
        /\ queue' = queue /\ running' = running /\ ledger' = ledger
        /\ failures' = failures
    BY <1>2 DEF TypeOK, Send, proxy
  <2>2. ASSUME NEW k \in Executions, k # j
        PROVE  Link(k)'
    <3>1. Elsewhere(k)
      BY <2>1, <2>2 DEF Elsewhere
    <3> QED
      BY <3>1, <1>k, <1>l, LinkStays
  <2>3. Closed(j) /\ Entered(j, sent[j])
    BY <2>1, <1>l DEF Link
  <2>4. Closed(j)' /\ Entered(j, sent[j] - 1)'
    BY <2>1, <2>3 DEF Closed, Entered, Of
  <2>5. Link(j)'
    BY <2>1, <2>4 DEF Link
  <2> QED
    BY <2>1, <2>2, <2>5, <1>i
<1>3. ASSUME NEW j \in Executions, Finish(j)
      PROVE  Linked'
  <2>1. /\ hurl[j] = "ready" /\ hurl'[j] = "done" /\ j \in running
        /\ sent[j] = Len(setting.plan[j])
        /\ running' = running \ {j}
        /\ \A k \in Executions \ {j} : hurl'[k] = hurl[k]
        /\ queue' = queue /\ sent' = sent /\ arriving' = arriving /\ ledger' = ledger
        /\ failures' = failures
    BY <1>3 DEF TypeOK, Finish, proxy
  <2>2. ASSUME NEW k \in Executions, k # j
        PROVE  Link(k)'
    <3>1. Elsewhere(k)
      BY <2>1, <2>2 DEF Elsewhere
    <3> QED
      BY <3>1, <1>k, <1>l, LinkStays
  <2>3. Closed(j) /\ Entered(j, sent[j]) /\ j \notin arriving
    BY <2>1, <1>l DEF Link
  <2>4. Closed(j)' /\ Entered(j, sent[j])'
    BY <2>1, <2>3 DEF Closed, Entered, Of
  <2>5. Link(j)'
    BY <2>1, <2>3, <2>4, <1>k DEF Link
  <2> QED
    BY <2>1, <2>2, <2>5, <1>i
<1>4. ASSUME NEW j \in Executions, Fail(j)
      PROVE  Linked'
  <2>1. /\ hurl[j] \in {"waiting", "refused"} /\ hurl'[j] = "failed"
        /\ running' = running \ {j}
        /\ failures' = failures \cup {"hurl"}
        /\ \A k \in Executions \ {j} : hurl'[k] = hurl[k]
        /\ queue' = queue /\ sent' = sent /\ arriving' = arriving /\ ledger' = ledger
    BY <1>4 DEF TypeOK, Fail, proxy
  <2>2. ASSUME NEW k \in Executions, k # j
        PROVE  Link(k)'
    <3>1. Elsewhere(k)
      BY <2>1, <2>2 DEF Elsewhere
    <3> QED
      BY <3>1, <1>k, <1>l, LinkStays
  <2>3. Link(j)'
    BY <2>1 DEF Link
  <2> QED
    BY <2>1, <2>2, <2>3, <1>i
<1>5. CASE StartDrain
  BY <1>5, <1>u DEF StartDrain, system, proxy
<1>6. CASE Poll
  BY <1>6, <1>u DEF Poll, system, proxy
<1>7. CASE DrainGivesUp
  BY <1>7, <1>u DEF DrainGivesUp, system, proxy
<1>8. CASE TakeDump
  BY <1>8, <1>u DEF TakeDump, system, proxy
<1>9. CASE Judge
  BY <1>9, <1>u DEF Judge, system, proxy
<1>10. CASE WriteFiles
  BY <1>10, <1>u DEF WriteFiles, system, proxy
<1>11. CASE WriteResult
  BY <1>11, <1>u DEF WriteResult, system, proxy
<1>12. ASSUME NEW j \in Executions, Admit(j)
      PROVE  Linked'
  <2>1. /\ j \in arriving /\ arriving' = arriving \ {j}
        /\ queue' = queue /\ running' = running /\ sent' = sent /\ failures' = failures
        /\ sent[j] \in Nat
    BY <1>12 DEF TypeOK, Admit
  <2>2. hurl[j] \in {"waiting", "failed"}
    BY <2>1, <1>l DEF Link, TypeOK
  <2>3. hurl[j] = "waiting" => Closed(j) /\ Entered(j, sent[j] - 1) /\ j \in running
    BY <2>1, <1>l DEF Link
  <2>4. CASE Reply(j, "refused") /\ UNCHANGED <<ledger, app>>
    <3>1. /\ hurl'[j] = IF hurl[j] = "waiting" THEN "refused" ELSE hurl[j]
          /\ \A k \in Executions \ {j} : hurl'[k] = hurl[k]
          /\ ledger' = ledger
      BY <2>4 DEF TypeOK, Reply
    <3>2. ASSUME NEW k \in Executions, k # j
          PROVE  Link(k)'
      <4>1. Elsewhere(k)
        BY <2>1, <3>1, <3>2 DEF Elsewhere
      <4> QED
        BY <4>1, <1>k, <1>l, LinkStays
    <3>3. CASE hurl[j] = "waiting"
      <4>1. Closed(j)'
        BY <2>3, <3>1, <3>3 DEF Closed, Of
      <4>2. Link(j)'
        BY <2>1, <2>3, <3>1, <3>3, <4>1 DEF Link
      <4> QED
        BY <2>1, <3>1, <3>2, <3>3, <4>2, <1>i
    <3>4. CASE hurl[j] = "failed"
      <4>1. Link(j)'
        BY <2>1, <3>1, <3>4, <1>l DEF Link
      <4> QED
        BY <2>1, <3>1, <3>2, <3>4, <4>1, <1>i
    <3> QED
      BY <2>2, <3>3, <3>4
  <2>5. CASE ledger' = Append(ledger, NewEntry(j)) /\ UNCHANGED hurl
    <3> DEFINE new == Len(ledger) + 1
    <3>1. /\ DOMAIN ledger' = DOMAIN ledger \cup {new} /\ new \notin DOMAIN ledger
          /\ \A i \in DOMAIN ledger : ledger'[i] = ledger[i]
          /\ ledger'[new] = NewEntry(j)
      BY <2>5, <1>k, AppendStep
    <3>2. /\ NewEntry(j).execution = j
          /\ NewEntry(j).request = sent[j]
      BY DEF NewEntry
    <3> HIDE DEF new
    <3>3. ASSUME NEW k \in Executions, k # j
          PROVE  Link(k)'
      <4>1. Elsewhere(k)
        BY <2>1, <2>5, <3>1, <3>2, <3>3 DEF Elsewhere
      <4> QED
        BY <4>1, <1>k, <1>l, LinkStays
    <3>4. CASE hurl[j] = "waiting"
      <4>1. Entered(j, sent[j] - 1)'
        BY <2>1, <2>3, <3>4, <1>k DEF Kept, Entered, Of
      <4>2. Entered(j, sent[j])'
        <5>1. \A m \in 1 .. sent[j] : m \in 1 .. sent[j] - 1 \/ m = sent[j]
          BY <2>1
        <5>2. ledger'[new].execution = j /\ ledger'[new].request = sent[j]
                /\ new \in DOMAIN ledger'
          BY <3>1, <3>2
        <5> QED
          BY <2>1, <4>1, <5>1, <5>2 DEF Entered, Of
      <4>3. (\A i, k \in Open : Of(i, j) /\ Of(k, j) => i = k)'
        <5>1. \A i \in DOMAIN ledger' :
                ledger'[i].execution = j /\ ledger'[i].answer = "none" => i = new
          BY <2>3, <3>1, <3>4 DEF Closed, Of
        <5> QED
          BY <5>1 DEF Open, Of
      <4>4. sent[j] > 0
        BY <2>1 DEF Sized
      <4> HIDE DEF Entered, Open, Of
      <4>5. Link(j)'
        BY <2>1, <2>3, <2>5, <3>4, <4>1, <4>2, <4>3, <4>4 DEF Link
      <4> QED
        BY <2>1, <2>5, <3>3, <4>5, <1>i
    <3>5. CASE hurl[j] = "failed"
      <4>1. Link(j)'
        BY <2>1, <2>5, <3>5, <1>l DEF Link
      <4> QED
        BY <2>1, <2>5, <3>3, <4>1, <1>i
    <3> QED
      BY <2>2, <3>4, <3>5
  <2> QED
    BY <1>12, <2>4, <2>5 DEF Admit, NewEntry
<1>13. ASSUME NEW i \in DOMAIN ledger, Serve(i)
      PROVE  Linked'
  BY <1>13, <1>u DEF Serve, proxy
<1>14. ASSUME NEW i \in DOMAIN ledger, Respond(i)
      PROVE  Linked'
  BY <1>14, <1>u DEF Respond, proxy
<1>15. ASSUME NEW i \in DOMAIN ledger, Complete(i)
      PROVE  Linked'
  <2> DEFINE j == ledger[i].execution
  <2>1. PICK how \in {"ready", "refused"}, answer \in {"complete", "broken"} :
          /\ Reply(j, how)
          /\ ledger' = [ledger EXCEPT ![i].answer = answer]
    BY <1>15 DEF Complete
  <2>2. i \in Open /\ queue' = queue /\ running' = running /\ sent' = sent
          /\ arriving' = arriving /\ failures' = failures
    BY <1>15 DEF Complete
  <2> QED
    BY <1>15, <2>1, <2>2, <1>k, <1>l, <1>i, AnswerLink
<1>16. ASSUME NEW i \in DOMAIN ledger, Break(i)
      PROVE  Linked'
  <2> DEFINE j == ledger[i].execution
  <2>1. PICK how \in {"ready", "refused"}, answer \in {"complete", "broken"} :
          /\ Reply(j, how)
          /\ ledger' = [ledger EXCEPT ![i].answer = answer]
    BY <1>16 DEF Break
  <2>2. i \in Open /\ queue' = queue /\ running' = running /\ sent' = sent
          /\ arriving' = arriving /\ failures' = failures
    BY <1>16 DEF Break
  <2> QED
    BY <1>16, <2>1, <2>2, <1>k, <1>l, <1>i, AnswerLink
<1>17. ASSUME NEW s \in pending, Export(s)
      PROVE  Linked'
  BY <1>17, <1>u DEF Export, proxy
<1>18. CASE DeadlinePasses
  BY <1>18, <1>u DEF DeadlinePasses, system, proxy
<1>19. CASE UNCHANGED vars
  BY <1>19, <1>u DEF vars, proxy
<1>20. CASE ResetStartup
  BY <1>20, <1>u DEF ResetStartup, system, proxy
<1> QED
  BY <1>1, <1>2, <1>3, <1>4, <1>5, <1>6, <1>7, <1>8, <1>9, <1>10, <1>11,
     <1>12, <1>13, <1>14, <1>15, <1>16, <1>17, <1>18, <1>19, <1>20 DEF Next,
     Worker, Coordinator, Environment

-----------------------------------------------------------------------------
(* The evidence *)

(* When nobody works any more and no Hurl process has failed, every execution *)
(* has ended well: all its requests are in the ledger, and answered.          *)
LEMMA AllDone ==
  ASSUME TypeOK, Linked, queue \notin Executions, running = {},
         "hurl" \notin failures, NEW j \in Executions
  PROVE  j \notin arriving /\ Closed(j) /\ Entered(j, Len(setting.plan[j]))
<1>1. ~ queue <= j
  <2>1. queue \in 1 .. Len(setting.plan) + 1 /\ Len(setting.plan) \in Nat
          /\ Executions = 1 .. Len(setting.plan)
    BY Workload DEF TypeOK
  <2> QED
    BY <2>1
<1>2. Link(j) /\ hurl[j] # "queued"
  BY <1>1 DEF Linked
<1>3. hurl[j] = "done"
  BY <1>2 DEF Link, TypeOK
<1> QED
  BY <1>2, <1>3 DEF Link

(* validateStress only accepts the spans its requests caused: the spans are   *)
(* of requests, and as many as there are queries.                            *)
LEMMA ValidatedIsOwn ==
  ASSUME TypeOK, Sized, Traced, validateStress(dump, ledger)
  PROVE  dump = UNION {OwnSpans(ledger, i) : i \in DOMAIN ledger}
<1>1. ServersMatch(dump, ledger) /\ SqlsMatch(dump, ledger)
  BY DEF validateStress
<1>2. ASSUME NEW s \in dump, s.kind = "server"
      PROVE  /\ s.request \in DOMAIN ledger
             /\ s = ServerSpan(s.request, Context(ledger, s.request))
  <2>1. s.request \in DOMAIN ledger /\ s.parent = Context(ledger, s.request)
    BY <1>1, <1>2 DEF ServersMatch, Servers
  <2>2. s \in Span /\ s.query = 0
    <3>1. s.request # 0
      BY <2>1, Positions DEF Identities
    <3> QED
      BY <1>2, <3>1 DEF TypeOK, Traced, OfStartup
  <2> QED
    BY <1>2, <2>1, <2>2 DEF Span, ServerSpan
<1>3. ASSUME NEW s \in dump, s.kind = "sql"
      PROVE  /\ s.parent \in DOMAIN ledger
             /\ s.query \in Queries(ledger, s.parent)
             /\ s = SqlSpan(s.parent, s.query, s.parent)
  <2>1. s \in Span /\ s.query \in Queries(ledger, s.request)
    BY <1>3 DEF TypeOK, Traced, OfStartup
  <2>2. s.parent \in DOMAIN ledger /\ s.request = s.parent
    BY <1>1, <1>3 DEF SqlsMatch, Sqls
  <2> QED
    BY <1>3, <2>1, <2>2 DEF Span, SqlSpan
<1>4. ASSUME NEW s \in dump
      PROVE  \E i \in DOMAIN ledger : s \in OwnSpans(ledger, i)
  <2>1. s.kind = "server" \/ s.kind = "sql"
    BY DEF TypeOK, Span
  <2> QED
    BY <1>2, <1>3, <2>1 DEF OwnSpans
<1>5. ASSUME NEW i \in DOMAIN ledger
      PROVE  OwnSpans(ledger, i) \subseteq dump
  <2> DEFINE One == {s \in Servers(dump) : s.request = i}
             A == {s \in Sqls(dump) : s.parent = i}
             Q == Queries(ledger, i)
             B == {SqlSpan(i, q, i) : q \in Q}
             f == [q \in Q |-> SqlSpan(i, q, i)]
  <2>1. ServerSpan(i, Context(ledger, i)) \in dump
    <3>1. Cardinality(One) = 1
      BY <1>1 DEF ServersMatch
    <3>2. One # {}
      BY <3>1, FS_EmptySet
    <3> QED
      BY <3>2, <1>2 DEF Servers
  <2>2. A \subseteq B
    BY <1>3 DEF Sqls
  <2>3. Cardinality(A) = Cardinality(Q) /\ IsFiniteSet(Q)
    BY <1>1, Requests DEF SqlsMatch
  <2>4. IsFiniteSet(B) /\ Cardinality(B) <= Cardinality(Q)
    <3>1. f \in Surjection(Q, B)
      BY DEF Surjection
    <3> HIDE DEF f, B, Q
    <3> QED
      BY <3>1, <2>3, FS_Surjection
  <2>5. A = B
    <3> HIDE DEF A, B, Q
    <3>1. /\ Cardinality(A) <= Cardinality(B)
          /\ Cardinality(B) = Cardinality(A) => B = A
      BY <2>2, <2>4, FS_Subset
    <3>2. Cardinality(A) \in Nat /\ Cardinality(B) \in Nat
      BY <2>2, <2>3, <2>4, FS_CardinalityType
    <3> QED
      BY <2>3, <2>4, <3>1, <3>2
  <2>6. B \subseteq dump
    BY <2>5 DEF Sqls
  <2> QED
    BY <2>1, <2>6 DEF OwnSpans
<1> QED
  BY <1>4, <1>5

LEMMA IsolatedStays ==
  ASSUME Isolated, UNCHANGED <<setting, values, dump>>
  PROVE  Isolated'
BY DEF Isolated, Executions, OwnSpans, Context, Queries, RequestOf

LEMMA EstablishedStep ==
  ASSUME TypeOK, Linked, Sized, Traced, Established, [Next]_vars
  PROVE  Established'
<1>e. setting' = setting /\ Executions' = Executions
  BY SettingStays, SameEntries
<1>i. ASSUME UNCHANGED <<values, dump>>, Isolated
      PROVE  Isolated'
  BY <1>e, <1>i, IsolatedStays
<1>1. CASE TakeJob
  BY <1>1, <1>e, <1>i DEF Established, TakeJob, proxy, sink, drain,
     outcome
<1>2. ASSUME NEW j \in Executions, Send(j)
      PROVE  Established'
  BY <1>2, <1>e, <1>i DEF Established, Send, proxy, sink, drain, outcome
<1>3. ASSUME NEW j \in Executions, Finish(j)
      PROVE  Established'
  BY <1>3, <1>e, <1>i DEF Established, Finish, proxy, sink, drain,
     outcome
<1>4. ASSUME NEW j \in Executions, Fail(j)
      PROVE  Established'
  BY <1>4, <1>e, <1>i DEF Established, Fail, proxy, sink, drain, outcome
<1>5. CASE StartDrain
  BY <1>5, <1>e, <1>i DEF Established, StartDrain, Joined, system, workload,
     proxy, sink, drain, outcome
<1>6. CASE Poll
  BY <1>6, <1>e, <1>i DEF Established, Poll, system, workload, proxy,
     sink, outcome, Ends
<1>7. CASE DrainGivesUp
  BY <1>7, <1>e, <1>i DEF Established, DrainGivesUp, system, workload,
     proxy, sink, drain, outcome
<1>8. CASE TakeDump
  BY <1>8, <1>e, <1>i DEF Established, TakeDump, system, workload, proxy,
     drain, Ends
<1>9. CASE Judge
  <2>1. CASE /\ values' = ledger /\ phase' = "files" /\ UNCHANGED exit
             /\ failures' = failures
                  \cup (IF validateStress(dump, ledger) THEN {} ELSE {"evidence"})
                  \cup (IF Overlapping(ledger, [i \in DOMAIN ledger |-> ledger[i].beside])
                        THEN {} ELSE {"overlap"})
    <3>1. /\ ledger' = ledger /\ dump' = dump /\ disk' = disk /\ queue' = queue
          /\ running' = running
          /\ queue \notin Executions /\ running = {} /\ exit = "running"
          /\ disk.result = "none"
      BY <1>9 DEF Established, Judge, system, workload, proxy
    <3>2. ASSUME failures' = {}
          PROVE  Isolated'
      <4>1. validateStress(dump, ledger) /\ "hurl" \notin failures
        BY <2>1, <3>2
      <4>2. dump = UNION {OwnSpans(ledger, i) : i \in DOMAIN ledger}
        BY <4>1, ValidatedIsOwn
      <4>3. \A j \in Executions : \A n \in 1 .. Len(setting.plan[j]) :
              \E i \in DOMAIN ledger : ledger[i].execution = j /\ ledger[i].request = n
        BY <4>1, <3>1, AllDone DEF Entered, Of
      <4>4. \A j \in Executions : DOMAIN setting.plan[j] = 1 .. Len(setting.plan[j])
        BY Workload
      <4>5. dump' = UNION {OwnSpans(values', i) : i \in DOMAIN values'}
        BY <2>1, <3>1, <4>2
      <4>6. \A j \in Executions' : \A n \in DOMAIN setting'.plan[j] :
              \E i \in DOMAIN values' : values'[i].execution = j /\ values'[i].request = n
        BY <1>e, <2>1, <4>3, <4>4
      <4>7. UNION {OwnSpans(values, i) : i \in DOMAIN values}'
              = UNION {OwnSpans(values', i) : i \in DOMAIN values'}
        BY <1>e DEF OwnSpans, Context, Queries, RequestOf
      <4> QED
        BY <4>5, <4>6, <4>7 DEF Isolated
    <3> QED
      BY <1>e, <2>1, <3>1, <3>2 DEF Established
  <2>2. CASE Ends("failed")
    BY <1>9, <1>e, <2>2 DEF Established, Judge, system, workload, proxy, Ends
  <2> QED
    BY <1>9, <2>1, <2>2 DEF Judge
<1>10. CASE WriteFiles
  <2>1. /\ queue' = queue /\ running' = running /\ ledger' = ledger
        /\ failures' = failures /\ values' = values /\ dump' = dump
        /\ disk'.result = disk.result
        /\ disk' \in [capture : BOOLEAN, ledger : BOOLEAN,
                     result : {"none", "passed", "failed"}]
    BY <1>10 DEF WriteFiles, system, workload, proxy, TypeOK
  <2>2. /\ phase = "files" /\ exit = "running" /\ disk.result = "none"
        /\ values = ledger /\ (failures = {} => Isolated)
        /\ queue \notin Executions /\ running = {}
    BY <1>10 DEF Established, WriteFiles
  <2>3. \/ disk'.capture /\ disk'.ledger /\ phase' = "result" /\ exit' = exit
        \/ phase' = "exit" /\ exit' = "failed"
    BY <1>10 DEF WriteFiles, Ends, TypeOK
  <2> QED
    BY <2>1, <2>2, <2>3, <1>e, <1>i DEF Established
<1>11. CASE WriteResult
  <2>1. /\ queue' = queue /\ running' = running /\ ledger' = ledger
        /\ failures' = failures /\ values' = values /\ dump' = dump
        /\ phase' = "exit"
        /\ disk'.capture = disk.capture /\ disk'.ledger = disk.ledger
    BY <1>11 DEF WriteResult, Ends, system, workload, proxy, TypeOK
  <2>2. /\ phase = "result" /\ exit = "running" /\ disk.result = "none"
        /\ disk.capture /\ disk.ledger /\ (failures = {} => Isolated)
        /\ queue \notin Executions /\ running = {}
    BY <1>11 DEF Established, WriteResult
  <2>3. \/ failures = {} /\ disk'.result = "passed" /\ exit' \in {"passed", "failed"}
        \/ disk'.result \in {"none", "failed"} /\ exit' = "failed"
    BY <1>11, <2>2 DEF WriteResult, Ends, TypeOK
  <2> QED
    BY <2>1, <2>2, <2>3, <1>e, <1>i DEF Established
<1>12. ASSUME NEW j \in Executions, Admit(j)
      PROVE  Established'
  BY <1>12, <1>e, <1>i DEF Established, Admit, Matters, sink, drain, outcome
<1>13. ASSUME NEW i \in DOMAIN ledger, Serve(i)
      PROVE  Established'
  BY <1>13, <1>e, <1>i DEF Established, Serve, workload, sink, drain,
     outcome
<1>14. ASSUME NEW i \in DOMAIN ledger, Respond(i)
      PROVE  Established'
  BY <1>14, <1>e, <1>i DEF Established, Respond, workload, sink, drain,
     outcome
<1>15. ASSUME NEW i \in DOMAIN ledger, Complete(i)
      PROVE  Established'
  BY <1>15, <1>e, <1>i DEF Established, Complete, Matters, sink, drain, outcome
<1>16. ASSUME NEW i \in DOMAIN ledger, Break(i)
      PROVE  Established'
  BY <1>16, <1>e, <1>i DEF Established, Break, Matters, sink, drain, outcome
<1>17. ASSUME NEW s \in pending, Export(s)
      PROVE  Established'
  BY <1>17, <1>e, <1>i DEF Established, Export, workload, drain, outcome
<1>18. CASE DeadlinePasses
  BY <1>18, <1>e, <1>i DEF Established, DeadlinePasses, system, workload,
     proxy, sink, outcome
<1>19. CASE UNCHANGED vars
  BY <1>19, <1>e, <1>i DEF Established, vars, workload, proxy, sink,
     drain, outcome
<1>20. CASE ResetStartup
  <2>1. /\ queue' = queue /\ running' = running /\ ledger' = ledger
        /\ failures' = failures /\ values' = values /\ dump' = dump
        /\ disk' = disk
    BY <1>20 DEF ResetStartup, system, workload, proxy
  <2>2. /\ phase = "startup" /\ exit = "running" /\ disk.result = "none"
    BY <1>20 DEF Established, ResetStartup
  <2>3. \/ phase' = "workload" /\ exit' = exit
        \/ phase' = "exit" /\ exit' = "failed"
    BY <1>20, <2>1 DEF ResetStartup, Ends
  <2> QED
    BY <2>1, <2>2, <2>3, <1>e, <1>i DEF Established
<1> QED
  BY <1>1, <1>2, <1>3, <1>4, <1>5, <1>6, <1>7, <1>8, <1>9, <1>10, <1>11,
     <1>12, <1>13, <1>14, <1>15, <1>16, <1>17, <1>18, <1>19, <1>20 DEF Next,
     Worker, Coordinator, Environment

-----------------------------------------------------------------------------
(* The theorems *)

LEMMA InitialStates ==
  Init => IInv
<1> SUFFICES ASSUME Init
             PROVE  IInv
  OBVIOUS
<1>1. Sink!TypeOK /\ kept["datadog"] = {}
  BY DEF Init, Sink!Init, Sink!TypeOK
<1>2. setting \in Setting
  BY ParallelAssumption DEF Init
<1>3. /\ Len(setting.plan) \in Nat
      /\ Executions = 1 .. Len(setting.plan)
      /\ \A j \in Executions : Len(setting.plan[j]) \in Nat
  <2>1. setting.plan \in Seq(Seq(Request))
    BY <1>2 DEF Setting
  <2> QED
    BY <2>1 DEF Executions
<1>s. /\ StartupSpans(setting.startup) \subseteq Span
      /\ IsFiniteSet(StartupSpans(setting.startup))
      /\ \A s \in StartupSpans(setting.startup) : OfStartup(s)
  <2> DEFINE n == setting.startup
             f == [k \in 1 .. n |->
                     [kind |-> "server", request |-> 0, query |-> k, parent |-> 0]]
  <2>1. n \in Nat
    BY <1>2 DEF Setting
  <2>2. IsFiniteSet(1 .. n)
    BY <2>1, FS_Interval
  <2>3. f \in Surjection(1 .. n, StartupSpans(n))
    BY DEF Surjection, StartupSpans
  <2> HIDE DEF f
  <2>4. IsFiniteSet(StartupSpans(n))
    BY <2>2, <2>3, FS_Surjection
  <2> QED
    BY <2>1, <2>4 DEF StartupSpans, Span, OfStartup
<1>4. TypeOK
  <2>1. queue \in 1 .. Len(setting.plan) + 1
    BY <1>3 DEF Init
  <2>2. /\ hurl \in [Executions ->
              {"queued", "ready", "waiting", "refused", "done", "failed"}]
        /\ sent \in [Executions -> Nat]
    BY DEF Init
  <2>3. /\ ledger \in Seq(Entry) /\ values \in Seq(Entry)
        /\ app \in Seq([stage : {"none", "serving", "served"},
                       beside : SUBSET Identities])
    BY DEF Init
  <2>4. disk \in [capture : BOOLEAN, ledger : BOOLEAN,
                 result : {"none", "passed", "failed"}]
    BY DEF Init
  <2>5. pending \subseteq Span
    BY <1>s DEF Init
  <2> QED
    BY <1>1, <2>1, <2>2, <2>3, <2>4, <2>5 DEF Init, TypeOK
<1>5. Linked
  <2> SUFFICES ASSUME NEW j \in Executions
               PROVE  Link(j) /\ (hurl[j] = "queued" <=> queue <= j)
    BY DEF Linked
  <2>1. hurl[j] = "queued" /\ sent[j] = 0 /\ queue <= j
    BY <1>3 DEF Init
  <2> QED
    BY <2>1 DEF Init, Link, Closed
<1>6. Sized
  <2>1. \A j \in Executions : sent[j] = 0
    BY DEF Init
  <2>2. IsFiniteSet({})
    BY FS_EmptySet
  <2>3. Len(app) = Len(ledger) /\ DOMAIN ledger = {}
    BY DEF Init
  <2>4. arriving = {} /\ IsFiniteSet(pending)
    BY <1>s DEF Init
  <2> QED
    BY <1>1, <1>3, <2>1, <2>2, <2>3, <2>4 DEF Sized
<1>7. Traced
  BY <1>1, <1>s DEF Init, Traced
<1>8. Established
  BY DEF Init, Established
<1> QED
  BY <1>4, <1>5, <1>6, <1>7, <1>8 DEF IInv

(* The invariant holds for any workload, however the workers, the proxy, the  *)
(* application and the coordinator interleave.                              *)
THEOREM InductiveInvariant ==
  Spec => []IInv
<1>1. ASSUME IInv, [Next]_vars
      PROVE  IInv'
  BY <1>1, TypeStep, LinkedStep, SizedStep, TracedStep, EstablishedStep DEF IInv
<1> QED
  BY InitialStates, <1>1, PTL DEF Spec

(* Every variable of the driver keeps its type, for every workload, number of *)
(* workers and limit.                                                       *)
THEOREM TypeCorrect ==
  Spec => []TypeOK
<1>1. IInv => TypeOK
  BY DEF IInv
<1> QED
  BY InductiveInvariant, <1>1, PTL

(* A passing result says that every request of the workload is in the ledger  *)
(* and that the capture holds exactly the spans these requests cause, each    *)
(* in its own trace: validateStress can count its way to nothing less.       *)
THEOREM PassesAreIsolated ==
  Spec => []PassMeansIsolated
<1>1. IInv => PassMeansIsolated
  BY DEF IInv, Established, Isolated, PassMeansIsolated
<1> QED
  BY InductiveInvariant, <1>1, PTL

(* The ledger that is read without the mutex after workers.Wait() has no      *)
(* writer left, unless a Hurl process has failed.                            *)
THEOREM LedgerIsSettled ==
  Spec => []LedgerSettled
<1>1. IInv => LedgerSettled
  <2> SUFFICES ASSUME IInv,
                      phase \in {"drain", "dump", "judge", "files", "result"},
                      "hurl" \notin failures
               PROVE  /\ arriving = {}
                      /\ Open = {}
                      /\ phase \in {"files", "result"} => values = ledger
    BY DEF LedgerSettled
  <2>1. queue \notin Executions /\ running = {}
    BY DEF IInv, Established
  <2>2. \A j \in Executions : j \notin arriving /\ Closed(j)
    BY <2>1, AllDone DEF IInv
  <2>3. arriving = {}
    BY <2>2 DEF IInv, TypeOK
  <2>4. Open = {}
    BY <2>2, Positions DEF IInv, Closed, Of, Open
  <2> QED
    BY <2>3, <2>4 DEF IInv, Established
<1> QED
  BY InductiveInvariant, <1>1, PTL

(* One failed Hurl process, in whichever worker, keeps the driver from        *)
(* passing, and a result is never written without its evidence.              *)
THEOREM FailuresAreKept ==
  Spec => []FailureIsKept
<1>1. IInv => FailureIsKept
  <2> SUFFICES ASSUME IInv
               PROVE  FailureIsKept
    OBVIOUS
  <2>1. (\E j \in Executions : hurl[j] = "failed") => "hurl" \in failures
    BY DEF IInv, Linked, Link
  <2> QED
    BY <2>1 DEF IInv, Established, FailureIsKept
<1> QED
  BY InductiveInvariant, <1>1, PTL
=============================================================================
