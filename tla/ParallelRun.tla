----------------------------- MODULE ParallelRun -----------------------------
(***************************************************************************)
(* The parallel scenario driver (harness/parallel_scenarios.go).            *)
(*                                                                         *)
(* Workers run Hurl executions side by side through a proxy that keeps a     *)
(* ledger of every request, once the telemetry of the application's startup  *)
(* has been erased.  When all executions have ended, one                    *)
(* coordinator waits for the telemetry to settle, takes a single dump, and   *)
(* decides from dump and ledger whether every span belongs to the request   *)
(* that caused it.                                                          *)
(*                                                                         *)
(* The application may confuse the trace contexts of requests it serves at   *)
(* the same time: that is the defect the driver exists to find.  Requests    *)
(* may be given up by Hurl while the proxy or the application still works    *)
(* on them, exports come late or not at all, and files may fail to be        *)
(* written.  The sink is Capture.tla, which Sink.tla implements.            *)
(***************************************************************************)
EXTENDS Integers, Sequences, FiniteSets

CONSTANTS
  Concurrency,  \* number of workers
  Settings      \* what the driver may be run with, see Setting

(* A request as the workload defines it: whether it carries a trace context  *)
(* and how many SQL queries it makes the application execute.               *)
Request == [context : BOOLEAN, queries : Nat]

(* plan[j]: the requests execution j sends, one by one; maxStressRequests;   *)
(* the record quota of the sink; what the application confuses: the contexts *)
(* it continues, the parents of its queries, or nothing; and the number of   *)
(* server spans its startup causes.                                         *)
Setting ==
  [plan : Seq(Seq(Request)), maxStressRequests : Nat, maxRecords : Nat,
   confuses : {"nothing", "contexts", "parents"}, startup : Nat]

ASSUME ParallelAssumption ==
  /\ Concurrency \in Nat \ {0}
  /\ Settings \subseteq Setting

(* A ledger entry is known by its position: its identifier is random, hence   *)
(* new.                                                                     *)
Identities == Nat \ {0}

(* A server span names its request by a tag and continues the context of     *)
(* request "parent" (0: of none).  A SQL span names its request by the       *)
(* marker in its text and is a child of the server span of "parent".  The    *)
(* spans of the startup name no request (0).                                *)
Span ==
  [kind : {"server", "sql"}, request : Identities \cup {0}, query : Nat,
   parent : Identities \cup {0}]

VARIABLES
  setting,   \* the setting of this behaviour
  queue,     \* the first execution no worker has taken
  running,   \* the executions the workers are at, one each
  hurl,      \* hurl[j]: where the Hurl process of execution j is
  sent,      \* sent[j]: how many requests it has sent
  arriving,  \* executions whose request has not entered the ledger yet
  ledger,    \* the ledger of the proxy
  app,       \* app[i]: what the application does about request i
  pending,   \* spans the application has not exported
  kept,      \* the sink's capture, see Capture.tla
  taken,
  snapshot,
  overflow,  \* capture_overflow of the sink
  phase,     \* where the coordinator is
  failures,  \* the kinds of entries in failures
  last,      \* the spans counted by the last poll that saw them change
  expired,   \* the deadline of the drain has passed
  dump,      \* capture: what GET /dump answered
  values,    \* the copy of the ledger that is judged and written
  disk,      \* which evidence files are whole, and what the result says
  exit       \* how the driver process ended

Executions == DOMAIN setting.plan

sink == <<kept, taken, snapshot, overflow>>
workload == <<queue, running, hurl, sent, arriving>>
proxy == <<ledger, app, pending>>
drain == <<last, expired>>
outcome == <<setting, dump, values, disk, exit>>
vars == <<workload, proxy, sink, phase, failures, drain, outcome>>

Sink ==
  INSTANCE Capture WITH
    Protocols <- {"datadog"}, Entries <- Span, Discards <- {Span}

-----------------------------------------------------------------------------
(* The evidence *)

RequestOf(entry) == setting.plan[entry.execution][entry.request]

(* The spans request i causes when no context is confused. *)
ServerSpan(i, parent) ==
  [kind |-> "server", request |-> i, query |-> 0, parent |-> parent]
SqlSpan(i, q, parent) ==
  [kind |-> "sql", request |-> i, query |-> q, parent |-> parent]

(* The health checks of the startup, which no proxy tagged. *)
StartupSpans(n) ==
  {[kind |-> "server", request |-> 0, query |-> k, parent |-> 0] : k \in 1 .. n}

Context(L, i) == IF RequestOf(L[i]).context THEN i ELSE 0
Queries(L, i) == 1 .. RequestOf(L[i]).queries

OwnSpans(L, i) ==
  {ServerSpan(i, Context(L, i))} \cup {SqlSpan(i, q, i) : q \in Queries(L, i)}

Servers(S) == {s \in S : s.kind = "server"}
Sqls(S) == {s \in S : s.kind = "sql"}

(* The ledger part of validateStress: every entry is complete, and the       *)
(* requests of an execution are numbered from one without a gap.            *)
LedgerComplete(L) ==
  /\ L # <<>>
  /\ \A i \in DOMAIN L : L[i].answer = "complete"
  /\ \A j \in Executions :
       LET own == {i \in DOMAIN L : L[i].execution = j} IN
         {L[i].sequence : i \in own} = 1 .. Cardinality(own)

(* Its server part: every request has one server span, which continues the   *)
(* context the proxy gave that request, or none.  A server span below a span *)
(* of the capture, which the code refuses too, does not occur: the parents   *)
(* of server spans are contexts of the proxy.                               *)
ServersMatch(S, L) ==
  /\ \A s \in Servers(S) : s.request \in DOMAIN L /\ s.parent = Context(L, s.request)
  /\ \A i \in DOMAIN L : Cardinality({s \in Servers(S) : s.request = i}) = 1

(* Mutant of SqlsMatch: spans are counted by owner, their markers not read. *)
SqlsCounted(S, L) ==
  \A i \in DOMAIN L :
    Cardinality({s \in Sqls(S) : s.parent = i}) = RequestOf(L[i]).queries

(* Its SQL part: every SQL span lies below the server span of the request    *)
(* its marker names, and none is lost.                                      *)
SqlsMatch(S, L) ==
  /\ \A s \in Sqls(S) : s.parent \in DOMAIN L /\ s.request = s.parent
  /\ \A i \in DOMAIN L :
       Cardinality({s \in Sqls(S) : s.parent = i}) = RequestOf(L[i]).queries

(* overlap: at least two of the requests were under way at the same time. *)
Overlapping(L, beside) == \E i \in DOMAIN L : beside[i] \cap DOMAIN L # {}

validateStress(S, L) ==
  /\ LedgerComplete(L)
  /\ ServersMatch(S, L)
  /\ SqlsMatch(S, L)
  /\ Overlapping(L, [i \in DOMAIN L |-> app[i].beside])

-----------------------------------------------------------------------------
Init ==
  /\ setting \in Settings
  /\ queue = 1
  /\ running = {}
  /\ hurl = [j \in Executions |-> "queued"]
  /\ sent = [j \in Executions |-> 0]
  /\ arriving = {}
  /\ ledger = <<>>
  /\ app = <<>>
  /\ pending = StartupSpans(setting.startup)
  /\ Sink!Init
  /\ overflow = FALSE
  /\ phase = "startup"
  /\ failures = {}
  /\ last = 0
  /\ expired = FALSE
  /\ dump = {}
  /\ values = <<>>
  /\ disk = [capture |-> FALSE, ledger |-> FALSE, result |-> "none"]
  /\ exit = "running"

-----------------------------------------------------------------------------
(* The workers *)

(* Mutant of TakeJob: the end of the closed queue is not noticed. *)
TakeJobUnchecked ==
  /\ phase = "workload"
  /\ Cardinality(running) < Concurrency
  /\ running' = running \cup {queue}
  /\ queue' = queue + 1
  /\ hurl' = [hurl EXCEPT ![queue] = "ready"]
  /\ UNCHANGED <<sent, arriving, proxy, sink, phase, failures, drain, outcome>>

(* A worker receives the next execution from the queue and starts Hurl. *)
TakeJob ==
  /\ phase = "workload"
  /\ queue \in Executions
  /\ Cardinality(running) < Concurrency
  /\ running' = running \cup {queue}
  /\ queue' = queue + 1
  /\ hurl' = [hurl EXCEPT ![queue] = "ready"]
  /\ UNCHANGED <<sent, arriving, proxy, sink, phase, failures, drain, outcome>>

(* Hurl sends its requests one at a time (--jobs=1), the next one when the   *)
(* answer to the last one was as expected.                                  *)
Send(j) ==
  /\ j \in running
  /\ hurl[j] = "ready"
  /\ sent[j] < Len(setting.plan[j])
  /\ hurl' = [hurl EXCEPT ![j] = "waiting"]
  /\ sent' = [sent EXCEPT ![j] = @ + 1]
  /\ arriving' = arriving \cup {j}
  /\ UNCHANGED <<queue, running, proxy, sink, phase, failures, drain, outcome>>

Finish(j) ==
  /\ j \in running
  /\ hurl[j] = "ready"
  /\ sent[j] = Len(setting.plan[j])
  /\ hurl' = [hurl EXCEPT ![j] = "done"]
  /\ running' = running \ {j}
  /\ UNCHANGED <<queue, sent, arriving, proxy, sink, phase, failures, drain,
                 outcome>>

(* Mutant of Fail: the worker appends to a stale copy of the list. *)
FailUnheard(j) ==
  /\ j \in running
  /\ hurl[j] \in {"waiting", "refused"}
  /\ hurl' = [hurl EXCEPT ![j] = "failed"]
  /\ running' = running \ {j}
  /\ UNCHANGED <<failures, queue, sent, arriving, proxy, sink, phase, drain,
                 outcome>>

(* Hurl exits with an error: the answer was not as expected, or did not come *)
(* in its time while proxy and application may still work on the request.   *)
Fail(j) ==
  /\ j \in running
  /\ hurl[j] \in {"waiting", "refused"}
  /\ hurl' = [hurl EXCEPT ![j] = "failed"]
  /\ running' = running \ {j}
  /\ failures' = failures \cup {"hurl"}
  /\ UNCHANGED <<queue, sent, arriving, proxy, sink, phase, drain, outcome>>

-----------------------------------------------------------------------------
(* The proxy and the application *)

(* What happens after the ledger was judged reaches nobody any more. *)
Matters == phase \notin {"files", "result", "exit"}

(* What the Hurl process of j receives, if it still waits. *)
Reply(j, how) == hurl' = [hurl EXCEPT ![j] = IF @ = "waiting" THEN how ELSE @]

Open == {i \in DOMAIN ledger : ledger[i].answer = "none"}
Serving == {i \in DOMAIN app : app[i].stage = "serving"}

(* The handler, under the mutex: a full ledger answers 507; otherwise the    *)
(* entry is numbered and appended, to be completed later.                   *)
Admit(j) ==
  /\ Matters
  /\ j \in arriving
  /\ arriving' = arriving \ {j}
  /\ \/ /\ Len(ledger) >= setting.maxStressRequests
        /\ Reply(j, "refused")
        /\ UNCHANGED <<ledger, app>>
     \/ /\ Len(ledger) < setting.maxStressRequests
        /\ ledger' =
             Append(ledger,
               [execution |-> j, request |-> sent[j], answer |-> "none",
                sequence |-> 1 + Cardinality({i \in DOMAIN ledger : ledger[i].execution = j}),
                beside |-> Open])
        /\ app' = Append(app, [stage |-> "none", beside |-> {}])
        /\ UNCHANGED hurl
  /\ UNCHANGED <<queue, running, sent, pending, sink, phase, failures, drain,
                 outcome>>

(* The application starts on a request, also on one given up meanwhile. *)
Serve(i) ==
  /\ Matters
  /\ i \in DOMAIN app
  /\ app[i].stage = "none"
  /\ app' = [app EXCEPT ![i] = [stage |-> "serving", beside |-> Serving]]
  /\ UNCHANGED <<workload, ledger, pending, sink, phase, failures, drain, outcome>>

(* The requests whose context may be taken for that of i: an application     *)
(* that confuses it may take one served at the same time.                   *)
Candidates(i, what) ==
  {i} \cup {k \in DOMAIN app :
             setting.confuses = what
               /\ (k \in app[i].beside \/ i \in app[k].beside)}

(* The application answers and records its spans, each below its own or a    *)
(* confused context.                                                        *)
Respond(i) ==
  /\ Matters
  /\ i \in Serving
  /\ app' = [app EXCEPT ![i].stage = "served"]
  /\ \E k \in Candidates(i, "contexts"),
        under \in [Queries(ledger, i) -> Candidates(i, "parents")] :
       pending' =
         pending \cup {ServerSpan(i, Context(ledger, k))}
                 \cup {SqlSpan(i, q, under[q]) : q \in Queries(ledger, i)}
  /\ UNCHANGED <<workload, ledger, sink, phase, failures, drain, outcome>>

(* ModifyResponse, under the mutex, and the answer on its way to Hurl, which *)
(* likes it or not.                                                         *)
Complete(i) ==
  /\ Matters
  /\ i \in Open
  /\ app[i].stage = "served"
  /\ ledger' = [ledger EXCEPT ![i].answer = "complete"]
  /\ \E how \in {"ready", "refused"} : Reply(ledger[i].execution, how)
  /\ UNCHANGED <<queue, running, sent, arriving, app, pending, sink, phase,
                 failures, drain, outcome>>

(* The exchange with the application breaks off, by itself or because Hurl   *)
(* is gone: the entry is never completed.                                   *)
Break(i) ==
  /\ Matters
  /\ i \in Open
  /\ ledger' = [ledger EXCEPT ![i].answer = "broken"]
  /\ Reply(ledger[i].execution, "refused")
  /\ UNCHANGED <<queue, running, sent, arriving, app, pending, sink, phase,
                 failures, drain, outcome>>

(* A span reaches the sink, which may be full. *)
Export(s) ==
  /\ Matters
  /\ s \in pending
  /\ pending' = pending \ {s}
  /\ \/ /\ Cardinality(kept["datadog"]) < setting.maxRecords
        /\ Sink!Acknowledge("datadog", s)
        /\ UNCHANGED overflow
     \/ /\ Cardinality(kept["datadog"]) >= setting.maxRecords
        /\ overflow' = TRUE
        /\ UNCHANGED <<kept, taken, snapshot>>
  /\ UNCHANGED <<workload, ledger, app, phase, failures, drain, outcome>>

-----------------------------------------------------------------------------
(* The coordinator *)

system == <<workload, proxy>>

Ends(how) == phase' = "exit" /\ exit' = how

(* POST /reset/traces-and-metrics: every record goes, and the overflow flag.  *)
EraseStartup ==
  /\ Sink!Discard("datadog", Span)
  /\ overflow' = FALSE

(* resetStartupTelemetry, whose wait ScenarioRun.tla models: it needs a span, *)
(* and may give up or fail, also after the sink has erased its records.      *)
ResetStartup ==
  /\ phase = "startup"
  /\ \/ /\ kept["datadog"] # {}
        /\ EraseStartup
        /\ phase' = "workload"
        /\ UNCHANGED exit
     \/ /\ EraseStartup \/ UNCHANGED sink
        /\ Ends("failed")
  /\ UNCHANGED <<system, failures, drain, setting, dump, values, disk>>

(* Mutant of Joined: the coordinator waits for the queue only. *)
QueueEmpty == queue \notin Executions

(* workers.Wait() *)
Joined == queue \notin Executions /\ running = {}

StartDrain ==
  /\ phase = "workload"
  /\ Joined
  /\ phase' = "drain"
  /\ UNCHANGED <<system, sink, failures, drain, outcome>>

(* GET /stats and what follows from it.  The quiet period is abstracted to   *)
(* two polls that agree, with or without time for others between them.      *)
Poll ==
  /\ phase = "drain"
  /\ ~ expired
  /\ LET spans == Cardinality(kept["datadog"]) IN
       \/ /\ Ends("failed")
          /\ UNCHANGED <<failures, last, setting, dump, values, disk>>
       \/ /\ overflow
          /\ failures' = failures \cup {"overflow"}
          /\ phase' = "dump"
          /\ UNCHANGED <<last, outcome>>
       \/ /\ ~ overflow
          /\ spans # last
          /\ last' = spans
          /\ UNCHANGED <<phase, failures, outcome>>
       \/ /\ ~ overflow
          /\ spans = last
          /\ spans > 0
          /\ phase' = "dump"
          /\ UNCHANGED <<failures, last, outcome>>
  /\ UNCHANGED <<system, sink, expired>>

(* The thirty seconds of the drain are over. *)
DeadlinePasses ==
  /\ phase = "drain"
  /\ ~ expired
  /\ expired' = TRUE
  /\ UNCHANGED <<system, sink, phase, failures, last, outcome>>

(* Mutant of DrainGivesUp: the loop waits for a span before it gives up. *)
DrainWaits ==
  /\ phase = "drain"
  /\ expired
  /\ last > 0
  /\ failures' = failures \cup {"quiescence"}
  /\ phase' = "dump"
  /\ UNCHANGED <<system, sink, drain, outcome>>

DrainGivesUp ==
  /\ phase = "drain"
  /\ expired
  /\ failures' = failures \cup {"quiescence"}
  /\ phase' = "dump"
  /\ UNCHANGED <<system, sink, drain, outcome>>

(* GET /dump *)
TakeDump ==
  /\ phase = "dump"
  /\ \/ /\ Sink!Freeze("datadog")
        /\ dump' = kept["datadog"]
        /\ phase' = "judge"
        /\ UNCHANGED exit
     \/ /\ Sink!Freeze("datadog") \/ UNCHANGED <<kept, taken, snapshot>>
        /\ Ends("failed")
        /\ UNCHANGED dump
  /\ UNCHANGED <<system, overflow, failures, drain, setting, values, disk>>

(* The ledger is copied without the mutex and judged.  A handler that        *)
(* appends between the two readings of its length makes the copy panic; an   *)
(* entry completed meanwhile is read before or after, or in part, which is   *)
(* as good as before.                                                       *)
Judge ==
  /\ phase = "judge"
  /\ \/ /\ values' = ledger
        /\ failures' = failures
             \cup (IF validateStress(dump, ledger) THEN {} ELSE {"evidence"})
             \cup (IF Overlapping(ledger, [i \in DOMAIN ledger |-> ledger[i].beside])
                   THEN {} ELSE {"overlap"})
        /\ phase' = "files"
        /\ UNCHANGED exit
     \/ /\ arriving # {}
        /\ Len(ledger) < setting.maxStressRequests
        /\ Ends("failed")
        /\ UNCHANGED <<values, failures>>
  /\ UNCHANGED <<system, sink, drain, setting, dump, disk>>

(* Capture and ledger are written in any order, and the result only after    *)
(* both.  A write that fails, or before which the driver is killed, leaves a *)
(* missing or an incomplete file.                                           *)
WriteFiles ==
  /\ phase = "files"
  /\ \/ /\ disk' = [disk EXCEPT !.capture = TRUE, !.ledger = TRUE]
        /\ phase' = "result"
        /\ UNCHANGED exit
     \/ /\ \/ disk' = disk
           \/ disk' = [disk EXCEPT !.capture = TRUE]
           \/ disk' = [disk EXCEPT !.ledger = TRUE]
        /\ Ends("failed")
  /\ UNCHANGED <<system, sink, failures, drain, setting, dump,
                 values>>

(* The result is the last file: a driver killed behind it has not passed. *)
WriteResult ==
  /\ phase = "result"
  /\ \/ LET verdict == IF failures = {} THEN "passed" ELSE "failed" IN
          /\ disk' = [disk EXCEPT !.result = verdict]
          /\ Ends(verdict) \/ Ends("failed")
     \/ /\ Ends("failed")
        /\ UNCHANGED disk
  /\ UNCHANGED <<system, sink, failures, drain, setting, dump,
                 values>>

-----------------------------------------------------------------------------
Worker == TakeJob \/ \E j \in Executions : Send(j) \/ Finish(j) \/ Fail(j)

Coordinator ==
  \/ ResetStartup
  \/ StartDrain
  \/ Poll
  \/ DrainGivesUp
  \/ TakeDump
  \/ Judge
  \/ WriteFiles
  \/ WriteResult

Environment ==
  \/ \E j \in Executions : Admit(j)
  \/ \E i \in DOMAIN ledger : Serve(i) \/ Respond(i) \/ Complete(i) \/ Break(i)
  \/ \E s \in pending : Export(s)
  \/ DeadlinePasses

Next == Worker \/ Coordinator \/ Environment

(* Workers and coordinator are never blocked for ever, Hurl gives up by      *)
(* itself, and time passes; nothing obliges the application to answer or to  *)
(* export.                                                                  *)
Spec ==
  Init /\ [][Next]_vars
    /\ WF_vars(Worker \/ Coordinator)
    /\ WF_vars(DeadlinePasses)

-----------------------------------------------------------------------------
(* Properties *)

Entry ==
  [execution : Executions, request : Nat, sequence : Nat,
   answer : {"none", "complete", "broken"}, beside : SUBSET Identities]

(* Every variable keeps its type: the locals of runParallelScenarios, the    *)
(* processes it starts and the sink's capture.                              *)
TypeOK ==
  /\ setting \in Settings
  /\ queue \in 1 .. Len(setting.plan) + 1
  /\ running \subseteq Executions
  /\ hurl \in [Executions ->
       {"queued", "ready", "waiting", "refused", "done", "failed"}]
  /\ sent \in [Executions -> Nat]
  /\ arriving \subseteq Executions
  /\ ledger \in Seq(Entry)
  /\ app \in Seq([stage : {"none", "serving", "served"}, beside : SUBSET Identities])
  /\ pending \subseteq Span
  /\ Sink!TypeOK
  /\ overflow \in BOOLEAN
  /\ phase \in {"startup", "workload", "drain", "dump", "judge", "files", "result", "exit"}
  /\ failures \subseteq {"hurl", "overflow", "quiescence", "evidence", "overlap"}
  /\ last \in Nat
  /\ expired \in BOOLEAN
  /\ dump \subseteq Span
  /\ values \in Seq(Entry)
  /\ disk \in [capture : BOOLEAN, ledger : BOOLEAN,
               result : {"none", "passed", "failed"}]
  /\ exit \in {"running", "passed", "failed"}

(* What a passing result file claims: every execution ended well, the ledger *)
(* written beside it holds all their requests, and the capture written       *)
(* beside it holds exactly the spans these requests caused, none lost, none  *)
(* in the trace of another request.                                         *)
PassMeansIsolated ==
  disk.result = "passed" =>
    /\ \A j \in Executions : \A n \in DOMAIN setting.plan[j] :
         \E i \in DOMAIN values : values[i].execution = j /\ values[i].request = n
    /\ dump = UNION {OwnSpans(values, i) : i \in DOMAIN values}

(* The coordinator reads the ledger without the mutex: unless a Hurl process *)
(* has failed already, no handler is under way then or later, so there is    *)
(* nothing to race with and the copy is final.                              *)
LedgerSettled ==
  phase \in {"drain", "dump", "judge", "files", "result"} /\ "hurl" \notin failures =>
    /\ arriving = {}
    /\ Open = {}
    /\ phase \in {"files", "result"} => values = ledger

(* No failure is lost between the workers and the result: one failed Hurl    *)
(* process, wherever it failed, keeps the driver from passing, whatever      *)
(* write fails, a result lies beside a complete capture and ledger, and a    *)
(* driver that passes has said so, whenever it may be killed.                *)
FailureIsKept ==
  /\ (\E j \in Executions : hurl[j] = "failed") =>
       exit # "passed" /\ disk.result # "passed"
  /\ disk.result # "none" => disk.capture /\ disk.ledger
  /\ exit = "passed" => disk.result = "passed"

(* The driver always ends, whether the application answers or exports.      *)
Decides == <>(phase = "exit")
=============================================================================
