# Verification of the telemetry conformance harness

The repository tests OpenTelemetry and Datadog instrumentation of web
applications.  A test starts an application, lets it export telemetry to a
*sink*, drives it with Hurl requests, waits until the telemetry has settled,
takes a dump, has a Scheme contract judge the dump, and leaves a *receipt* from
which a feature report is built.  This directory models the parts of that
system that hold a protocol or an algorithm — who keeps what, who waits for
whom, what is on disk when something fails, what a verdict is evidence of — and
checks them with TLC on small instances.  The safety of seven of the parts is
proved with TLAPS for every value of their parameters, and for two of them (the
sink and the solvers) that they implement an abstract specification.

Contents: [inventory](#1-inventory), [plan](#2-plan), [modules and the
code](#3-modules-and-the-code), [runs](#4-runs), [bounds](#5-bounds),
[fairness and deadlock](#6-fairness-and-deadlock), [proofs](#7-proofs),
[disagreements found](#8-disagreements-found), [what is not
modelled](#9-what-is-not-modelled).

## 1. Inventory

| part | source | state it keeps | operations | hard behaviour | correct when |
|---|---|---|---|---|---|
| sink server | `harness/otel_sink/{server,storage,stats,data}.rs` | per protocol: live records, frozen records, counters, overflow flag, validation counts, an output file | export, `/dump`, `/dump.scm`, three resets, `/validate`, `/stats` | quotas checked before and after decoding; partial resets; writes that fail half-way; two protocols in one handler | counters exact, quota held, order kept, losses visible, file is the capture, protocols apart |
| HTTP reading, decoders | `http.rs`, `otlp*.rs`, `proto.rs`, `datadog.rs` | none between requests; decoding budgets within one | parse, decode | budgets at their limit | a payload is decoded, refused for its size, or malformed |
| trace forest | `trace_forest.rs` | none | group spans, link parents | cycles, missing parents, depth | every span in one tree; cycles reported |
| Scheme evaluation | `scheme.rs`, `validation.rs` | none between requests | evaluate a contract over the judged records | — | a verdict and a list of proofs |
| Hurl test driver | `harness/hurl_test_driver.go` | where it is, last counts, two clocks, the dump, three files | startup drain and reset, workload, drain, dump, judge, receipt | exporters that are late, a sink that stops, polling with timeouts, two-file evidence, expected failures | a receipt says only what was established; always ends |
| parallel driver | `harness/parallel_scenarios.go` | jobs, executions, the proxy's ledger, failures | workers, proxy, drain, association of spans with requests | many workers and handlers, a client that gives up while its request is in flight | pass means every request answered and owned by one execution |
| external feature probe | `external_features/{main,probe_runtime,cases}.go` | the application's process, a port given back before it is bound, retained captures and logs, the result file | reset, start, workload, observe, stop, dump, retry, compare | foreign listeners, crashes, telemetry in flight, a burst of goroutines, evidence edited later | a capture shows this application's answers and telemetry; a rejection is genuine; what is shown follows from the evidence |
| external feature verdicts | `external_features/capture.go` | none | evaluate a changed capture against its control | matching records that have no identity of their own | a pass is evidence record by record; a setting obeyed is seen; one ignored never passes |
| receipts and report command | `report/report/receipt.go`, `report/cmd/main.go` | plans, shapes and artifacts read so far | read, collect from build events, accept or refuse, derive, write | outputs of other runs, attempts, trees or commits; lost outputs | what is shown as verified was verified, by this commit; nothing disappears |
| span alignment | `report/report/align.go` | tables of the solvers | choose alternatives, pair siblings, write rows | joint choices, ties, long lists, three algorithms | a best pairing; every span in one row |
| report model | `report/report/{scheme,profile,report,projections}.go` | none | compile claims, build shapes, derive coverage and checks | two derivations of one fact | they agree |
| native scenarios | `harness/native_scenarios.go` | a barrier | simultaneous requests | a participant that fails before the barrier | nobody waits for ever |
| OCI rootfs extraction | `oci_rootfs_extract.go` | a directory tree | apply layers | whiteouts, opaque directories, links out of order | the tree is the overlay of the layers |
| application launcher | `app_launcher.go` | a database file | seed once, rename | a crash between copy and rename | the database is absent or complete |
| report updater | `report/updater/main.go` | a pair of files | write both | a failure between the two | the pair agrees |
| rendering, registry, applications, corpus, build | `report/report/*`, `report/registry`, `fixtures`, `corpus`, `bazel`, `tools` | none of interest | pure transformation, configuration | — | — |

Interactions:

    application --exports--> sink <--GET /stats, /dump, POST /reset, /validate-- driver
         ^                    |                                               |
         |                    +--> output file                                +--> receipt, capture, shape files
         +--HTTP (directly, or through the ledger proxy)--- workload <--------+             |
                                                                                  build event file
                                                                                            |
                              profiles, shapes, manifest of the tree --> report command <---+

    application --exports--> sink <--POST /reset, GET /dump-- external feature probe
         ^--- starts, stops, asks on a port it owns or not ---------+--> captures, logs, result --> comparison

The application and the driver never talk about telemetry: all the driver knows
comes from `/stats` and `/dump`.  Exporters work on timers of their own, so a
batch may arrive at any moment of the driver's run, including between two of its
requests.  The report command knows of the drivers only what they left on disk.

The hazards that follow from this, each at its line and with the properties that
watch it, are listed in `PROJECT.json`.

## 2. Plan

In the order of the importance of what they decide; all of these exist.

1. `Capture` — what the sink promises about records, without HTTP, counters
   or disk; the abstract specification.
2. `Sink` — the server, shown to implement `Capture`; `SinkMC`, `SinkProofs`.
3. `ScenarioRun` — the Hurl driver composed with exporters and `Capture`;
   `ScenarioRunMC`, `ScenarioRunProofs`.
4. `ParallelRun` — the parallel driver: workers, ledger proxy, drain and dump,
   composed with the application under test and `Capture`; `ParallelRunMC`,
   `ParallelRunProofs`.
5. `ExternalProbe` — a run of the external feature probe, composed with the
   application's process, other fixtures and the sink; `ExternalProbeMC`,
   `ExternalProbeProofs`.
6. `Experiments` — the verdict on two captures; `ExperimentsMC`,
   `ExperimentsProofs`.
7. `Assignment` — the solvers that pair two lists, shown to implement the
   abstract `Pairing` (whose promise is stated in `BestMatching`);
   `AssignmentMC`, `AssignmentProofs`.
8. `ScenarioShape`, `Alignment` — shapes, and how two are laid side by side;
   `AlignmentMC`.
9. `ReportCommand` — from a test run to the report, composed with `Alignment` in
   `FeatureReport`; `ReportMC`, `ReportProofs`.

`Induction` holds the induction lemmas that the modules of proofs share.

What earlier versions of the plan also named and these modules do not cover is
listed with its reasons in [9](#9-what-is-not-modelled).

## 3. Modules and the code

### Capture and Sink

`Capture` has the acknowledged records (`kept`), whether a dump happened since
the last full reset (`taken`), and what the last dump showed (`snapshot`).  It
can acknowledge a record, freeze, discard some signals, or clear.

`Sink` is `serve` of `server.rs` with what it calls.  One thread accepts a
connection and answers it before the next one, so each request is one atomic
step; what interleaves is the order of requests of independent clients.

| variable | code |
|---|---|
| `live`, `frozen`, `taken` | the record `Vec`s, and the `Option` around the frozen ones |
| `counters`, `overflow` | `CaptureCounters` |
| `runs`, `failures` | `ValidationStats` |
| `file` | the output file of each protocol |
| `arrivals`, `refused`, `damaged`, `faults` | history: stamps, size refusals since the last reset, a failed file operation since the last rewrite |

| action | code |
|---|---|
| `IngestRefused`, `IngestStored`, `IngestUnwritten` | `ingest`: quota, decoding budget, decoded size; push, append, count; or push, failed append, pop, 500 |
| `ReadRefused` | a request refused while it is read; in stress mode it raises the Datadog flag whatever it was |
| `Dump`, `DumpScheme` | `freeze_records`, then the whole capture written (not for `.scm`) |
| `Reset` | the three reset paths: retain, recount, clear statistics, write |
| `Validate` | the counts of a validation |

An export is a record of sizes and of what the decoder says of it.  A `Vec` is
the set of its entries stamped with their order of arrival; `push`, `append` and
`retain` keep that order, and `ArrivalOrder` shows that the concatenation the
code makes is in that order.

The file is modelled by what can become of it: a complete array, one cut so that
the next append completes it (`open`), one that lacks only its last newline so
that the next append overwrites the wrong byte (`bare`), an empty file, the
single byte `[` on which the next append fails, or anything else.  These forms
come from where `append_record` seeks (two bytes before the end) and from the
order in which `persist_bytes` and it write.  `PersistFailures` and
`AppendFailures` are the forms an operation that fails at any byte can leave.

### ScenarioRun

The driver is a program counter (`phase`) with one action per request to the
sink, file write or decision between two of them.  Asking `/stats` and acting on
the answer are two steps, so that exports happen in between.

| action | code in `hurl_test_driver.go` |
|---|---|
| `AskStats`, `StartupPoll`, `Reset` | `resetStartupTelemetryAt` |
| `StartWorkload`, `EndWorkload` | the Hurl run |
| `AskStats`, `DrainPoll`, `DrainGivesUp`, `TakeDump` | `requireExportedTelemetry` |
| `CheckNames`, `Judge` | `validateTelemetryDump`: named signals, `/validate`, proofs equal to the plan |
| `EmitShape`, `WriteReceipt`, `WriteCapture` | `emitProfileShapeCandidate`, `emitReceipt` |
| `Classify` | `classifyOTLPValidation` and the end of `main` |
| `Export`, `SinkStops`, `Killed`, `Tick` | the environment: exporters, a sink that is gone, the test runner, time |

`options` holds the flags: validation or candidate mode, an expected failure,
and whether a revision is set (receipts are written).  A contract is the set of
captures it accepts with exactly the planned proofs; `Unplanned` are those it
accepts with other proofs, which the driver takes for an assertion failure
although the Scheme program was satisfied.  Without a revision `emitReceipt` ends
before it writes anything, and may fail there; the auxiliary `.wire.json` file
that goes with a receipt is not among the files of the model.  The sink is `Capture`,
instantiated with the driver's variables: what `Sink` was proved to implement.
Every request may fail; the reset and the dump may have been carried out although
they failed.  `quiet` and `elapsed` count ticks and stop where no comparison can
tell any more.

### ParallelRun

One parallel run from the startup reset to its evidence.  `ResetStartup` is the
reset's outcome: it may fail, and it erases what the health checks exported until
then, while a late batch of theirs arrives after it (its polling is that of
`ScenarioRun`).  The workers are interchangeable:
`running` is the set of executions they are at, never more than `Concurrency`.
A request is in up to three places at once, and that is what the module is
about: a Hurl process waits for it (`hurl[j]`), a handler of the proxy holds an
entry for it (`ledger[i]`), the application works on it (`app[i]`).  Hurl may
give up while the other two go on.

| action | code in `parallel_scenarios.go` |
|---|---|
| `TakeJob`, `Send`, `Finish`, `Fail` | a worker, its Hurl process, the list of failures |
| `Admit`, `Complete`, `Break` | the handler and `ModifyResponse`, each one critical section; an exchange that fails never completes its entry |
| `StartDrain`, `Poll`, `DeadlinePasses`, `DrainGivesUp`, `TakeDump` | `workers.Wait`, the drain loop, the dump |
| `Judge` | the copy of the ledger without the mutex, `validateStress`, `overlap` |
| `WriteFiles`, `WriteResult` | the evidence |
| `Serve`, `Respond`, `Export` | the application (external) |

The application may confuse contexts: a server span may continue the context of
a request served at the same time, or a query may hang below the server span of
one.  A span keeps the request it names by tag or SQL marker and the request
whose trace it is in; `validateStress` is translated to what it requires of
these two and of the ledger.  Random identifiers are new by assumption.  The
quiet period is abstracted to two polls that agree and the deadline to an event
that may come at any moment of the drain (`ScenarioRun` models such clocks); a
file is whole or not, which covers a driver killed while it writes, and the driver
may be killed between the passing result and its exit.  That the parent of a server
span is no span of the capture (`parallel_scenarios.go:217`) has no counterpart:
`Context` has no such parent to offer, and without the check the model passes no
less than the code.

### ExternalProbe

A run of the probe over one list of experiments: the baseline, then each
experiment after its control (`Collections`), each collection in up to
`MaxTries` attempts, each attempt with a new process on a port that was reserved
and given back.

| variable | code |
|---|---|
| `at`, `tries`, `pc` | the loops of `run` and `retryPortConflicts`, where `collectOnce` is |
| `child` | the application's process: not yet bound, listening (perhaps broken), exited, waited for |
| `reuse`, `foreign` | the other fixture on this port, and whether both set `SO_REUSEPORT` |
| `wire`, `sink` | whose telemetry is in flight and in the sink, this process's or an older one's |
| `answer`, `step`, `burst` | the readiness request, the sequential workload, the goroutines of `logBatchBurst` |
| `files`, `result` | retained captures and logs; `external-features.json` with its digests |
| `survivors` | processes an earlier attempt left: none, the rest of a process group whose leader ended by itself (`GroupStays`), or one that still runs |
| `strange`, `late`, `ended` | history |

| action | code |
|---|---|
| `Reset`, `Launch` (and their failures) | the sink reset, port, log file and process start of `collectOnce` |
| `SeeExit`, `Ask`, `ActOnAnswer`, `ReadinessTimesOut` | `waitReady`; the check of the port (`processTCPPortOwnership`) is a step after the answer |
| `CheckBefore`, `Request`, `RequestFails`, `CheckAfter` | the workload with `verifyOwnership` around every request |
| `StartBurst`, `Goroutine`, `BurstTick`, `BurstEnds`, `LastBurstCheck` | `logBatchBurst` |
| `ObservationTick`, `ExitDuringObservation`, `ObservationEnds` | the observation window, a `select` that may take any ready branch |
| `StopSeen`, `KillAfterGrace`, `KillFails`, `Cleanup` | SIGTERM, the grace period, a SIGKILL that is refused, the deferred SIGKILL |
| `Capture`, `CaptureFails`, `Retry`, `RecordRejection`, `Fatal`, `WriteResult` | what becomes of an attempt |
| `EditObservation`, `EditCapture`, `EditLog`, `Compare` | later: people and caches change retained files; `verifyResult` decides whether the comparison is shown |
| `ChildBinds`, …, `ForeignBinds`, …, `Export`, `SinkStores`, `Wait` | the application, the other fixture, exports in flight, `cmd.Wait` |

A capture is what the run looks at: whether it has spans and whether the effect
is there; how the effect is recognised is the next module.  A reviewed result is a
status for each experiment (`Golden`), for the same set of experiments; the rest of
a signature is left out.  The deferred SIGKILL is taken to succeed: an application
that no signal ends would hold up the code's `<-done` for ever.

### Experiments

`evaluate` with what it calls.  A behaviour starts with a baseline capture and
with what an SDK that obeys the setting, or ignores it, exports for the same
workload; defects (`Lose`, `Repeat`, `LoseAttribute`, `Damage`, `Miscount`,
`LoseEvent`, `ForgetLostEvents`, `Move`, `Misattribute`, `Batch`, `Disown`,
`ChangeExemplars`, `Miscollect`) change the second capture one step at a time.
`Verdict` is the code's: `Exercised` (the baseline lets the setting act),
`SpansKept`, `LogsKept`, `MetricsKept` (identities counted per capture and per
partition into traces), `Retained`, `LogsLimited`, `SpansLimited`,
`EventsLimited` (records over a limit, matched greedily as the code does),
`Effective` (the switch over the cases).  `PassIsEvidence` states what a pass
should mean without any of this: a one-to-one correspondence of records, each
exactly as the setting leaves it.

`Obeying`, the SDK that follows the specification, is external; its shape is
taken from what the cases of `cases.go` expect.  `Captures` are all the captures
there are, with any number of records of the kinds of `capture.go`; the baselines
are some of them.  A record keeps what the verdict depends on: its name stands
for name, kind, flags, status, links, scope and times, an attribute value for its
length.  The cases `sampler` and `sampler-arg` share a verdict and differ in their
control only, which is `ExternalProbe`'s concern: here they are one case.

### BestMatching, Pairing and Assignment

`BestMatching` defines the best pairings of two lists: of those that pair as many
compatible entries as possible, the ones with the highest total.  `Pairing` is
the abstract specification: a problem is given, one of its best pairings is
returned.  `Assignment` is the two solvers of `align.go` as transition systems:

| action | code in `align.go` |
|---|---|
| `NothingToPair`, `BeginSquare`, `BeginRow`, `Scan`, `Flip`, `EndSquare` | `maximumWeightMaximumCardinalityPairs` and `maximumWeightAssignment` (Hungarian, potentials, padded to a square) |
| `BeginLinear`, `Layers`, `NextRoot`, `TryRight`, `DeadEnd` | `linearMemoryMaximumCardinalityPairsWithSeed` (Hopcroft-Karp); `augment`'s recursion is the explicit stack `path` |
| `NothingToImprove`, `BeginAuction`, `Bid`, `EndAuction` | `improveMatchingScores` |

### ScenarioShape, Alignment and FeatureReport

`ScenarioShape` is what `ParseScenarioShape` makes of the authored forms, with
counts and totals.  `Alignment` is the rest of `align.go`: normalised names, the
three keys, the resolution of a group into candidates, the scores (full, shallow
beyond the limits), the joint choice of alternatives, the rows, and the traces.
A string is a number and a key a sequence of numbers; a call of a solver is one
of the best pairings, which is what `Assignment` was shown to return.  The order of
keys is that of these numbers and not of the bytes of the rendered text, and beyond
the limits ties between equally good pairings are broken by scores only: both decide
which of several best pairings is shown, of which no property speaks.
`FeatureReport` states what the rows promise, from definitions that do not use
the code's: `Readings` are all the trees a group may stand for, `BestWorth`
tries every choice of alternatives on both sides at every depth.

### ReportCommand

From `bazel test` to the written report.

| variable | code |
|---|---|
| `revision`, `tree` | the commit; claims and shapes as checked out |
| `disk`, `invocation` | the outputs of each attempt of a test; the build event file |
| `ledger`, `clock` | history: every judgement of a scenario, with its time |
| `command` | what the report command has read |
| `report` | what it has written |

| action | code |
|---|---|
| `StartTests`, `RunTest`, `SkipTest`, `ReuseTest`, `RunAside` | the test runner: attempts of a flaky test, a cached result, another invocation (external); what an attempt leaves is `emitReceipt` |
| `Edit`, `Lose` | a commit or an edit; an output that cannot be read |
| `LoadReportManifest` | `main`, `loadReportManifest`, `loadAtomicProfile`: plans and shapes of the tree, and the revision, which `assemble_otel_report.sh` passes by itself and which may name an earlier commit |
| `CollectBEP`, `CannotCollect` | `collectBEP`, `addArtifact`; a cached test run and a duplicate are refused, an output that cannot be opened is passed over, one that opens and cannot be read through ends the command |
| `Accept`, `Refuse` | `validateUnavailableProfiles`, `ValidateReceiptSetForProfiles` |
| `Write`, `CannotBuild` | `CoveragesFromPlansForProfiles`, `BuildModelForProfiles`, `AddReportProjections`, `CompareShapes` |

The digest of a text is the text.  A capture is known by scenario and time of the
attempt that judged it.  The comparison of two shapes is the constant operator
`CompareShapes`, which the configuration sets to `Compare` of `Alignment`: TLC
expands the operators of a next-state relation to attribute costs to them, and
the recursion of the alignment is too deep for that when it is called directly.

## 4. Runs

| run | module | what it asks |
|---|---|---|
| `sink_quota` | `SinkMC` | every interleaving of exports (small, large, undecodable, over a budget), dumps, partial and full resets and validations on a healthy disk: `CountersExact`, `WithinQuota`, `ArrivalOrder`, `LossIsVisible` |
| `sink_storage` | `SinkMC` | stress mode and up to two failing file operations: `DamageWasReported`, `LossIsVisible`, `OneProtocolPerRequest`, and `KeepsPromise` (the server implements `Capture`) |
| `sink_stress` | `SinkMC` | violated: `IndependentCounters`, see [8](#8-disagreements-found) |
| `sink_disk` | `SinkMC` | violated: `CompleteArrayOnDisk` |
| `scenario` | `ScenarioRunMC` | one scenario under all flags, judged by a contract that may accept with other proofs than planned, against late exports, lost requests, a stopping sink, failing writes and a kill: `ReceiptTellsTruth`, `EvidenceAgrees`, `StartupErased`, `SettledIsDumped`, and `Decides` (it always ends) |
| `scenario_xfail` | `ScenarioRunMC` | violated: `XFailIsRejection` |
| `parallel` | `ParallelRunMC` | two workers against requests given up in flight, confused contexts or parents, late exports, those of the startup among them, a full ledger, a full sink, failing writes and a kill: a pass means that the evidence is exactly what the requests caused (`PassMeansIsolated`), the unlocked read of the ledger races with nothing unless Hurl failed (`LedgerSettled`), no failure is lost (`FailureIsKept`), and the driver ends (`Decides`) |
| `external_probe` | `ExternalProbeMC` | a run of the probe against another fixture on its port, applications that crash, hang, ignore SIGTERM or export late, retries, and evidence edited afterwards: answers and telemetry of a capture are this application's (`OwnAnswers`, `OnlyOwnTelemetry`), a recorded rejection is one (`RejectionIsGenuine`), the comparison shows what the evidence implies (`ShownIsImplied`) and does show an unedited run (`HonestIsShown`), and the run ends (`Ends`) |
| `experiments` | `ExperimentsMC` | the verdict of all the cases against SDKs that obey or ignore the setting, with up to two defects: obeying is seen (`ObedienceIsSeen`), ignoring never passes (`DisregardIsSeen`), and a pass means a correspondence record by record (`PassIsEvidence`) |
| `assignment` | `AssignmentMC` | both solvers on every score table of small lists: no entry is paired twice at any point (`NoEntryTwice`), the potentials bound the scores (`PotentialsBound`), no bidder regrets its price (`NoRegret`), and a best pairing is returned (`ReturnsBestPairing`, the refinement of `Pairing`) |
| `report` | `ReportMC` | flaky, cached and lost test runs, edits and commits up to a budget, then the report, on pairs of shapes on both sides of the size limits: `VerifiedIsEarned`, `NothingIsLost`, `ViewsAgree`, `EachSpanOnce`, `Coordinated` (a better joint choice of alternatives does not exist) |
| `alignment_order` | `AlignmentMC` | violated: `SiblingOrderIsImmaterial` |

Each property of a passing run has a mutant in `PROJECT.json`: a change of one
definition of the kind a mistake in the code would be (a flag not raised, the
live records copied instead of moved, a second loop that goes on with the first
one's counts, a check made before the answer instead of after it, controls left
out of a verification) under which that property is violated.  The mutated
operators stand before the definition they would replace, marked `Mutant of`; no
specification uses them.

## 5. Bounds

`MaxArrivals` (acknowledged exports), `MaxRuns` (validations between two
resets) and `MaxFaults` (failed file operations) bound the sink's behaviours;
they appear in guards and nowhere else.  Four arrivals against a quota of three
records and seven bytes fill the capture, empty part of it and fill it again; two
arrivals and two faults are enough for every form of the file to be reached and
appended to.  The quotas themselves are parameters of the code, made small.

In `ScenarioRunMC` there are three batches of the startup, one of them possibly
late, and three of the workload; the quiet period is two ticks and the timeouts
two and three, so that quiescence, a restart of the quiet period and a timeout
all happen, in both loops.  The record quota of five can fill up.  Both clocks
saturate one past their deadline, which the comparisons cannot tell from later.
One capture the contract accepts with other proofs than planned (`FirstTraceOnly`).
804,016 states.

`ParallelRunMC` has five settings: two requests whose contexts may be swapped,
two requests whose queries may swap parents (the smallest case in which the
counts still balance), a plain request that may be given a context, an execution
of two requests, and a ledger and a sink of one entry each.  Two workers are
enough because every confusion and every race of the code is between two
requests.  The startup exports one span, in the first setting two, so that one can
be late.  2,959,924 states.

`ExternalProbeMC` has a suite of one experiment for each way a collection can
end: one with a control and a burst, one whose setting is rejected at startup,
one whose workload is rejected.  `Requests` and `Burst` are 2 (several requests,
of which any may meet the stranger), `MaxTries` is 2 (a retry after which the
old process, its telemetry and the stranger may still be there), `MaxEdits` is 1
(any one retained file lost or changed).  With the baseline this is three
collections at most; 2,015,277 states.

`ExperimentsMC` takes all eighteen cases with three baselines (all signals with
nested and unsampled traces, no spans, spans only), two probes where the code
sends four, a `Limit` of 8 so that values lie on both sides of it, and two
defects: one defect can be seen by a count alone, two can compensate each other
in it.  318,612 states.

`AssignmentMC` takes every score table of 2 by 2 entries over {-1, 0, 2} and
"incompatible", 3 by 2 and 2 by 3 over {0, 2}, and 3 by 3 with equal scores,
through both solvers, the second with seeds (all of them for 2 by 2); three
entries are the least on which an augmenting path of two exchanges exists.
`Infinity` is larger than any weight the padding makes of these scores
(`InfinityAssumption`), as a quarter of the largest `int` is in the code.

`ReportMC` allows two disturbances (an edit, a lost output, a run aside, a
second attempt), because one alone is refused or harmless in most orders and two
of them can hide each other; `MaxAttempts` is 2.  Its twelve shapes make 78
pairs, each in a tree of its own that nothing disturbs.  The limits of 128 children and 16 nested alternatives are 4 and 3, so
that lists lie on both sides of them.  `AlignmentMC` keeps 128 and 16.

## 6. Fairness and deadlock

`Sink` is checked for safety only: it answers requests and promises nothing by
itself.  `ScenarioRun` assumes weak fairness of the driver (a Go process that is
not blocked runs; every request it makes has a client timeout, so each request
ends with an answer or an error) and of time.  Nothing is assumed of exporters,
of the sink, or of the test runner: `Decides` holds although none of them ever
acts.  `ParallelRun` assumes the same of its workers and coordinator, where a
worker waits for a Hurl process that gives up by its own request timeout, and of
the deadline of the drain; the proxy, the application and its exporter owe
nothing.

`ExternalProbe` assumes weak fairness of the probe's own steps and strong
fairness of `ReadinessTimesOut`: that deadline is on the clock, but in the model
it is not enabled while an answer is being looked at, however often the probe
asks.  A refused SIGKILL (`KillFails`) is outside the fairness: that the run ends
must not depend on it.  Nothing is assumed of the application, of the other fixture, of exports or of
the people who edit files.  `Assignment` assumes that a call that can go on goes on
(`WF_vars(Next)`), which the refinement of `Pairing` needs to say that it
returns.  `Experiments` and `ReportCommand` are checked for safety only.

Deadlock is checked in the runs of the sink and of the solvers, which can always
do something (a solver that has returned stutters).  It is not checked where a
program ends and nothing is left to happen: the two drivers, the probe, the
report command, and a capture that has had all its defects.

## 7. Proofs

Each module of proofs needs only the assumptions on the constants of the module it
is about.  They are evaluated by TLC on the instances of the runs, and all but two
only say what kind of values the constants are:

* `ProbeAssumption` also says what `cases.go` says of its table of experiments
  (`cases.go:6-12` and the entries below): each occurs once, no two have the same
  control, and neither an experiment nor a control is called `baseline`, nor an
  experiment as a control is.
* `InfinityAssumption` says that the initial minimum of the Hungarian solver is
  larger than the weights of a problem can become, which the limit of 128 siblings
  guarantees in the code.

`Induction` proves what the library states only with an operator as a parameter,
as facts about sets: a set with 0 and the successor of each of its members holds
every natural number; a family with the empty set that is closed under adding a
member holds every finite set.  From these follow the unfolding of `FlattenSeq`
and whatever else goes by the length of a list.

`SinkProofs` (from `SinkAssumption`):

| theorem | statement |
|---|---|
| `TypeCorrect` | `Spec => []TypeOK` |
| `StatsAreExact` | `Spec => []CountersExact` |
| `QuotaHolds` | `Spec => []WithinQuota` |
| `OrderHolds` | `Spec => []ArrivalOrder` |
| `DamageIsReported` | `Spec => []DamageWasReported` |
| `LossStaysVisible` | `Spec => []LossIsVisible` |
| `OneProtocol` | `Spec => OneProtocolPerRequest` |
| `ImplementsCapture` | `Spec => KeepsPromise` |

The inductive invariant is `CaptureInv`: types, the records of each protocol are
finitely many with finitely many charged bytes and spans (without it
`Cardinality` means nothing), `ArrivalOrder`, `CountersExact`, and the counters
within the quota.  None of the parts is inductive alone: that an export adds
exactly one to the record count needs its stamp to be new, which is
`ArrivalOrder`; that the quota survives a store needs the counter the code
compares to be the real total, which is `CountersExact`.  The counting lemmas
(`UnitsOfOne`, `RetainedAdd`, `SpansAdd`, `TallyAdd`) say that charging one more
record adds exactly its charge.  `LossIsVisible` and `DamageWasReported` have
short invariants of their own over the flags.  `ImplementsCapture` maps `kept` to
`frozen` and `live` together and shows that each request is a step of `Capture`
or leaves it unchanged; its one subtle case is the stamp of an acknowledged
export, which must belong to the abstract set of entries (`ArrivalsBounded`) and
be new (`ArrivalOrder`).

`ScenarioRunProofs` (from `ScenarioAssumption`): `TypeCorrect`,
`StartupIsErased`, `WhatSettledIsDumped`, `ReceiptsTellTheTruth`,
`EvidenceOfOneDump`.  The truth of a receipt depends on what was judged being
what the sink's dump showed, that on nothing having been erased since the drain
ended, and that on the driver's place in its program.  So the inductive invariant
goes by phase: what is in an exporter's hands and what is in the sink are apart
(`Apart`), the second drain's last observation is still in the sink (`Watches`),
no file exists before it is written (`Unwritten`), and each file and verdict, from
the phase that makes it, agrees with the dump (`Written`, `Honest`, `Ended`).

`ParallelRunProofs` (from `ParallelAssumption`): `TypeCorrect`,
`PassesAreIsolated`, `LedgerIsSettled`, `FailuresAreKept`.  The invariant is about
where a request is: `Linked` ties the position of a Hurl process to the handlers
and ledger entries of its requests, unless it failed; `Sized` keeps the ledger,
the application's books and the plan in step; `Traced` says that every span, in
flight, stored or dumped, is of a request in the ledger or of the startup, and each
query makes one span; `Established` says what each phase of the coordinator has made certain.
The argument of `PassesAreIsolated` is a count: `validateStress` finds one server
span and the expected number of queries per entry, and accepts no span of anything
but an entry.  A late span of the startup is of no entry (its request is 0), so a
dump that holds one does not pass.

`ExternalProbeProofs` (from `ProbeAssumption`): `TypesAreKept` (`TypeOK`),
`AnswersAreOwn`, `TelemetryIsOwn`, `RejectionsAreGenuine` (`RejectionIsGenuine`),
`WhatIsShownIsImplied`, `HonestRunIsShown` (`HonestIsShown`).  The invariant says
that an application's process lives no longer than the attempt that started it
(`Contained`), so that what is in flight from an older process was exported before
this attempt's reset, unless the rest of its process group was left and was there at
that reset; that a stranger who has answered is still listening and the next check of
the port is still to come (`Unnoticed`); and that what is shown passed
`verifyResult` on files that are not edited any more (`Verified`).  The rest is
about the order of the collections: those before the present one are each retained
in one of two ways, as captured or as rejected with the log that shows it, and
those after it not at all.  For that a collection must occur once, which is an
induction over the list of experiments (`Part`), since `Collections` joins the
pieces with `FlattenSeq`.

`AssignmentProofs` (from `ProblemsAssumption` and `InfinityAssumption`), for every
problem, seed and both solvers:

| theorem | statement |
|---|---|
| `TypeCorrect` | `Spec => []TypeOK` |
| `Pairs` | `Spec => []NoEntryTwice` |
| `Contentment` | `Spec => []NoRegret` |
| `Potentials` | `Spec => []PotentialsBound` |
| `PromiseIsKept` | `Spec` implies the initial condition and every step of `Pairing` |

That no entry is paired twice is not inductive while an augmenting path is being
turned: the two directions of the matching disagree along it.  `PathAgrees` says
where they may, `StackAgrees` the same of the bidders without an item.

`Potentials` is about the Hungarian solver between two rows.  Within a row the
invariant `SquareInv` says that the scanned columns are a tree of tight edges that
leads back to the new row, that the minimum kept for each other column is its
least slack over the tree, and that the potentials stay between zero and the
heaviest weight in absolute value; from this, that no minimum is ever the initial
`Infinity`.

`PromiseIsKept` shows that what is returned is one of the best pairings: no
compatible pairing has more pairs, and none with as many has a higher total.  For
short lists the potentials are the certificate: their sum bounds the weight of every
assignment and equals that of the solver's, and the bonus that the padding gives to
a compatible pair outweighs all scores together, so that the heaviest assignment is
a largest matching first.  For long lists, layers that can be extended no more
separate the two sides of a largest matching; and the prices of the auction, with
`NoRegret`, bound the total of every other pairing from above up to one epsilon per
bidder, which together are less than one step of the scaled scores.  The sums are
over lists of any length, so these are inductions too.  What `ReturnsBestPairing`
says beyond this is that the call returns, which TLC checks.

`ExperimentsProofs` (from `ExperimentsAssumption`), for every set of baselines,
each with any number of spans, events, logs and points:

| theorem | statement |
|---|---|
| `TypeCorrect` | `Spec => []TypeOK` |
| `DisregardNeverPasses` | `Spec => [](Telling => DisregardIsSeen)` |
| `ObedienceAlwaysPasses` | `Spec => [](Ordinary(baseline) /\ case \in Settled => ObedienceIsSeen)` |
| `NewTracesPass` | `Spec => [](Extractable(baseline) /\ Probes <= 200 /\ case = "propagation-none" => ObedienceIsSeen)` |
| `PassesAreEvidence` | `Spec => [](Distinguished(baseline) /\ case \notin CountCases => PassIsEvidence)` |

For all but the last the invariant is small (the capture is the SDK's until the
first defect); the work is in the verdict.  `Telling` is needed because a baseline can look like the effect:
an SDK that names its service `unknown` without the setting passes the experiment
on the default service.  The probe sets a service name and captures no headers
(`experimentEnvironment`), so the baselines it collects are telling.  For each
experiment a lemma then finds what the baseline, being exercised, cannot have.

`Ordinary` is what the probe's own workload gives: if there are spans at all, each
tagged request has one in its trace and no other trace of a request exists; metric
points are not repeated, histograms are explicit and not empty.  Without the spans
of the requests several experiments report a gap whatever the SDK does, which is
what the code means them to do.  The argument has two halves.  Nothing is missing
(`ObeyedIsKept`, from `ObeyedSpans`, `ObeyedLogs`, `ObeyedPoints`): what a
setting changes is exactly what the identity of its experiment leaves out, so the
identities, relationships, occurrences and partitions of the two captures agree
(`Alike`).  And the effect is seen (the lemmas `Seen...`): for the length limits
this needs that ordinals agree between the two captures, also through the
concatenation of the events of all spans (`FlattenAlike`).  `Settled` leaves out
the three count limits, which are matched greedily and stay with TLC, and disabled
propagation, which has its own theorem because the traces differ: in `NewTracesPass`
the captures agree up to the injective renaming of traces (`FreshKeepsApart`), so
the counts of the partitions are those of a permuted function (`RenamedCounts`,
`ExtractedPartitions`), parents and logs are found where they were
(`ExtractedRelationship`, `ExtractedLogs`), and the requests that are new roots are
exactly those whose parents the code does not compare.  `Extractable` asks that the
requests with the remote parent send the probe's user agent, that no span has that
parent's identifier, and that no trace of the baseline is one of the new ones; the
bound on `Probes` (4 in the code) only keeps the model's names of the new traces,
`200 + trace`, off those of the probe.

`PassesAreEvidence` is about any number of defects.  Its invariant is `Remaining`:
whatever was lost, repeated, damaged or moved, the changed capture is made of
records that stand for records of the baseline (`CapturesOf`: a span has the name
and kind of a span there, the identifier of one and the trace of one, renamed if
its context was not extracted; a child of the remote parent was one before).
Every action of `Next` is shown to keep it (`DefectsLeaveRemains`).  From it and
the verdict of one state the correspondence is built: equal counts of identities
give a bijection (`EqualCounts`), which pairs the spans (`SpansArePaired`); what
two paired spans have in common (`Corresponding`) is what `SpanOutcome` asks
(`CorrespondingOutcome`, with `LimitsHold` for the length limits, `EventsAreLost`
for suppressed events and `PropagationShows` for the traces that are new); parents
correspond (`ParentCorresponds`), the spans of logs too (`CorrelationFollows`), and
the points by their identities, series and exemplars (`PointOutcomeFollows`,
`ConvertedPoints`, `SampledPoints`).

`Distinguished` says of the baseline that the comparison can tell its records
apart, and each of its conditions is a blind spot of `evaluate`:

* every span is in the trace of a tagged request, because others are not compared;
* a parent is compared by its name and resource, so the spans of one name are of
  one kind, and those with children or logs are alike;
* no span has the identifier of the probe's remote parent, and only the tagged
  requests continue it, so a parent that was lost or exchanged shows;
* a tagged request sends the whole user agent, by a prefix of which its span is
  recognised, and its captured header is not there yet;
* under suppressed events the number of lost events is compared by ordinals among
  the spans of one name, attributes and resource, so spans of one name lose equally many;
* a log has both identifiers of a span or neither; a point that comes and goes is
  a sum; histograms are explicit and not empty; where exemplars are gained, one
  export carries every series once, because a later point may lack its exemplar.

All three baselines of `ExperimentsMC` are telling, ordinary, extractable and
distinguished, for each of the eighteen experiments.

`ReportProofs` (from `TestsAssumption`): `Earned` (`VerifiedIsEarned`),
`Consistent` (`ViewsAgree`), `Complete` (`NothingIsLost`).  The property of the
report depends on the outputs that were read, which depend on the runs that left
them; the invariant carries this across edits, attempts, cached runs and lost
files: every output on disk and every output read was left by a run that judged
its scenario, no older than the test run whose events list it
(`DiskIsTraceable`, `CommandIsTraceable`), what was accepted was acceptable
(`AcceptedIsAcceptable`) and the report is what is derived from it
(`ReportIsDerived`).

Only model-checked:

* `PassIsEvidence` and `ObedienceIsSeen` for the three count limits, whose greedy
  matching (`AllTaken`) is an induction over the records taken so far, of a list
  selected by `SelectSeq`.
* `EachSpanOnce`, `Coordinated`, `SiblingOrderIsImmaterial`: shapes are trees and
  the operators on them are `RECURSIVE`, which the prover does not take.
* Liveness, which the prover does not take: `Decides` of both drivers, `Ends`, and
  that a solver returns (the other half of `ReturnsBestPairing`).

## 8. Disagreements found

* `sink_stress`: in `--stress-capture` mode a request refused while it is read
  raises the Datadog overflow flag, before its protocol is known
  (`server.rs:111`), although the harness README says that each protocol has
  independent counters.
* `sink_disk`: `append_record` never repairs what an earlier failed write left
  (`storage.rs:63`); exports are then acknowledged over a file that is not the
  complete JSON array its comment promises, until the next dump or reset.  The
  failed request itself is answered 500, which is what `DamageWasReported` says.
* `scenario_xfail`: a dump that lacks a named signal, and a proof set that
  differs from the plan, are accepted as an expected failure
  (`hurl_test_driver.go:603`), although the harness README says that only a
  Scheme contract rejection is.
* `alignment_order`: two siblings may have equal keys although what they render
  differs, because `canonicalAlignmentSpanKey` (`align.go:236-251`) keeps only
  one candidate of each child group and nests keys with one separator; the
  comment at `align.go:603-605` says that retaining their order cannot change the
  report, and the run shows that it does.

Seen while modelling, and not runs of their own:

* `EXTERNAL_FEATURES.md:129-131` says that missing baseline histograms make an
  experiment `not_exercised`; when there are none and another signal is not
  preserved the verdict is `gap` (`capture.go:726-728`).
* The attribute length and count experiments report a gap for an SDK that obeys
  and exports logs only; `ObedienceIsSeen` excludes that baseline.
* The records of a capture have no identity, so the verdict matches them by
  ordinal and greedily: the same telemetry in another order may be reported as a
  gap, and spans exchanged between traces of equal size may pass.
* In the report, a span's scope is among its differences but not in its score;
  traces are solved in authored order although a comment near `align.go:1244`
  says otherwise; `addArtifact` takes any output of the right name for a receipt;
  a test that fails after its receipt was written still supplies a verified one;
  a profile declared unavailable whose outputs cannot be read is shown as not
  exercised although the comment at `report/cmd/main.go:304-306` says otherwise;
  the driver writes Datadog fields that `DecodeReceipt` refuses
  (`receipt.go:46`).

## 9. What is not modelled

* The bytes: HTTP parsing, protobuf, JSON and MessagePack decoding, the Scheme
  interpreter, the projection of telemetry into it and the parsing of Scheme
  text are stateless and beyond a model checker; they appear as verdicts, sizes
  and shapes.  The durations in `/stats`, logging and the console report are left
  out because no property is about them.
* The trace forest (`trace_forest.rs`): a pure function of one request.  Its
  results are read by contracts, which appear as the captures they accept.
* `stressIndex` of the parallel driver: it reconstructs trace identities from
  chunks; a span of the model has its trace.
* Native scenarios: sequential expectations with one barrier; the concurrent
  requests that matter are those of `ParallelRun`.
* The OCI rootfs extraction, the application launcher and the validators: one
  process over a file system; what can go wrong is in paths, links and headers.
* The report's display of captures (`report/report/capture.go`), the matrix, its
  links and version labels, and the template: transformations of what
  `ReportCommand` and `Alignment` derive.
* The report updater, the generators and the file server: each reads its inputs,
  replaces its outputs and exits.
* The sink's integration test (`otel_sink_probe.go`) and the laboratory probe
  (`telemetry_lab_probe.go`): sequential tests, of what `Sink` models and of a
  demonstration service.
* Fixture applications, the contract corpus, build rules and CI: data and
  configuration; of the applications only what they export and answer matters,
  as an external actor.

`PROJECT.json` lists each part with its reason.
