----------------------------- MODULE ScenarioRun -----------------------------
(***************************************************************************)
(* One scenario of the Hurl test driver (harness/hurl_test_driver.go),       *)
(* composed with the application's exporters and the sink's capture.         *)
(*                                                                         *)
(* The driver waits until the telemetry of the application's startup has    *)
(* settled, erases it, runs the workload, waits again, takes the dump, has   *)
(* it judged, and leaves a receipt.  Meanwhile the exporters deliver their  *)
(* batches whenever they like, the sink may stop, and every request of the  *)
(* driver may fail.  Asking for /stats and acting on the answer are two     *)
(* steps; time only passes in ticks, and the driver compares durations.     *)
(***************************************************************************)
EXTENDS Integers, FiniteSets

CONSTANTS
  Family,         \* the protocol of the profile
  Signals,        \* the signals the profile requires
  Startup,        \* batches the application exports by itself
  Work,           \* batches the workload makes it export
  Contract,       \* captures the program accepts, with exactly the planned proofs
  Unplanned,      \* captures the program accepts, with other proofs than planned
  MaxRecords,     \* the record quota of the sink
  Quiet,          \* ticks without a new trace that count as quiescence
  StartupTimeout, \* ticks until the startup drain gives up
  DrainTimeout    \* ticks until the drain after the workload gives up

Batch ==
  [id : Nat, signal : {"traces", "metrics", "logs"}, spans : Nat,
   named : BOOLEAN]

Batches == Startup \cup Work

ASSUME ScenarioAssumption ==
  /\ Batches \subseteq Batch
  /\ IsFiniteSet(Batches)
  /\ Startup \cap Work = {}
  /\ "traces" \in Signals
  /\ Signals \subseteq {"traces", "metrics", "logs"}
  /\ Contract \subseteq SUBSET Batches
  /\ Unplanned \subseteq SUBSET Batches \ Contract
  /\ MaxRecords \in Nat
  /\ Quiet \in Nat \ {0}
  /\ StartupTimeout \in Nat
  /\ DrainTimeout \in Nat

VARIABLES
  outbox,    \* batches the exporters hold
  kept,      \* the sink's capture, see Capture.tla
  taken,
  snapshot,
  up,        \* the sink answers
  options,   \* the flags of this run: mode, xfail, and TELEMETRY_TEST_REVISION
  phase,     \* where the driver is
  reply,     \* the answer to /stats the driver has not acted on yet
  last,      \* lastTraceRequests and lastTraceSpans
  quiet,     \* ticks since stableSince
  elapsed,   \* ticks since the polling loop began
  dump,      \* contents: what GET /dump answered
  verdict,   \* the result of requireExportedTelemetry
  disk,      \* the receipt, capture and shape files of the scenario
  exit,      \* how the driver process ended
  erased,    \* history: what the sink held when the startup reset came
  settled,   \* history: what the /stats that set stableSince had counted
  scheme     \* history: what POST /validate said

sink == <<kept, taken, snapshot>>
loop == <<reply, last, quiet, elapsed, settled>>
vars == <<outbox, kept, taken, snapshot, up, options, phase, reply, last, quiet,
          elapsed, dump, verdict, disk, exit, erased, settled, scheme>>

OfSignals(S, signals) == {b \in S : b.signal \in signals}

(* Mutant of ResetSignals: POST /reset *)
ResetEverything == {"traces", "metrics", "logs"}

(* POST /reset/traces-and-metrics *)
ResetSignals == {"traces", "metrics"}

Sink ==
  INSTANCE Capture WITH
    Protocols <- {Family}, Entries <- Batches,
    Discards <- {OfSignals(Batches, {"traces", "metrics"})}

-----------------------------------------------------------------------------
(* What the driver reads from /stats *)

SpanUnits(S) == UNION {{b} \X (1 .. b.spans) : b \in OfSignals(S, {"traces"})}

Counts(S) ==
  [requests |-> Cardinality(OfSignals(S, {"traces"})),
   spans |-> Cardinality(SpanUnits(S))]

NoCounts == [requests |-> -1, spans |-> -1]

NoReply == [status |-> "none", counted |-> {}]
LostReply == [status |-> "lost", counted |-> {}]
Stats(S) == [status |-> "stats", counted |-> S]

(* The signals that must have arrived before quiescence is considered. *)
Arrived(S) ==
  /\ Counts(S).spans > 0
  /\ \A signal \in Signals \cap {"metrics", "logs"} : OfSignals(S, {signal}) # {}

(* Every required signal has a record that names its service; a Datadog      *)
(* trace needs no name.                                                     *)
NamesEverySignal(S) ==
  \A signal \in Signals :
    \E b \in OfSignals(S, {signal}) :
      b.named \/ (Family = "datadog" /\ signal = "traces")

-----------------------------------------------------------------------------
Absent == [form |-> "absent", outcome |-> "none", capture |-> {}]
Torn == [form |-> "torn", outcome |-> "none", capture |-> {}]
Whole(outcome, S) == [form |-> "whole", outcome |-> outcome, capture |-> S]

Init ==
  /\ outbox = Startup
  /\ Sink!Init
  /\ up = TRUE
  /\ options \in [mode : {"validate", "candidate"}, xfail : BOOLEAN,
                  revision : BOOLEAN]
  /\ phase = "startup"
  /\ reply = NoReply
  /\ last = NoCounts
  /\ quiet = 0
  /\ elapsed = 0
  /\ dump = {}
  /\ verdict = "none"
  /\ disk = [receipt |-> Absent, capture |-> Absent, shape |-> Absent]
  /\ exit = "running"
  /\ erased = {}
  /\ settled = {}
  /\ scheme = "none"

-----------------------------------------------------------------------------
(* The application and the sink *)

driver == <<options, phase, dump, verdict, disk, exit, erased, scheme>>

(* An exporter delivers a batch: stored, or refused by a full capture, or    *)
(* given up because the sink is gone.                                       *)
Export(b) ==
  /\ b \in outbox
  /\ outbox' = outbox \ {b}
  /\ IF up /\ Cardinality(kept[Family]) < MaxRecords
       THEN Sink!Acknowledge(Family, b)
       ELSE UNCHANGED sink
  /\ UNCHANGED <<up, driver, loop>>

SinkStops ==
  /\ up
  /\ up' = FALSE
  /\ UNCHANGED <<outbox, sink, driver, loop>>

Least(m, n) == IF m < n THEN m ELSE n

(* Time passes: both clocks stop where no comparison can tell any more. *)
Tick ==
  /\ phase \in {"startup", "drain"}
  /\ quiet' = Least(quiet + 1, Quiet)
  /\ elapsed' = Least(elapsed + 1, 1 + IF phase = "startup" THEN StartupTimeout
                                                           ELSE DrainTimeout)
  /\ UNCHANGED <<outbox, sink, up, driver, reply, last, settled>>

-----------------------------------------------------------------------------
(* The two drains: resetStartupTelemetryAt and requireExportedTelemetry *)

environment == <<outbox, sink, up>>

Ends(how) == phase' = "exit" /\ exit' = how

(* requireExportedTelemetry returns; main classifies the result next. *)
Concludes(result) ==
  /\ verdict' = result
  /\ phase' = "classify"
  /\ UNCHANGED exit

(* GET /stats is answered, or times out, or finds no sink.  The drain after  *)
(* the workload sends no request once its deadline has passed.              *)
AskStats ==
  /\ phase \in {"startup", "drain"}
  /\ reply = NoReply
  /\ phase = "drain" => elapsed < DrainTimeout
  /\ \/ up /\ reply' = Stats(kept[Family])
     \/ reply' = LostReply
  /\ UNCHANGED <<environment, driver, last, quiet, elapsed, settled>>

Quiescent ==
  /\ reply.status = "stats"
  /\ Arrived(reply.counted)
  /\ Counts(reply.counted) = last
  /\ quiet >= Quiet

(* The counts moved: the quiet period starts again. *)
Moved ==
  /\ reply.status = "stats"
  /\ Arrived(reply.counted)
  /\ Counts(reply.counted) # last

Observe ==
  /\ reply' = NoReply
  /\ last' = IF Moved THEN Counts(reply.counted) ELSE last
  /\ quiet' = IF Moved THEN 0 ELSE quiet
  /\ settled' = IF Moved THEN reply.counted ELSE settled
  /\ UNCHANGED elapsed

(* Mutant of StartupExpired: no deadline. *)
NeverExpired == FALSE

StartupExpired == elapsed > StartupTimeout

StartupPoll ==
  /\ phase = "startup"
  /\ reply # NoReply
  /\ Observe
  /\ \/ Quiescent /\ phase' = "reset" /\ UNCHANGED exit
     \/ ~ Quiescent /\ StartupExpired /\ Ends("failed")
     \/ ~ Quiescent /\ ~ StartupExpired /\ UNCHANGED <<phase, exit>>
  /\ UNCHANGED <<environment, options, dump, verdict, disk, erased, scheme>>

EraseStartup == up /\ Sink!Discard(Family, OfSignals(Batches, ResetSignals))

(* The request may have been carried out although it failed. *)
Reset ==
  /\ phase = "reset"
  /\ erased' = kept[Family]
  /\ \/ EraseStartup /\ phase' = "start" /\ UNCHANGED exit
     \/ (EraseStartup \/ UNCHANGED sink) /\ Ends("failed")
  /\ UNCHANGED <<outbox, up, options, dump, verdict, disk, scheme, loop>>

StartWorkload ==
  /\ phase = "start"
  /\ outbox' = outbox \cup Work
  /\ phase' = "workload"
  /\ UNCHANGED <<sink, up, options, dump, verdict, disk, exit, erased, scheme,
                 loop>>

(* Mutant of FreshLoop: the second drain goes on with the first one's state. *)
StaleLoop ==
  /\ elapsed' = 0
  /\ UNCHANGED <<reply, last, quiet, settled>>

FreshLoop ==
  /\ reply' = NoReply
  /\ last' = NoCounts
  /\ quiet' = 0
  /\ elapsed' = 0
  /\ settled' = {}

EndWorkload ==
  /\ phase = "workload"
  /\ FreshLoop
  /\ \/ phase' = "drain" /\ UNCHANGED exit
     \/ Ends("failed")
  /\ UNCHANGED <<environment, options, dump, verdict, disk, erased, scheme>>

DrainPoll ==
  /\ phase = "drain"
  /\ reply # NoReply
  /\ Observe
  /\ \/ Quiescent /\ phase' = "dump" /\ UNCHANGED <<verdict, exit>>
     \/ ~ Quiescent /\ elapsed > DrainTimeout /\ Concludes("error")
     \/ ~ Quiescent /\ elapsed <= DrainTimeout /\ UNCHANGED <<phase, verdict, exit>>
  /\ UNCHANGED <<environment, options, dump, disk, erased, scheme>>

DrainGivesUp ==
  /\ phase = "drain"
  /\ reply = NoReply
  /\ elapsed >= DrainTimeout
  /\ Concludes("error")
  /\ UNCHANGED <<environment, options, dump, disk, erased, scheme, loop>>

-----------------------------------------------------------------------------
(* The verdict: validateTelemetryDump *)

TakeDump ==
  /\ phase = "dump"
  /\ \/ /\ up
        /\ Sink!Freeze(Family)
        /\ dump' = kept[Family]
        /\ phase' = "check"
        /\ UNCHANGED <<verdict, exit>>
     \/ /\ (up /\ Sink!Freeze(Family)) \/ UNCHANGED sink
        /\ Concludes("error")
        /\ UNCHANGED dump
  /\ UNCHANGED <<outbox, up, options, disk, erased, scheme, loop>>

CheckNames ==
  /\ phase = "check"
  /\ \/ NamesEverySignal(dump) /\ phase' = "judge" /\ UNCHANGED <<verdict, exit>>
     \/ ~ NamesEverySignal(dump) /\ Concludes("assertion")
  /\ UNCHANGED <<environment, options, dump, disk, erased, scheme, loop>>

(* Mutant of Judgement: the sink judges what it holds at that moment. *)
LiveJudgement == kept[Family]

Judgement == Sink!Judged(Family)

(* The program accepts S, and the proofs it executed are those of the plan:   *)
(* none missing, none unexpected, none twice.                               *)
Proven(S) == S \in Contract

(* POST /validate, and the comparison of the executed proofs with the plan,  *)
(* which may fail although the program accepted the capture.  Without a      *)
(* revision emitReceipt still runs validateNativeScenario, and writes nothing. *)
Judge ==
  /\ phase = "judge"
  /\ \/ /\ up
        /\ Proven(Judgement)
        /\ scheme' = "accepted"
        /\ \/ options.mode = "candidate" /\ phase' = "shape" /\ UNCHANGED <<verdict, exit>>
           \/ options.mode = "validate" /\ options.revision /\ phase' = "receipt"
                /\ UNCHANGED <<verdict, exit>>
           \/ options.mode = "validate" /\ ~ options.revision
                /\ \E result \in {"accepted", "error"} : Concludes(result)
     \/ /\ up
        /\ ~ Proven(Judgement)
        /\ scheme' = IF Judgement \in Unplanned THEN "accepted" ELSE "rejected"
        /\ Concludes("assertion")
     \/ /\ scheme' = "fault"
        /\ Concludes("error")
  /\ UNCHANGED <<environment, options, dump, disk, erased, loop>>

(* emitProfileShapeCandidate: the capture is written first, then the shape   *)
(* of what the sink judged.                                                 *)
EmitShape ==
  /\ phase = "shape"
  /\ \/ /\ up
        /\ disk' = [disk EXCEPT !.capture = Whole("none", dump),
                                !.shape = Whole("none", Judgement)]
        /\ Concludes("accepted")
     \/ /\ \/ disk' = disk
           \/ up /\ disk' = [disk EXCEPT !.capture = Torn]
           \/ up /\ \E shape \in {Absent, Torn} :
                disk' = [disk EXCEPT !.capture = Whole("none", dump), !.shape = shape]
        /\ Concludes("error")
  /\ UNCHANGED <<environment, options, dump, erased, scheme, loop>>

-----------------------------------------------------------------------------
(* The evidence: emitReceipt, for an accepted capture before main sees the   *)
(* result, for an expected failure after it.  The wire file of one scenario, *)
(* which the receipt names by its digest, is not among the files of disk: a  *)
(* failure to read or to write it is a failure before the receipt.           *)

(* Mutant of Outcome: the verdict itself, not yet there for a verified one. *)
OutcomeIsVerdict == verdict

Outcome == IF verdict = "assertion" THEN "xfail" ELSE "verified"

EmitFails ==
  \/ verdict = "assertion" /\ Ends("failed") /\ UNCHANGED verdict
  \/ verdict # "assertion" /\ Concludes("error")

WriteReceipt ==
  /\ phase = "receipt"
  /\ \/ /\ disk' = [disk EXCEPT !.receipt = Whole(Outcome, dump)]
        /\ phase' = "capture"
        /\ UNCHANGED <<verdict, exit>>
     \/ /\ \E receipt \in {disk.receipt, Torn} :
             disk' = [disk EXCEPT !.receipt = receipt]
        /\ EmitFails
  /\ UNCHANGED <<environment, options, dump, erased, scheme, loop>>

(* Mutant of WriteCapture: its failure is not reported. *)
WriteCaptureIgnored ==
  /\ phase = "capture"
  /\ \E capture \in {Whole("none", dump), Torn} :
       disk' = [disk EXCEPT !.capture = capture]
  /\ \/ verdict = "assertion" /\ Ends("passed") /\ UNCHANGED verdict
     \/ verdict # "assertion" /\ Concludes("accepted")
  /\ UNCHANGED <<environment, options, dump, erased, scheme, loop>>

(* When the capture cannot be written the receipt is removed, if it can be. *)
WriteCapture ==
  /\ phase = "capture"
  /\ \/ /\ disk' = [disk EXCEPT !.capture = Whole("none", dump)]
        /\ \/ verdict = "assertion" /\ Ends("passed") /\ UNCHANGED verdict
           \/ verdict # "assertion" /\ Concludes("accepted")
     \/ /\ \E capture \in {disk.capture, Torn}, receipt \in {disk.receipt, Absent} :
             disk' = [disk EXCEPT !.capture = capture, !.receipt = receipt]
        /\ EmitFails
  /\ UNCHANGED <<environment, options, dump, erased, scheme, loop>>

(* classifyOTLPValidation, and main after it. *)
Classify ==
  /\ phase = "classify"
  /\ \/ ~ options.xfail /\ verdict = "accepted" /\ Ends("passed")
     \/ ~ options.xfail /\ verdict # "accepted" /\ Ends("failed")
     \/ options.xfail /\ verdict # "assertion" /\ Ends("failed")
     \/ options.xfail /\ verdict = "assertion" /\ ~ options.revision /\ Ends("passed")
     \/ options.xfail /\ verdict = "assertion" /\ options.revision
          /\ phase' = "receipt" /\ UNCHANGED exit
  /\ UNCHANGED <<environment, options, dump, verdict, disk, erased, scheme, loop>>

(* The test runner ends the driver. *)
Killed ==
  /\ exit = "running"
  /\ Ends("killed")
  /\ UNCHANGED <<environment, options, dump, verdict, disk, erased, scheme, loop>>

-----------------------------------------------------------------------------
Driver ==
  \/ AskStats
  \/ StartupPoll
  \/ Reset
  \/ StartWorkload
  \/ EndWorkload
  \/ DrainPoll
  \/ DrainGivesUp
  \/ TakeDump
  \/ CheckNames
  \/ Judge
  \/ EmitShape
  \/ WriteReceipt
  \/ WriteCapture
  \/ Classify

Next ==
  \/ Driver
  \/ Tick
  \/ \E b \in Batches : Export(b)
  \/ SinkStops
  \/ Killed

(* The driver is never blocked for ever and time passes; nothing obliges the *)
(* exporters to deliver or the sink to keep answering.                      *)
Spec == Init /\ [][Next]_vars /\ WF_vars(Driver) /\ WF_vars(Tick)

-----------------------------------------------------------------------------
(* Properties *)

Files == [form : {"absent", "torn", "whole"},
          outcome : {"none", "verified", "xfail"}, capture : SUBSET Batches]

Phases ==
  {"startup", "reset", "start", "workload", "drain", "dump", "check", "judge",
   "shape", "receipt", "capture", "classify", "exit"}

Replies == [status : {"none", "lost", "stats"}, counted : SUBSET Batches]

(* Every variable keeps its type: the locals of main and its callees, the    *)
(* sink's capture and the three files of the scenario.                      *)
TypeOK ==
  /\ outbox \subseteq Batches
  /\ Sink!TypeOK
  /\ up \in BOOLEAN
  /\ options \in [mode : {"validate", "candidate"}, xfail : BOOLEAN,
                  revision : BOOLEAN]
  /\ phase \in Phases
  /\ reply \in Replies
  /\ last \in [requests : Int, spans : Int]
  /\ quiet \in Nat
  /\ elapsed \in Nat
  /\ dump \subseteq Batches
  /\ verdict \in {"none", "accepted", "assertion", "error"}
  /\ disk \in [receipt : Files, capture : Files, shape : Files]
  /\ exit \in {"running", "passed", "failed", "killed"}
  /\ erased \subseteq Batches
  /\ settled \subseteq Batches
  /\ scheme \in {"none", "accepted", "rejected", "fault"}

(* A receipt never says more than the driver established: a verified receipt *)
(* names a capture the contract accepts, although exports go on arriving     *)
(* while the sink judges; an xfail receipt names one it does not.           *)
ReceiptTellsTruth ==
  LET r == disk.receipt IN
    /\ r.outcome = "verified" =>
         Proven(r.capture) /\ NamesEverySignal(r.capture)
    /\ r.outcome = "xfail" =>
         /\ options.xfail
         /\ ~ Proven(r.capture) \/ ~ NamesEverySignal(r.capture)

(* A driver that passes leaves complete and matching evidence of the kind    *)
(* its flags promise, and a capture file is never published beside another   *)
(* receipt or shape, whichever write failed and whenever it was killed.      *)
EvidenceAgrees ==
  /\ exit = "passed" /\ options.revision
       /\ (options.mode = "validate" \/ options.xfail) =>
       /\ disk.receipt = Whole(IF options.xfail THEN "xfail" ELSE "verified", dump)
       /\ disk.capture = Whole("none", dump)
  /\ disk.receipt.form = "whole" /\ disk.capture.form = "whole" =>
       disk.receipt.capture = disk.capture.capture
  /\ disk.shape.form = "whole" => disk.shape.capture = disk.capture.capture

(* The startup reset erases every startup trace and metric the sink held and *)
(* no startup log: "Preserve startup logs because short scenarios do not     *)
(* necessarily reproduce every required logging scope".                     *)
StartupErased ==
  phase \in {"start", "workload", "drain", "dump", "check", "judge"} =>
    kept[Family] \cap erased = OfSignals(erased, {"logs"})

(* Whatever ended the wait is part of the dump: everything /stats counted    *)
(* when the quiet period began, none of it from before the startup reset.    *)
SettledIsDumped ==
  phase \in {"check", "judge", "shape", "receipt", "capture"} =>
    settled # {} /\ settled \subseteq dump

(* The driver always ends, whether exporters deliver, the sink answers, or   *)
(* neither: both waits have deadlines.                                      *)
Decides == <>(phase = "exit")

(* harness/README.md: "An otel_xfails entry accepts only a Scheme contract   *)
(* rejection".                                                              *)
XFailIsRejection == exit = "passed" /\ options.xfail => scheme = "rejected"
=============================================================================
