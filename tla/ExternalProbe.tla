---------------------------- MODULE ExternalProbe ----------------------------
(***************************************************************************)
(* The external feature probe (harness/external_features/main.go and         *)
(* probe_runtime.go).  It runs the same application again and again, each    *)
(* time under another setting, on a port it has just given back, and infers  *)
(* from two captures whether the setting had its effect.                     *)
(*                                                                         *)
(* The port may be taken by another fixture before the application binds it  *)
(* or be shared with one; the application may reject its configuration,      *)
(* break or crash at any time; and what it exported may still be in flight   *)
(* when it is killed.  Every check of the port is a step of its own, so the   *)
(* answer is out of date as soon as it is given.                             *)
(***************************************************************************)
EXTENDS Naturals, FiniteSets, Sequences, SequencesExt

CONSTANTS
  Suites,      \* lists of experiments; a run executes one of them
  Controls,    \* experiment -> the control it is compared with, if not baseline
  Rejections,  \* experiment -> the status of its known configuration rejection
  Bursty,      \* collections whose workload ends with a concurrent burst
  Golden,      \* suite -> the reviewed statuses of its experiments
  Requests,    \* requests sent one after the other
  Burst,       \* requests of the burst
  MaxTries,    \* attempts at a port
  MaxEdits     \* changes made to the retained files afterwards

Statuses ==
  {"pass", "gap", "not_exercised", "startup_rejected", "workload_rejected"}

ASSUME ProbeAssumption ==
  /\ \A suite \in Suites :
       /\ suite \in Seq(ToSet(suite)) /\ suite # <<>> /\ IsInjective(suite)
       /\ {"baseline", "sampler-arg-control"} \cap ToSet(suite) = {}
       /\ \A e \in DOMAIN Controls : Controls[e] \notin ToSet(suite)
  /\ IsInjective(Controls)
  /\ \A e \in DOMAIN Controls : Controls[e] # "baseline"
  /\ \A e \in DOMAIN Rejections :
       Rejections[e] \in {"startup_rejected", "workload_rejected"}
  /\ {Requests, Burst, MaxTries} \subseteq Nat \ {0}
  /\ MaxEdits \in Nat

VARIABLES
  suite,     \* the experiments of this run
  at,        \* the position in the run's collections
  tries,     \* attempts made for this collection
  pc,        \* where the probe is
  child,     \* the application of this attempt
  reuse,     \* the listeners of the fixtures set SO_REUSEPORT
  foreign,   \* another fixture on this attempt's port
  survivors, \* whether a process of an earlier attempt still runs: "running",
             \* or "left" by an application that ended before its group was killed
  late,      \* history: telemetry was in flight when this attempt began, or
             \* a process left behind
  wire,      \* whose telemetry is in flight
  sink,      \* whose telemetry the sink holds
  answer,    \* the status of the readiness request not yet acted on
  step,      \* the position in the workload
  burst,     \* the goroutines of the burst
  outcome,   \* how the attempt ended
  strange,   \* history: a stranger answered a request of the workload
  ended,     \* history: how the process of a rejected collection ended
  files,     \* the retained captures and logs
  result,    \* external-features.json: digests and observations
  verdict,   \* how the run ended
  edits,     \* changes made to the retained files
  shown      \* what the comparison said of the retained files

port == <<reuse, foreign, strange>>
telemetry == <<survivors, late, wire, sink>>
work == <<answer, step, burst>>
kept == <<files, result, ended>>
after == <<edits, shown>>
run == <<suite, at, tries>>
vars == <<run, pc, child, port, telemetry, work, outcome, kept, verdict, after>>

-----------------------------------------------------------------------------
(* What is collected: the baseline, then each experiment after its control *)

ControlOf(e) == IF e \in DOMAIN Controls THEN Controls[e] ELSE "baseline"

Collections ==
  <<"baseline">> \o FlattenSeq(
    [i \in DOMAIN suite |->
      IF suite[i] \in DOMAIN Controls
      THEN <<Controls[suite[i]], suite[i]>> ELSE <<suite[i]>>])

Name == Collections[at]
IsExperiment(name) == name \in ToSet(suite)

Missing == [spans |-> FALSE, effect |-> FALSE, there |-> FALSE]
Content(spans, effect) == [spans |-> spans, effect |-> effect, there |-> TRUE]
NoLog == {"nothing"}

(* Collections that are refused without spans *)
NeedsSpans(name) == name \in {"baseline", "sampler-arg-control"}

(* evaluate, as far as this module looks at it *)
Evaluate(control, changed) ==
  IF ~control.spans THEN "not_exercised"
  ELSE IF changed.effect THEN "pass" ELSE "gap"

NoChild ==
  [state |-> "none", broken |-> FALSE, code |-> 0]

NoObservation == "none"
NotEnded == [how |-> "none", code |-> 0]

Init ==
  /\ suite \in Suites
  /\ at = 1 /\ tries = 0
  /\ pc = "reset"
  /\ child = NoChild
  /\ reuse \in BOOLEAN /\ foreign = "absent" /\ strange = "none"
  /\ survivors = "none" /\ late = FALSE /\ wire = {} /\ sink = {}
  /\ answer = 0
  /\ step = [sent |-> 0, turn |-> "before"]
  /\ burst = <<>>
  /\ outcome = "none"
  /\ ended = [e \in ToSet(suite) |-> NotEnded]
  /\ files = [captures |-> [c \in ToSet(Collections) |-> Missing],
              logs |-> [c \in ToSet(Collections) |-> NoLog]]
  /\ result = [captures |-> <<>>, rejections |-> <<>>,
               observations |-> [e \in ToSet(suite) |-> NoObservation]]
  /\ verdict = "running"
  /\ edits = 0 /\ shown = "no"

-----------------------------------------------------------------------------
(* The application, the other fixture and the sink *)

Alive == child.state \in {"starting", "listening"}
Window == pc \in {"poll", "answered", "workload", "burst", "joined", "observe"}

probe == <<run, pc, work, outcome, verdict, after>>

Log(message) == files' = [files EXCEPT !.logs[Name] = @ \cup message]

ChildBinds ==
  /\ child.state = "starting"
  /\ foreign # "listening" \/ reuse
  /\ \E broken \in BOOLEAN :
       child' = [child EXCEPT !.state = "listening", !.broken = broken]
  /\ UNCHANGED <<probe, port, telemetry, kept>>

ChildFindsPortTaken ==
  /\ child.state = "starting"
  /\ foreign = "listening" /\ ~reuse
  /\ child' = [child EXCEPT !.state = "exited", !.code = 1]
  /\ Log({"in use"})
  /\ UNCHANGED <<probe, port, telemetry, result, ended>>

ChildRejectsSetting ==
  /\ child.state = "starting"
  /\ Name \in DOMAIN Rejections /\ Rejections[Name] = "startup_rejected"
  /\ \E code \in {1, 2} : child' = [child EXCEPT !.state = "exited", !.code = code]
  /\ Log({"known"})
  /\ UNCHANGED <<probe, port, telemetry, result, ended>>

ChildCrashes ==
  /\ Alive /\ Window
  /\ \E code \in {1, 2} : child' = [child EXCEPT !.state = "exited", !.code = code]
  /\ UNCHANGED <<probe, port, telemetry, kept>>

(* It is asked to stop, and does. *)
ChildStops ==
  /\ Alive /\ pc = "stopping"
  /\ child' = [child EXCEPT !.state = "exited"]
  /\ UNCHANGED <<probe, port, telemetry, kept>>

(* The goroutine in cmd.Wait sends on done. *)
Wait ==
  /\ child.state = "exited"
  /\ child' = [child EXCEPT !.state = "reaped"]
  /\ UNCHANGED <<probe, port, telemetry, kept>>

ForeignBinds ==
  /\ Window
  /\ foreign = "absent"
  /\ child.state = "listening" => reuse
  /\ foreign' = "listening"
  /\ UNCHANGED <<probe, reuse, strange, child, telemetry, kept>>

(* A stranger that leaves before the next check of the port is not noticed. *)
ForeignLeaves ==
  /\ Window
  /\ foreign = "listening"
  /\ foreign' = "gone"
  /\ strange' = IF strange = "answered" THEN "slipped" ELSE strange
  /\ UNCHANGED <<probe, reuse, child, telemetry, kept>>

Exporters ==
  (IF child.state = "listening" THEN {"own"} ELSE {}) \cup
  (IF survivors = "running" THEN {"old"} ELSE {})

Export ==
  /\ Window \/ pc = "stopping"
  /\ \E whose \in Exporters : wire' = wire \cup {whose}
  /\ UNCHANGED <<probe, port, child, survivors, late, sink, kept>>

(* Of a process left behind there is always more in flight. *)
SinkStores ==
  /\ \E whose \in wire :
       /\ wire' = IF whose = "old" /\ survivors = "left" THEN wire
                                                        ELSE wire \ {whose}
       /\ sink' = sink \cup {whose}
  /\ UNCHANGED <<probe, port, child, survivors, late, kept>>

-----------------------------------------------------------------------------
(* One attempt: collectOnce *)

(* Everything from here on belongs to the next process. *)
Older(S) == {"old" : x \in S}

Abandon == pc' = "end" /\ verdict' = "error"

Reset ==
  /\ pc = "reset"
  /\ tries' = tries + 1
  /\ sink' = {}
  /\ wire' = Older(wire) \cup (IF survivors = "left" THEN {"old"} ELSE {})
  /\ late' = (wire # {} \/ survivors = "left")
  /\ survivors' = IF Alive THEN "running" ELSE survivors
  /\ child' = NoChild
  /\ pc' = "launch"
  /\ UNCHANGED <<suite, at, port, work, outcome, kept, verdict, after>>

ResetFails ==
  /\ pc = "reset"
  /\ Abandon
  /\ UNCHANGED <<run, child, port, telemetry, work, outcome, kept, after>>

(* The attempt is over: its locals are gone. *)
Forget ==
  /\ foreign' = "absent" /\ strange' = "none" /\ UNCHANGED reuse
  /\ step' = [sent |-> 0, turn |-> "before"]
  /\ answer' = 0 /\ burst' = <<>>

(* A port is reserved and given back, the log created anew, the process      *)
(* started.                                                                  *)
Launch ==
  /\ pc = "launch"
  /\ child' = [NoChild EXCEPT !.state = "starting"]
  /\ Forget /\ outcome' = "none"
  /\ pc' = "poll"
  /\ files' = [files EXCEPT !.logs[Name] = {}]
  /\ UNCHANGED <<run, telemetry, result, ended, verdict, after>>

LaunchFails ==
  /\ pc = "launch"
  /\ Abandon
  /\ UNCHANGED <<run, child, port, telemetry, work, outcome, kept, after>>

(* What processTCPPortOwnership may answer: of a process that has ended its   *)
(* tables cannot be read, or hold nothing any more.                          *)
Ownership ==
  IF ~Alive THEN {"unreadable", "not owned"}
  ELSE IF child.state # "listening" THEN {"not owned"}
  ELSE IF foreign = "listening" THEN {"shared"} ELSE {"exclusive"}

Return(kind) == pc' = "cleanup" /\ outcome' = kind

(* Once the application has been waited for, "stopped" is set and nobody      *)
(* kills its group: processes it started may stay.                          *)
GroupStays ==
  /\ survivors' \in {survivors, "left"}
  /\ UNCHANGED <<late, wire, sink>>

(* classifyProcessExit *)
ExitKind == IF "in use" \in files.logs[Name] THEN "port in use" ELSE "startup exit"

SeeExit ==
  /\ pc = "poll" /\ child.state = "reaped"
  /\ Return(ExitKind)
  /\ GroupStays
  /\ UNCHANGED <<run, child, port, work, kept, verdict, after>>

(* The application logs why it answers 500. *)
Ask ==
  /\ pc = "poll" /\ child.state # "reaped"
  /\ \/ /\ child.state = "listening"
        /\ answer' = IF child.broken THEN 500 ELSE 200
        /\ \/ /\ child.broken
              /\ Name \in DOMAIN Rejections
              /\ Rejections[Name] = "workload_rejected"
              /\ Log({"known"})
           \/ UNCHANGED files
     \/ /\ foreign = "listening"
        /\ answer' \in {200, 500}
        /\ UNCHANGED files
  /\ pc' = "answered"
  /\ UNCHANGED <<run, child, port, telemetry, step, burst, outcome, result,
                 ended, verdict, after>>

ActOnAnswer ==
  /\ pc = "answered"
  /\ \E seen \in Ownership :
       \/ seen = "unreadable" /\ Return("error")
       \/ seen = "shared" /\ Return("port in use")
       \/ seen = "not owned" /\ pc' = "poll" /\ UNCHANGED outcome
       \/ seen = "exclusive" /\ answer = 500 /\ Return("workload failure")
       \/ seen = "exclusive" /\ answer = 200 /\ pc' = "workload" /\ UNCHANGED outcome
  /\ answer' = 0
  /\ UNCHANGED <<run, child, port, telemetry, step, burst, kept, verdict, after>>

ReadinessTimesOut ==
  /\ pc = "poll"
  /\ Return("error")
  /\ UNCHANGED <<run, child, port, telemetry, work, kept, verdict, after>>

-----------------------------------------------------------------------------
(* The workload, with verifyOwnership before and after every request *)

Refusal(seen) == IF seen = "unreadable" THEN "error" ELSE "port in use"

(* verifyOwnership, and what follows when it finds nothing wrong *)
Verify(next) ==
  \E seen \in Ownership :
    \/ seen = "exclusive" /\ next /\ UNCHANGED outcome
    \/ seen # "exclusive" /\ Return(Refusal(seen)) /\ UNCHANGED <<step, burst>>

Listeners ==
  (IF child.state = "listening" THEN {"own"} ELSE {}) \cup
  (IF foreign = "listening" THEN {"foreign"} ELSE {})

Noted(who) == IF who = "foreign" THEN "answered" ELSE strange

NextPart ==
  IF step.sent + 1 < Requests THEN "workload"
  ELSE IF Name \in Bursty THEN "burst" ELSE "observe"

CheckBefore ==
  /\ pc = "workload" /\ step.turn = "before"
  /\ Verify(/\ step' = [step EXCEPT !.turn = "request"]
            /\ UNCHANGED <<pc, burst>>)
  /\ UNCHANGED <<run, child, port, telemetry, answer, kept, verdict, after>>

Request ==
  /\ pc = "workload" /\ step.turn = "request"
  /\ \E who \in Listeners : strange' = Noted(who)
  /\ step' = [step EXCEPT !.turn = "after"]
  /\ UNCHANGED <<run, pc, child, reuse, foreign, telemetry, answer, burst,
                 outcome, kept, verdict, after>>

(* Nobody answers, or with another status than the one expected. *)
RequestFails ==
  /\ pc = "workload" /\ step.turn = "request"
  /\ Return("error")
  /\ UNCHANGED <<run, child, port, telemetry, work, kept, verdict, after>>

(* Mutant of CheckAfter: the port is not checked after the request. *)
SkipCheckAfter ==
  /\ pc = "workload" /\ step.turn = "after"
  /\ step' = [sent |-> step.sent + 1, turn |-> "before"]
  /\ pc' = NextPart
  /\ UNCHANGED <<run, child, port, telemetry, answer, burst, outcome, kept,
                 verdict, after>>

CheckAfter ==
  /\ pc = "workload" /\ step.turn = "after"
  /\ Verify(/\ step' = [sent |-> step.sent + 1, turn |-> "before"]
            /\ pc' = NextPart
            /\ UNCHANGED burst)
  /\ UNCHANGED <<run, child, port, telemetry, answer, kept, verdict, after>>

(* logBatchBurst: the first check, then one goroutine per request.  step.turn *)
(* holds the first error received.                                           *)
StartBurst ==
  /\ pc = "burst" /\ burst = <<>>
  /\ Verify(/\ burst' = [i \in 1 .. Burst |-> "before"]
            /\ step' = [step EXCEPT !.turn = "fine"]
            /\ UNCHANGED pc)
  /\ UNCHANGED <<run, child, port, telemetry, answer, kept, verdict, after>>

First(error) == IF step.turn = "fine" THEN error ELSE step.turn

Goroutine(i) ==
  /\ pc = "burst" /\ burst # <<>>
  /\ \/ /\ burst[i] \in {"before", "after"}
        /\ \E seen \in Ownership :
             IF seen = "exclusive"
             THEN /\ burst' = [burst EXCEPT ![i] =
                                 IF @ = "before" THEN "post" ELSE "done"]
                  /\ UNCHANGED step
             ELSE /\ burst' = [burst EXCEPT ![i] = "done"]
                  /\ step' = [step EXCEPT !.turn = First(Refusal(seen))]
        /\ UNCHANGED strange
     \/ /\ burst[i] = "post"
        /\ \E who \in Listeners : strange' = Noted(who)
        /\ burst' = [burst EXCEPT ![i] = "after"]
        /\ UNCHANGED step
     \/ /\ burst[i] = "post"
        /\ burst' = [burst EXCEPT ![i] = "done"]
        /\ step' = [step EXCEPT !.turn = First("error")]
        /\ UNCHANGED strange
  /\ UNCHANGED <<run, pc, child, reuse, foreign, telemetry, answer, outcome,
                 kept, verdict, after>>

BurstTick ==
  /\ pc = "burst" /\ burst # <<>>
  /\ \E seen \in Ownership \ {"exclusive"} :
       step' = [step EXCEPT !.turn = First(Refusal(seen))]
  /\ UNCHANGED <<run, pc, child, port, telemetry, answer, burst, outcome, kept,
                 verdict, after>>

BurstEnds ==
  /\ pc = "burst" /\ burst # <<>> /\ \A i \in 1 .. Burst : burst[i] = "done"
  /\ IF step.turn = "fine" THEN pc' = "joined" /\ UNCHANGED outcome
                           ELSE Return(step.turn)
  /\ UNCHANGED <<run, child, port, telemetry, work, kept, verdict, after>>

LastBurstCheck ==
  /\ pc = "joined"
  /\ Verify(pc' = "observe" /\ UNCHANGED <<step, burst>>)
  /\ UNCHANGED <<run, child, port, telemetry, answer, kept, verdict, after>>

-----------------------------------------------------------------------------
(* The observation window, the stop, the dump *)

ObservationTick ==
  /\ pc = "observe"
  /\ \E seen \in Ownership \ {"exclusive"} : Return(Refusal(seen))
  /\ UNCHANGED <<run, child, port, telemetry, work, kept, verdict, after>>

ExitDuringObservation ==
  /\ pc = "observe" /\ child.state = "reaped"
  /\ Return(IF ExitKind = "port in use" THEN "port in use" ELSE "error")
  /\ GroupStays
  /\ UNCHANGED <<run, child, port, work, kept, verdict, after>>

(* The select may take the deadline although done or a tick is ready too. *)
ObservationEnds ==
  /\ pc = "observe"
  /\ pc' = "stopping"
  /\ UNCHANGED <<run, child, port, telemetry, work, outcome, kept, verdict, after>>

(* SIGTERM went to the whole group, and the application has ended. *)
StopSeen ==
  /\ pc = "stopping" /\ child.state = "reaped"
  /\ pc' = "dump"
  /\ GroupStays
  /\ UNCHANGED <<run, child, port, work, outcome, kept, verdict, after>>

(* Mutant of KillAfterGrace: the process is only waited for. *)
GraceWaits ==
  /\ pc = "stopping" /\ child.state = "reaped"
  /\ pc' = "dump"
  /\ UNCHANGED <<run, child, port, telemetry, work, outcome, kept, verdict, after>>

(* killAfterGrace: a group that is gone already is no error, any other        *)
(* failure is one, and the deferred SIGKILL follows.                        *)
KillAfterGrace ==
  /\ pc = "stopping"
  /\ child' = [child EXCEPT !.state = "reaped"]
  /\ pc' = "dump"
  /\ UNCHANGED <<run, port, telemetry, work, outcome, kept, verdict, after>>

(* The group cannot be signalled (other than that it is gone already). *)
KillFails ==
  /\ pc = "stopping"
  /\ Return("error")
  /\ UNCHANGED <<run, child, port, telemetry, work, kept, verdict, after>>

(* Mutant of Cleanup: returning leaves the process running. *)
LeaveRunning ==
  /\ pc = "cleanup"
  /\ pc' = "settle"
  /\ Forget
  /\ UNCHANGED <<run, child, telemetry, outcome, kept, verdict, after>>

(* The deferred SIGKILL, unless the process has been waited for *)
Cleanup ==
  /\ pc = "cleanup"
  /\ child' = [child EXCEPT !.state = "reaped"]
  /\ pc' = "settle"
  /\ Forget
  /\ UNCHANGED <<run, telemetry, outcome, kept, verdict, after>>

DumpFails ==
  /\ pc = "dump"
  /\ Return("error")
  /\ UNCHANGED <<run, child, port, telemetry, work, kept, verdict, after>>

-----------------------------------------------------------------------------
(* The run: what becomes of an attempt *)

GoOn ==
  IF at = Len(Collections)
  THEN pc' = "write" /\ UNCHANGED <<at, tries, verdict>>
  ELSE pc' = "reset" /\ at' = at + 1 /\ tries' = 0 /\ UNCHANGED verdict

GiveUpRun == Abandon /\ UNCHANGED <<at, tries>>

(* The capture is written, its digest recorded, and an experiment evaluated.  *)
Capture ==
  /\ pc = "dump"
  /\ \E effect \in (IF IsExperiment(Name) THEN BOOLEAN ELSE {FALSE}) :
       LET content == Content(sink # {}, effect) IN
       /\ files' = [files EXCEPT !.captures[Name] = content]
       /\ result' =
            [result EXCEPT
               !.captures = [c \in DOMAIN @ \cup {Name} |->
                               IF c = Name THEN content ELSE @[c]],
               !.observations =
                 IF IsExperiment(Name)
                 THEN [@ EXCEPT ![Name] =
                         Evaluate(files.captures[ControlOf(Name)], content)]
                 ELSE @]
  /\ IF NeedsSpans(Name) /\ sink = {} THEN GiveUpRun ELSE GoOn
  /\ outcome' = "captured"
  /\ UNCHANGED <<suite, child, port, telemetry, work, ended, after>>

(* The capture cannot be written or decoded: no result will be. *)
CaptureFails ==
  /\ pc = "dump"
  /\ Abandon
  /\ UNCHANGED <<run, child, port, telemetry, work, outcome, kept, after>>

(* Mutant of Retry: the attempts are not counted. *)
RetryAlways ==
  /\ pc = "settle" /\ outcome = "port in use"
  /\ pc' = "reset"
  /\ UNCHANGED <<run, child, port, telemetry, work, outcome, kept, verdict, after>>

(* retryPortConflicts *)
Retry ==
  /\ pc = "settle" /\ outcome = "port in use" /\ tries < MaxTries
  /\ pc' = "reset"
  /\ UNCHANGED <<run, child, port, telemetry, work, outcome, kept, verdict, after>>

(* Mutant of Rejected: any exit with a known message in its log is accepted. *)
RejectedAnyCode ==
  /\ IsExperiment(Name) /\ Name \in DOMAIN Rejections
  /\ outcome \in {"startup exit", "workload failure"}
  /\ "known" \in files.logs[Name]
  /\ (outcome = "workload failure") <=> (Rejections[Name] = "workload_rejected")

(* Only a known diagnostic of this experiment, after exit code 1 or a health  *)
(* request answered with 500, is an observation.                             *)
Rejected ==
  /\ IsExperiment(Name) /\ Name \in DOMAIN Rejections
  /\ outcome \in {"startup exit", "workload failure"}
  /\ outcome = "startup exit" => child.code = 1
  /\ "known" \in files.logs[Name]
  /\ (outcome = "workload failure") <=> (Rejections[Name] = "workload_rejected")

RecordRejection ==
  /\ pc = "settle" /\ Rejected
  /\ result' =
       [result EXCEPT
          !.rejections = [c \in DOMAIN @ \cup {Name} |->
                            IF c = Name THEN files.logs[Name] ELSE @[c]],
          !.observations[Name] = Rejections[Name]]
  /\ ended' = [ended EXCEPT ![Name] = [how |-> outcome, code |-> child.code]]
  /\ GoOn
  /\ UNCHANGED <<suite, child, port, telemetry, work, outcome, files,
                 after>>

Fatal ==
  /\ pc = "settle" /\ ~Rejected
  /\ outcome = "port in use" => tries = MaxTries
  /\ Abandon
  /\ UNCHANGED <<run, child, port, telemetry, work, outcome, kept, after>>

(* Every case is reviewed, and none else; a status stands for the signature. *)
AsReviewed == suite \in DOMAIN Golden /\ Golden[suite] = result.observations

(* The result is written, or cannot be; then it is compared with the reviewed *)
(* one, if that can be read.                                                *)
WriteResult ==
  /\ pc = "write"
  /\ \/ Abandon
     \/ /\ pc' = "end"
        /\ \E discover, readable \in BOOLEAN :
             verdict' = IF discover \/ (readable /\ AsReviewed)
                        THEN "passed" ELSE "changed"
  /\ UNCHANGED <<run, child, port, telemetry, work, outcome, kept, after>>

-----------------------------------------------------------------------------
(* The comparison, made later from the retained files *)

Complete == pc = "end" /\ verdict \in {"passed", "changed"}

EditsNow ==
  /\ Complete /\ shown = "no" /\ edits < MaxEdits
  /\ edits' = edits + 1
  /\ UNCHANGED <<run, pc, child, port, telemetry, work, outcome, ended, verdict,
                 shown>>

EditObservation(e) ==
  /\ EditsNow
  /\ \E status \in Statuses : result' = [result EXCEPT !.observations[e] = status]
  /\ UNCHANGED files

(* A capture is lost or replaced, by one with the same digest entry or with   *)
(* an entry that fits.                                                       *)
EditCapture(c) ==
  /\ EditsNow
  /\ \E content \in {Missing, Content(FALSE, FALSE), Content(TRUE, TRUE)} :
       /\ files' = [files EXCEPT !.captures[c] = content]
       /\ \/ UNCHANGED result
          \/ /\ c \in DOMAIN result.captures /\ content.there
             /\ result' = [result EXCEPT !.captures[c] = content]

EditLog(c) ==
  /\ EditsNow
  /\ \E log \in {NoLog, {}, {"known"}} :
       files' = [files EXCEPT !.logs[c] = log]
  /\ UNCHANGED result

Loads(c) ==
  /\ c \in DOMAIN result.captures
  /\ files.captures[c].there
  /\ files.captures[c] = result.captures[c]

(* Mutant of Implied: the result is believed. *)
Believed(e) == TRUE

(* What the retained files say of an experiment, and the result with them *)
Implied(e) ==
  IF e \in DOMAIN result.rejections
  THEN /\ files.logs[e] = result.rejections[e]
       /\ e \in DOMAIN Rejections /\ "known" \in files.logs[e]
       /\ result.observations[e] = Rejections[e]
  ELSE /\ Loads(e)
       /\ result.observations[e] =
            Evaluate(files.captures[ControlOf(e)], files.captures[e])

(* Mutant of verifyResult: the number of files is compared with a digest of   *)
(* each experiment and the baseline only.                                    *)
VerifiedWithoutControls ==
  /\ Loads("baseline") /\ files.captures["baseline"].spans
  /\ Cardinality(DOMAIN result.captures) + Cardinality(DOMAIN result.rejections)
       = Len(suite) + 1
  /\ \A e \in ToSet(suite) : Loads(ControlOf(e)) /\ Implied(e)

verifyResult ==
  /\ \A c \in ToSet(Collections) :
       NeedsSpans(c) => Loads(c) /\ files.captures[c].spans
  /\ Cardinality(DOMAIN result.captures) + Cardinality(DOMAIN result.rejections)
       = Len(Collections)
  /\ \A e \in ToSet(suite) : Loads(ControlOf(e)) /\ Implied(e)

Compare ==
  /\ Complete /\ shown = "no"
  /\ shown' = IF verifyResult THEN "shown" ELSE "refused"
  /\ UNCHANGED <<run, pc, child, port, telemetry, work, outcome, kept, verdict,
                 edits>>

-----------------------------------------------------------------------------
Environment ==
  \/ ChildBinds \/ ChildFindsPortTaken \/ ChildRejectsSetting \/ ChildCrashes
  \/ ChildStops \/ ForeignBinds \/ ForeignLeaves \/ Export \/ SinkStores

Attempt ==
  \/ Reset \/ ResetFails \/ Launch \/ LaunchFails
  \/ SeeExit \/ Ask \/ ActOnAnswer \/ ReadinessTimesOut
  \/ CheckBefore \/ Request \/ RequestFails \/ CheckAfter
  \/ StartBurst \/ BurstTick \/ BurstEnds \/ LastBurstCheck
  \/ \E i \in 1 .. Burst : Goroutine(i)
  \/ ObservationTick \/ ExitDuringObservation \/ ObservationEnds
  \/ StopSeen \/ KillAfterGrace \/ Cleanup \/ DumpFails

Settling ==
  \/ Capture \/ CaptureFails \/ Retry \/ RecordRejection \/ Fatal \/ WriteResult

Later ==
  \/ \E e \in ToSet(suite) : EditObservation(e)
  \/ \E c \in ToSet(Collections) : EditCapture(c) \/ EditLog(c)
  \/ Compare

(* The probe goes on by itself: every request has a time limit of its own,    *)
(* and the readiness deadline is on the clock, however often it is asked.     *)
(* That a signal is refused is nothing it may count on to go on.             *)
Next == Environment \/ Wait \/ KillFails \/ Attempt \/ Settling \/ Later

Spec ==
  /\ Init /\ [][Next]_vars
  /\ WF_vars(Attempt \/ Settling)
  /\ SF_vars(ReadinessTimesOut)

-----------------------------------------------------------------------------
(* Properties *)

(* TypeOK: the kinds of values the probe's state takes; a collection is tried *)
(* at most MaxTries times (retryPortConflicts).                              *)
TypeOK ==
  /\ at \in 1 .. Len(Collections) /\ tries \in 0 .. MaxTries
  /\ child.state \in {"none", "starting", "listening", "exited", "reaped"}
  /\ foreign \in {"absent", "listening", "gone"}
  /\ strange \in {"none", "answered", "slipped"}
  /\ {wire, sink} \subseteq SUBSET {"own", "old"}
  /\ DOMAIN result.captures \subseteq ToSet(Collections)
  /\ DOMAIN result.rejections \subseteq ToSet(suite)
  /\ \A e \in ToSet(suite) : result.observations[e] \in Statuses \cup {NoObservation}
  /\ verdict \in {"running", "error", "changed", "passed"}

(* OwnAnswers: no request of a workload whose capture is taken was answered   *)
(* by another fixture, unless that fixture came and went between two checks   *)
(* of the port (verifyOwnership around every request of workload and          *)
(* logBatchBurst).                                                           *)
OwnAnswers == outcome = "captured" => strange # "answered"

(* OnlyOwnTelemetry: what an earlier process exported can reach the capture   *)
(* of this attempt only if it was in flight when its process had already     *)
(* been stopped, or comes from a process an application that ended by itself  *)
(* left behind; no application of an earlier attempt still runs (the          *)
(* deferred kill of collectOnce).                                            *)
OnlyOwnTelemetry == "old" \in wire \cup sink => late

(* RejectionIsGenuine: an experiment is recorded as rejected only if the last  *)
(* attempt ended the way its diagnostic says, its own log shows it and shows  *)
(* no port conflict, and that log is the one that is retained.                *)
RejectionIsGenuine ==
  edits = 0 =>
    \A e \in DOMAIN result.rejections :
      /\ "known" \in files.logs[e] /\ "in use" \notin files.logs[e]
      /\ result.rejections[e] = files.logs[e]
      /\ ended[e] \in
           IF result.observations[e] = "startup_rejected"
           THEN [how : {"startup exit"}, code : {1}]
           ELSE [how : {"workload failure"}, code : 0 .. 2]

(* HonestIsShown: a result whose retained files nobody has touched is never   *)
(* refused by the comparison: run and verifyResult agree on what is retained. *)
HonestIsShown == edits = 0 => shown # "refused"

(* ShownIsImplied: whatever was edited or lost afterwards, a comparison that  *)
(* is shown says of every experiment what the retained files show.            *)
ShownIsImplied ==
  shown = "shown" =>
    \A e \in ToSet(suite) :
      LET status == result.observations[e]
          control == files.captures[ControlOf(e)]
          changed == files.captures[e]
      IN /\ status = "pass" =>
              control.there /\ control.spans /\ changed.there /\ changed.effect
         /\ status = "gap" => control.spans /\ changed.there /\ ~changed.effect
         /\ status = "not_exercised" => control.there /\ ~control.spans
         /\ status \in {"startup_rejected", "workload_rejected"} =>
              Rejections[e] = status /\ "known" \in files.logs[e]
         /\ status # NoObservation

(* Ends: the run of the probe ends, whatever the application, the other       *)
(* fixture and the sink do (deadlines and the grace after SIGTERM).           *)
Ends == <>(verdict # "running")
=============================================================================
