-------------------------- MODULE ScenarioRunProofs --------------------------
(***************************************************************************)
(* The safety of one scenario of the Hurl test driver for every set of      *)
(* batches, contract, quota and timeout: whatever the exporters, the sink,   *)
(* the file system and the test runner do, the startup is erased, what       *)
(* ended the wait is dumped, a receipt tells the truth, and the files agree. *)
(*                                                                         *)
(* The inductive invariant says where the driver is: what each phase has    *)
(* established about the dump, the verdict and the three files so far.       *)
(***************************************************************************)
EXTENDS ScenarioRun, FiniteSetTheorems, TLAPS

-----------------------------------------------------------------------------
(* The inductive invariant *)

Nothing == [receipt |-> Absent, capture |-> Absent, shape |-> Absent]

(* The two reasons a receipt may be written for. *)
Fit(S) == Proven(S) /\ NamesEverySignal(S)
Verifiable == options.mode = "validate" /\ options.revision /\ Fit(dump)
Refuted == options.xfail /\ options.revision /\ ~ Fit(dump)

Entitled ==
  \/ verdict = "none" /\ Verifiable
  \/ verdict = "assertion" /\ Refuted

(* The batches in an exporter's hands are not yet in the sink, and those of   *)
(* the workload do not exist before the startup is erased.                   *)
Apart ==
  /\ outbox \cap kept[Family] = {}
  /\ phase \in {"startup", "reset", "start"} =>
       outbox \cup kept[Family] \subseteq Startup
  /\ phase = "start" => erased \subseteq Startup
  /\ phase \in {"start", "workload", "drain", "dump", "check", "judge"} =>
       outbox \cap erased = {}

(* What the second drain has seen is still in the sink: nothing erases any   *)
(* more.  Without a first observation there are no last counts.              *)
Watches ==
  /\ phase = "drain" =>
       /\ reply.counted \cup settled \subseteq kept[Family]
       /\ settled = {} => last = NoCounts
  /\ phase = "dump" => settled # {} /\ settled \subseteq kept[Family]
  /\ phase = "classify" /\ verdict = "assertion" =>
       settled # {} /\ settled \subseteq dump

(* Before a receipt, capture or shape is due there is none, and the sink     *)
(* judges the dump the driver read.                                         *)
Unwritten ==
  /\ phase \in {"startup", "reset", "start", "workload", "drain", "dump",
                "check", "judge", "shape"} => disk = Nothing /\ verdict = "none"
  /\ phase \in {"check", "judge", "shape"} =>
       taken[Family] /\ snapshot[Family] = dump
  /\ phase \in {"judge", "shape"} => NamesEverySignal(dump)
  /\ phase = "shape" => options.mode = "candidate" /\ Proven(dump)

(* The files, in the order in which they come about. *)
Written ==
  /\ phase = "receipt" => Entitled /\ disk = Nothing
  /\ phase = "capture" =>
       Entitled /\ disk = [Nothing EXCEPT !.receipt = Whole(Outcome, dump)]
  /\ phase = "classify" =>
       /\ verdict = "accepted" /\ options.mode = "validate" /\ options.revision =>
            /\ disk.receipt = Whole("verified", dump)
            /\ disk.capture = Whole("none", dump)
       /\ verdict = "assertion" => disk = Nothing /\ ~ Fit(dump)

(* What may be in the files at any time. *)
Honest ==
  /\ disk.receipt \in {Absent, Torn, Whole("verified", dump), Whole("xfail", dump)}
  /\ disk.capture \in {Absent, Torn, Whole("none", dump)}
  /\ disk.shape \in {Absent, Torn, Whole("none", dump)}
  /\ disk.receipt.outcome = "verified" => Fit(dump)
  /\ disk.receipt.outcome = "xfail" => options.xfail /\ ~ Fit(dump)
  /\ disk.shape.form = "whole" => disk.capture = Whole("none", dump)

(* How the process ended. *)
Ended ==
  /\ phase # "exit" => exit = "running"
  /\ exit = "passed" /\ options.revision
       /\ (options.mode = "validate" \/ options.xfail) =>
       /\ disk.receipt = Whole(IF options.xfail THEN "xfail" ELSE "verified", dump)
       /\ disk.capture = Whole("none", dump)

IInv ==
  /\ TypeOK
  /\ Apart
  /\ StartupErased
  /\ Watches
  /\ SettledIsDumped
  /\ Unwritten
  /\ Written
  /\ Honest
  /\ Ended

-----------------------------------------------------------------------------
(* Counting *)

(* The counts of a set of batches are numbers, and there are spans only       *)
(* where there are batches.                                                 *)
LEMMA CountsAreNumbers ==
  ASSUME NEW S \in SUBSET Batches
  PROVE  /\ Counts(S) \in [requests : Nat, spans : Nat]
         /\ Counts(S).spans > 0 => S # {}
<1> DEFINE T == OfSignals(S, {"traces"})
           UnitsOf(b) == {b} \X (1 .. b.spans)
           I == {UnitsOf(b) : b \in T}
           g == [b \in T |-> UnitsOf(b)]
<1>1. T \in SUBSET Batches /\ IsFiniteSet(T)
  <2>1. T \in SUBSET Batches
    BY DEF OfSignals
  <2> QED
    BY <2>1, ScenarioAssumption, FS_Subset
<1>2. ASSUME NEW b \in T
      PROVE  IsFiniteSet(UnitsOf(b))
  <2>1. b.spans \in Nat
    BY <1>1, ScenarioAssumption DEF Batch
  <2>2. IsFiniteSet(1 .. b.spans)
    BY <2>1, FS_Interval
  <2>3. IsFiniteSet({b})
    BY FS_Singleton
  <2> QED
    BY <2>2, <2>3, FS_Product, Zenon
<1>3. IsFiniteSet(I)
  <2>1. g \in Surjection(T, I)
    BY DEF Surjection
  <2> HIDE DEF T, I, g
  <2> QED
    BY <2>1, <1>1, FS_Surjection
<1>4. IsFiniteSet(UNION I)
  <2>1. \A U \in I : IsFiniteSet(U)
    BY <1>2
  <2> HIDE DEF I
  <2> QED
    BY <2>1, <1>3, FS_UNION
<1>5. SpanUnits(S) = UNION I
  BY DEF SpanUnits
<1>6. Cardinality(T) \in Nat /\ Cardinality(UNION I) \in Nat
  BY <1>1, <1>4, FS_CardinalityType
<1>7. S = {} => Cardinality(UNION I) = 0
  <2> SUFFICES ASSUME S = {}
               PROVE  UNION I = {}
    BY FS_EmptySet
  <2> QED
    BY DEF OfSignals
<1> HIDE DEF I
<1> QED
  BY <1>5, <1>6, <1>7 DEF Counts

-----------------------------------------------------------------------------
(* The steps of the sink *)

LEMMA SinkAcknowledges ==
  ASSUME Sink!TypeOK, NEW b \in Batches, Sink!Acknowledge(Family, b)
  PROVE  /\ Sink!TypeOK'
         /\ kept'[Family] = kept[Family] \cup {b}
         /\ taken' = taken
         /\ snapshot' = snapshot
BY DEF Sink!TypeOK, Sink!Acknowledge

LEMMA SinkFreezes ==
  ASSUME Sink!TypeOK, Sink!Freeze(Family)
  PROVE  /\ Sink!TypeOK'
         /\ kept' = kept
         /\ taken'[Family]
         /\ snapshot'[Family] = kept[Family]
BY DEF Sink!TypeOK, Sink!Freeze

LEMMA SinkDiscards ==
  ASSUME Sink!TypeOK, NEW gone, Sink!Discard(Family, gone)
  PROVE  /\ Sink!TypeOK'
         /\ kept'[Family] = kept[Family] \ gone
         /\ taken' = taken
BY DEF Sink!TypeOK, Sink!Discard

LEMMA SinkRests ==
  ASSUME Sink!TypeOK, UNCHANGED sink
  PROVE  /\ Sink!TypeOK'
         /\ kept' = kept
         /\ taken' = taken
         /\ snapshot' = snapshot
BY DEF Sink!TypeOK, sink

-----------------------------------------------------------------------------
(* Types *)

(* Every subset of the batches that a step moves to another variable is one,  *)
(* and the files are files.                                                 *)
LEMMA FilesAreFiles ==
  /\ Absent \in Files /\ Torn \in Files
  /\ \A S \in SUBSET Batches, outcome \in {"none", "verified", "xfail"} :
       Whole(outcome, S) \in Files
  /\ \A S \in SUBSET Batches : Stats(S) \in Replies
  /\ NoReply \in Replies /\ LostReply \in Replies
  /\ NoCounts \in [requests : Int, spans : Int]
BY DEF Absent, Torn, Whole, Files, Stats, NoReply, LostReply, Replies, NoCounts

LEMMA LeastIsNatural ==
  ASSUME NEW m \in Nat, NEW n \in Nat
  PROVE  Least(m, n) \in Nat
BY DEF Least

LEMMA ObserveTypes ==
  ASSUME TypeOK, Observe
  PROVE  /\ reply' \in Replies
         /\ last' \in [requests : Int, spans : Int]
         /\ quiet' \in Nat
         /\ elapsed' \in Nat
         /\ settled' \in SUBSET Batches
<1>1. reply.counted \in SUBSET Batches
  BY DEF TypeOK, Replies
<1>2. Counts(reply.counted) \in [requests : Int, spans : Int]
  BY <1>1, CountsAreNumbers
<1> QED
  BY <1>1, <1>2, FilesAreFiles DEF TypeOK, Observe

(* The driver keeps the types of its variables. *)
LEMMA TypeStep ==
  ASSUME TypeOK, [Next]_vars
  PROVE  TypeOK'
<1> USE FilesAreFiles
<1>k. kept[Family] \in SUBSET Batches
  BY DEF TypeOK, Sink!TypeOK
<1>j. Judgement \in SUBSET Batches
  BY <1>k DEF TypeOK, Sink!TypeOK, Judgement, Sink!Judged
<1>s. ASSUME UNCHANGED sink
      PROVE  Sink!TypeOK'
  BY <1>s, SinkRests DEF TypeOK
<1>1. CASE AskStats
  BY <1>1, <1>k, <1>s DEF TypeOK, AskStats, environment, driver
<1>2. CASE StartupPoll
  BY <1>2, <1>s, ObserveTypes DEF TypeOK, StartupPoll, environment, Ends, Phases
<1>3. CASE Reset
  BY <1>3, <1>k, <1>s, SinkDiscards
     DEF TypeOK, Reset, EraseStartup, Ends, loop, Phases
<1>4. CASE StartWorkload
  BY <1>4, <1>s DEF TypeOK, StartWorkload, loop, Phases, Batches
<1>5. CASE EndWorkload
  BY <1>5, <1>s DEF TypeOK, EndWorkload, FreshLoop, environment, Ends, Phases
<1>6. CASE DrainPoll
  BY <1>6, <1>s, ObserveTypes
     DEF TypeOK, DrainPoll, environment, Concludes, Phases
<1>7. CASE DrainGivesUp
  BY <1>7, <1>s DEF TypeOK, DrainGivesUp, environment, Concludes, loop, Phases
<1>8. CASE TakeDump
  BY <1>8, <1>k, <1>s, SinkFreezes
     DEF TypeOK, TakeDump, Concludes, loop, Phases
<1>9. CASE CheckNames
  BY <1>9, <1>s DEF TypeOK, CheckNames, environment, Concludes, loop, Phases
<1>10. CASE Judge
  BY <1>10, <1>s DEF TypeOK, Judge, environment, Concludes, loop, Phases
<1>11. CASE EmitShape
  <2>1. disk' \in [receipt : Files, capture : Files, shape : Files]
    <3>1. /\ Whole("none", dump) \in Files /\ Whole("none", Judgement) \in Files
          /\ Absent \in Files /\ Torn \in Files
      BY <1>j DEF TypeOK
    <3>2. CASE disk' = [disk EXCEPT !.capture = Whole("none", dump),
                                    !.shape = Whole("none", Judgement)]
      BY <3>1, <3>2 DEF TypeOK
    <3>3. CASE disk' = disk
      BY <3>3 DEF TypeOK
    <3>4. CASE disk' = [disk EXCEPT !.capture = Torn]
      BY <3>1, <3>4 DEF TypeOK
    <3>5. ASSUME NEW shape \in {Absent, Torn},
                 disk' = [disk EXCEPT !.capture = Whole("none", dump), !.shape = shape]
          PROVE  disk' \in [receipt : Files, capture : Files, shape : Files]
      BY <3>1, <3>5 DEF TypeOK
    <3> QED
      BY <1>11, <3>2, <3>3, <3>4, <3>5 DEF EmitShape
  <2> QED
    BY <1>11, <2>1, <1>s
       DEF TypeOK, EmitShape, environment, Concludes, loop, Phases
<1>12. CASE WriteReceipt
  <2>1. disk' \in [receipt : Files, capture : Files, shape : Files]
    BY <1>12 DEF TypeOK, WriteReceipt, Outcome
  <2> QED
    BY <1>12, <2>1, <1>s
       DEF TypeOK, WriteReceipt, EmitFails, environment, Ends, Concludes, loop, Phases
<1>13. CASE WriteCapture
  <2>1. disk' \in [receipt : Files, capture : Files, shape : Files]
    <3>1. Whole("none", dump) \in Files /\ Absent \in Files /\ Torn \in Files
      BY DEF TypeOK
    <3>2. CASE disk' = [disk EXCEPT !.capture = Whole("none", dump)]
      BY <3>1, <3>2 DEF TypeOK
    <3>3. ASSUME NEW capture \in {disk.capture, Torn}, NEW receipt \in {disk.receipt, Absent},
                 disk' = [disk EXCEPT !.capture = capture, !.receipt = receipt]
          PROVE  disk' \in [receipt : Files, capture : Files, shape : Files]
      <4>1. capture \in Files /\ receipt \in Files
        BY <3>1, <3>3 DEF TypeOK
      <4> QED
        BY <3>3, <4>1 DEF TypeOK
    <3> QED
      BY <1>13, <3>2, <3>3 DEF WriteCapture
  <2> QED
    BY <1>13, <2>1, <1>s
       DEF TypeOK, WriteCapture, EmitFails, environment, Ends, Concludes, loop, Phases
<1>14. CASE Classify
  BY <1>14, <1>s DEF TypeOK, Classify, environment, Ends, loop, Phases
<1>15. CASE Tick
  <2>1. quiet' \in Nat /\ elapsed' \in Nat
    <3>1. 1 + (IF phase = "startup" THEN StartupTimeout ELSE DrainTimeout) \in Nat
      BY ScenarioAssumption
    <3> QED
      <4>1. quiet + 1 \in Nat /\ elapsed + 1 \in Nat /\ Quiet \in Nat
        BY ScenarioAssumption DEF TypeOK
      <4>2. /\ Least(quiet + 1, Quiet) \in Nat
            /\ Least(elapsed + 1, 1 + (IF phase = "startup" THEN StartupTimeout
                                                          ELSE DrainTimeout)) \in Nat
        BY <3>1, <4>1, LeastIsNatural, Zenon
      <4> QED
        BY <1>15, <4>2 DEF Tick
  <2> QED
    BY <1>15, <2>1, <1>s DEF TypeOK, Tick, driver
<1>16. ASSUME NEW b \in Batches, Export(b)
       PROVE  TypeOK'
  <2>1. Sink!TypeOK'
    BY <1>16, <1>s, SinkAcknowledges DEF TypeOK, Export
  <2> QED
    BY <1>16, <2>1 DEF TypeOK, Export, driver, loop
<1>17. CASE SinkStops
  BY <1>17, <1>s DEF TypeOK, SinkStops, driver, loop
<1>18. CASE Killed
  BY <1>18, <1>s DEF TypeOK, Killed, environment, Ends, loop, Phases
<1>19. CASE UNCHANGED vars
  BY <1>19, <1>s DEF TypeOK, vars, sink
<1> QED
  BY <1>1, <1>2, <1>3, <1>4, <1>5, <1>6, <1>7, <1>8, <1>9, <1>10, <1>11, <1>12,
     <1>13, <1>14, <1>15, <1>16, <1>17, <1>18, <1>19 DEF Next, Driver

-----------------------------------------------------------------------------
(* What the startup left *)

(* After the reset the driver holds of the startup exactly the logs, and the  *)
(* exporters none of what was erased.                                       *)
LEMMA ErasedStep ==
  ASSUME TypeOK, Apart, StartupErased, [Next]_vars
  PROVE  Apart' /\ StartupErased'
<1>s. ASSUME UNCHANGED sink
      PROVE  kept' = kept
  BY <1>s DEF sink
<1>1. CASE AskStats
  BY <1>1, <1>s
     DEF Apart, StartupErased, AskStats, environment, driver
<1>2. CASE StartupPoll
  BY <1>2, <1>s
     DEF Apart, StartupErased, StartupPoll, environment, Ends, Observe
<1>3. CASE Reset
  <2>1. ASSUME EraseStartup
        PROVE  kept'[Family] = OfSignals(kept[Family], {"logs"})
    <3>1. kept'[Family] = kept[Family] \ OfSignals(Batches, ResetSignals)
      BY <2>1, SinkDiscards DEF TypeOK, EraseStartup
    <3>2. \A b \in kept[Family] :
            b \in Batches /\ b.signal \in {"traces", "metrics", "logs"}
      BY ScenarioAssumption DEF TypeOK, Sink!TypeOK, Batch
    <3> QED
      BY <3>1, <3>2 DEF OfSignals, ResetSignals
  <2>2. kept'[Family] \subseteq kept[Family]
    <3>1. CASE EraseStartup
      BY <2>1, <3>1 DEF OfSignals
    <3>2. CASE UNCHANGED sink
      BY <1>s, <3>2
    <3> QED
      BY <1>3, <3>1, <3>2 DEF Reset
  <2>3. CASE EraseStartup /\ phase' = "start"
    <3>1. kept'[Family] \cap kept[Family] = OfSignals(kept[Family], {"logs"})
      BY <2>1, <2>3 DEF OfSignals
    <3> QED
      BY <1>3, <2>2, <2>3, <3>1 DEF Apart, StartupErased, Reset
  <2>4. CASE phase' = "exit"
    BY <1>3, <2>2, <2>4 DEF Apart, StartupErased, Reset
  <2> QED
    BY <1>3, <2>3, <2>4 DEF Reset, Ends
<1>4. CASE StartWorkload
  <2>1. Startup \cap Work = {}
    BY ScenarioAssumption
  <2> QED
    BY <1>4, <2>1, <1>s DEF Apart, StartupErased, StartWorkload, loop
<1>5. CASE EndWorkload
  BY <1>5, <1>s
     DEF Apart, StartupErased, EndWorkload, environment, Ends, FreshLoop
<1>6. CASE DrainPoll
  BY <1>6, <1>s
     DEF Apart, StartupErased, DrainPoll, environment, Concludes, Observe
<1>7. CASE DrainGivesUp
  BY <1>7, <1>s
     DEF Apart, StartupErased, DrainGivesUp, environment, Concludes, loop
<1>8. CASE TakeDump
  <2>1. kept' = kept
    BY <1>8, <1>s, SinkFreezes DEF TypeOK, TakeDump
  <2> QED
    BY <1>8, <2>1 DEF Apart, StartupErased, TakeDump, Concludes
<1>9. CASE CheckNames
  BY <1>9, <1>s
     DEF Apart, StartupErased, CheckNames, environment, Concludes, loop
<1>10. CASE Judge
  BY <1>10, <1>s
     DEF Apart, StartupErased, Judge, environment, Concludes, loop
<1>11. CASE EmitShape
  BY <1>11, <1>s
     DEF Apart, StartupErased, EmitShape, environment, Concludes, loop
<1>12. CASE WriteReceipt
  BY <1>12, <1>s
     DEF Apart, StartupErased, WriteReceipt, EmitFails, environment, Ends,
     Concludes, loop
<1>13. CASE WriteCapture
  BY <1>13, <1>s
     DEF Apart, StartupErased, WriteCapture, EmitFails, environment, Ends,
     Concludes, loop
<1>14. CASE Classify
  BY <1>14, <1>s
     DEF Apart, StartupErased, Classify, environment, Ends, loop
<1>15. CASE Tick
  BY <1>15, <1>s
     DEF Apart, StartupErased, Tick, driver
<1>16. ASSUME NEW b \in Batches, Export(b)
       PROVE  Apart' /\ StartupErased'
  <2>1. kept'[Family] = kept[Family] \/ kept'[Family] = kept[Family] \cup {b}
    BY <1>16, <1>s, SinkAcknowledges DEF TypeOK, Export
  <2> QED
    BY <1>16, <2>1 DEF Apart, StartupErased, Export, driver
<1>17. CASE SinkStops
  BY <1>17, <1>s
     DEF Apart, StartupErased, SinkStops, driver, loop
<1>18. CASE Killed
  BY <1>18, <1>s
     DEF Apart, StartupErased, Killed, environment, Ends, loop
<1>19. CASE UNCHANGED vars
  BY <1>19, <1>s
     DEF Apart, StartupErased, vars, sink
<1> QED
  BY <1>1, <1>2, <1>3, <1>4, <1>5, <1>6, <1>7, <1>8, <1>9, <1>10, <1>11,
     <1>12, <1>13, <1>14, <1>15, <1>16, <1>17, <1>18, <1>19 DEF Next, Driver

-----------------------------------------------------------------------------
(* What ended the wait *)

(* A poll that moved the counts has seen spans, so what it has settled on is  *)
(* not empty; a quiet one has counted what the last move had.               *)
LEMMA Observed ==
  ASSUME TypeOK, Watches, phase = "drain", Observe
  PROVE  /\ reply'.counted \cup settled' \subseteq kept[Family]
         /\ settled' = {} => last' = NoCounts
         /\ Quiescent => settled' # {}
<1>1. reply.counted \in SUBSET Batches
  BY DEF TypeOK, Replies
<1>2. Counts(reply.counted).spans > 0 => reply.counted # {}
  BY <1>1, CountsAreNumbers
<1>3. CASE Moved
  <2>1. reply.counted # {}
    BY <1>2, <1>3 DEF Moved, Arrived
  <2>2. ~ Quiescent
    BY <1>3 DEF Moved, Quiescent
  <2> QED
    BY <1>3, <2>1, <2>2 DEF Observe, Watches, NoReply
<1>4. CASE ~ Moved
  <2>1. Quiescent => last.spans > 0
    BY DEF Quiescent, Arrived
  <2>2. Quiescent => last # NoCounts
    BY <2>1 DEF NoCounts
  <2> QED
    BY <1>4, <2>2 DEF Observe, Watches, NoReply
<1> QED
  BY <1>3, <1>4

LEMMA SettledStep ==
  ASSUME TypeOK, Watches, SettledIsDumped, [Next]_vars
  PROVE  Watches' /\ SettledIsDumped'
<1>s. ASSUME UNCHANGED sink
      PROVE  kept' = kept
  BY <1>s DEF sink
<1>1. CASE AskStats
  <2>1. reply' = Stats(kept[Family]) \/ reply' = LostReply
    BY <1>1 DEF AskStats
  <2>2. reply'.counted \subseteq kept[Family]
    BY <2>1 DEF Stats, LostReply
  <2> QED
    BY <1>1, <2>2, <1>s
       DEF Watches, SettledIsDumped, AskStats, environment, driver
<1>2. CASE StartupPoll
  <2>1. phase' \in {"startup", "reset", "exit"}
    BY <1>2 DEF StartupPoll, Ends
  <2> QED
    BY <2>1 DEF Watches, SettledIsDumped
<1>3. CASE Reset
  <2>1. phase' \in {"start", "exit"}
    BY <1>3 DEF Reset, Ends
  <2> QED
    BY <2>1 DEF Watches, SettledIsDumped
<1>4. CASE StartWorkload
  BY <1>4, <1>s
     DEF Watches, SettledIsDumped, StartWorkload, loop
<1>5. CASE EndWorkload
  <2>1. reply'.counted = {} /\ settled' = {} /\ last' = NoCounts
    BY <1>5 DEF EndWorkload, FreshLoop, NoReply
  <2>2. phase' \in {"drain", "exit"}
    BY <1>5 DEF EndWorkload, Ends
  <2> QED
    BY <2>1, <2>2 DEF Watches, SettledIsDumped
<1>6. CASE DrainPoll
  <2>1. /\ reply'.counted \cup settled' \subseteq kept[Family]
        /\ settled' = {} => last' = NoCounts
        /\ Quiescent => settled' # {}
    BY <1>6, Observed DEF DrainPoll
  <2>2. kept' = kept /\ dump' = dump
    BY <1>6, <1>s DEF DrainPoll, environment
  <2>3. phase' = "drain" \/ (phase' = "dump" /\ Quiescent)
          \/ (phase' = "classify" /\ verdict' = "error")
    BY <1>6 DEF DrainPoll, Concludes
  <2> QED
    BY <2>1, <2>2, <2>3 DEF Watches, SettledIsDumped
<1>7. CASE DrainGivesUp
  BY <1>7, <1>s
     DEF Watches, SettledIsDumped, DrainGivesUp, environment, Concludes,
     loop
<1>8. CASE TakeDump
  <2>1. kept' = kept
    BY <1>8, <1>s, SinkFreezes DEF TypeOK, TakeDump
  <2> QED
    BY <1>8, <2>1 DEF Watches, SettledIsDumped, TakeDump, Concludes, loop
<1>9. CASE CheckNames
  BY <1>9, <1>s
     DEF Watches, SettledIsDumped, CheckNames, environment, Concludes, loop
<1>10. CASE Judge
  BY <1>10, <1>s
     DEF Watches, SettledIsDumped, Judge, environment, Concludes, loop
<1>11. CASE EmitShape
  BY <1>11, <1>s
     DEF Watches, SettledIsDumped, EmitShape, environment, Concludes, loop
<1>12. CASE WriteReceipt
  BY <1>12, <1>s
     DEF Watches, SettledIsDumped, WriteReceipt, EmitFails, environment,
     Ends, Concludes, loop
<1>13. CASE WriteCapture
  BY <1>13, <1>s
     DEF Watches, SettledIsDumped, WriteCapture, EmitFails, environment,
     Ends, Concludes, loop
<1>14. CASE Classify
  BY <1>14, <1>s
     DEF Watches, SettledIsDumped, Classify, environment, Ends, loop
<1>15. CASE Tick
  BY <1>15, <1>s
     DEF Watches, SettledIsDumped, Tick, driver
<1>16. ASSUME NEW b \in Batches, Export(b)
       PROVE  Watches' /\ SettledIsDumped'
  <2>1. kept[Family] \subseteq kept'[Family]
    BY <1>16, <1>s, SinkAcknowledges DEF TypeOK, Export
  <2> QED
    BY <1>16, <2>1 DEF Watches, SettledIsDumped, Export, driver, loop
<1>17. CASE SinkStops
  BY <1>17, <1>s
     DEF Watches, SettledIsDumped, SinkStops, driver, loop
<1>18. CASE Killed
  BY <1>18, <1>s
     DEF Watches, SettledIsDumped, Killed, environment, Ends, loop
<1>19. CASE UNCHANGED vars
  BY <1>19, <1>s
     DEF Watches, SettledIsDumped, vars, sink
<1> QED
  BY <1>1, <1>2, <1>3, <1>4, <1>5, <1>6, <1>7, <1>8, <1>9, <1>10, <1>11,
     <1>12, <1>13, <1>14, <1>15, <1>16, <1>17, <1>18, <1>19 DEF Next, Driver

-----------------------------------------------------------------------------
(* The evidence *)

Records == Unwritten /\ Written /\ Honest /\ Ended

(* A snapshot only changes with a dump or with the startup reset. *)
LEMMA SnapshotStays ==
  ASSUME TypeOK, [Next]_vars, phase \notin {"reset", "dump"}
  PROVE  taken' = taken /\ snapshot' = snapshot
<1>1. ASSUME NEW b \in Batches, Export(b)
      PROVE  taken' = taken /\ snapshot' = snapshot
  BY <1>1, SinkAcknowledges DEF TypeOK, Export, sink
<1> QED
  BY <1>1 DEF Next, Driver, vars, sink, environment, AskStats, StartupPoll, Reset,
       StartWorkload, EndWorkload, DrainPoll, DrainGivesUp, TakeDump, CheckNames,
       Judge, EmitShape, WriteReceipt, WriteCapture, Classify, Tick, SinkStops,
       Killed

(* What the sink judges after the dump is the dump, whatever arrives. *)
LEMMA JudgedIsDumped ==
  ASSUME Unwritten, phase \in {"check", "judge", "shape"}
  PROVE  Judgement = dump
BY DEF Unwritten, Judgement, Sink!Judged

(* Nothing the records are about changes. *)
LEMMA RecordsStay ==
  ASSUME Records, TypeOK, [Next]_vars,
         UNCHANGED <<options, phase, dump, verdict, disk, exit>>
  PROVE  Records'
<1>1. phase \in {"check", "judge", "shape"} => taken' = taken /\ snapshot' = snapshot
  BY SnapshotStays
<1> QED
  BY <1>1 DEF Records, Unwritten, Written, Honest, Ended, Entitled, Verifiable,
       Refuted, Fit, Outcome, Whole, Nothing, Absent, Torn

LEMMA RecordsStep ==
  ASSUME TypeOK, Records, [Next]_vars
  PROVE  Records'
<1>1. CASE AskStats
  BY <1>1, RecordsStay DEF AskStats, driver, environment
<1>2. CASE StartupPoll
  BY <1>2 DEF Records, Unwritten, Written, Honest, Ended, StartupPoll,
     environment, Ends, Observe
<1>3. CASE Reset
  BY <1>3 DEF Records, Unwritten, Written, Honest, Ended, Reset, Ends, loop
<1>4. CASE StartWorkload
  BY <1>4 DEF Records, Unwritten, Written, Honest, Ended, StartWorkload, loop
<1>5. CASE EndWorkload
  BY <1>5 DEF Records, Unwritten, Written, Honest, Ended, EndWorkload,
     environment, Ends, FreshLoop
<1>6. CASE DrainPoll
  BY <1>6 DEF Records, Unwritten, Written, Honest, Ended, DrainPoll, environment,
     Concludes, Observe
<1>7. CASE DrainGivesUp
  BY <1>7 DEF Records, Unwritten, Written, Honest, Ended, DrainGivesUp,
     environment, Concludes, loop
<1>8. CASE TakeDump
  <2>1. phase' = "check" => taken'[Family] /\ snapshot'[Family] = dump'
    BY <1>8, SinkFreezes DEF TypeOK, TakeDump, Concludes
  <2>2. /\ disk = Nothing /\ disk' = Nothing /\ verdict = "none"
        /\ exit = "running" /\ exit' = exit
        /\ \/ phase' = "check" /\ verdict' = verdict
           \/ phase' = "classify" /\ verdict' = "error"
    BY <1>8 DEF Records, Unwritten, Ended, TakeDump, Concludes
  <2> QED
    BY <2>1, <2>2 DEF Records, Unwritten, Written, Honest, Ended, Nothing, Absent
<1>9. CASE CheckNames
  <2>1. taken' = taken /\ snapshot' = snapshot
    BY <1>9, SnapshotStays DEF CheckNames
  <2> QED
    BY <1>9, <2>1
       DEF Records, Unwritten, Written, Honest, Ended, Fit, Nothing, Absent,
           CheckNames, environment, Concludes
<1>10. CASE Judge
  <2>1. taken' = taken /\ snapshot' = snapshot
    BY <1>10, SnapshotStays DEF Judge
  <2>2. Judgement = dump
    BY <1>10, JudgedIsDumped DEF Records, Judge
  <2>3. NamesEverySignal(dump) /\ disk = Nothing
    BY <1>10 DEF Records, Unwritten, Judge
  <2> QED
    BY <1>10, <2>1, <2>2, <2>3
       DEF Records, Unwritten, Written, Honest, Ended, Entitled, Verifiable, Fit,
           Nothing, Absent, Judge, environment, Concludes
<1>11. CASE EmitShape
  <2>1. Judgement = dump /\ disk = Nothing /\ options.mode = "candidate"
    BY <1>11, JudgedIsDumped DEF Records, Unwritten, EmitShape
  <2>2. /\ disk'.receipt = Absent
        /\ disk'.capture \in {Absent, Torn, Whole("none", dump)}
        /\ disk'.shape \in {Absent, Torn, Whole("none", dump)}
        /\ disk'.shape.form = "whole" => disk'.capture = Whole("none", dump)
    <3>1. CASE disk' = [disk EXCEPT !.capture = Whole("none", dump),
                                    !.shape = Whole("none", Judgement)]
      BY <2>1, <3>1 DEF Nothing
    <3>2. CASE disk' = disk
      BY <2>1, <3>2 DEF Nothing, Absent
    <3>3. CASE disk' = [disk EXCEPT !.capture = Torn]
      BY <2>1, <3>3 DEF Nothing, Absent
    <3>4. ASSUME NEW shape \in {Absent, Torn},
                 disk' = [disk EXCEPT !.capture = Whole("none", dump), !.shape = shape]
          PROVE  /\ disk'.receipt = Absent
                 /\ disk'.capture = Whole("none", dump)
                 /\ disk'.shape \in {Absent, Torn}
      BY <2>1, <3>4 DEF Nothing
    <3> QED
      BY <1>11, <3>1, <3>2, <3>3, <3>4 DEF EmitShape
  <2>3. phase' = "classify" /\ verdict' \in {"accepted", "error"}
    BY <1>11 DEF EmitShape, Concludes
  <2> QED
    BY <1>11, <2>1, <2>2, <2>3
       DEF Records, Unwritten, Written, Honest, Ended, Absent, EmitShape,
           environment, Concludes
<1>12. CASE WriteReceipt
  <2>1. disk = Nothing /\ Entitled
    BY <1>12 DEF Records, Written, WriteReceipt
  <2>2. Whole(Outcome, dump) \in {Whole("verified", dump), Whole("xfail", dump)}
    BY DEF Outcome
  <2>3. CASE disk' = [disk EXCEPT !.receipt = Whole(Outcome, dump)]
               /\ phase' = "capture" /\ UNCHANGED <<verdict, exit>>
    BY <1>12, <2>1, <2>2, <2>3
       DEF Records, Unwritten, Written, Honest, Ended, Entitled, Verifiable,
           Refuted, Outcome, Whole, Nothing, Absent, Torn, WriteReceipt
  <2>4. CASE EmitFails /\ disk'.receipt \in {Absent, Torn}
               /\ disk'.capture = Absent /\ disk'.shape = Absent
    BY <1>12, <2>1, <2>4
       DEF Records, Unwritten, Written, Honest, Ended, EmitFails, Ends, Concludes,
           Absent, Torn, WriteReceipt
  <2> QED
    BY <1>12, <2>1, <2>3, <2>4 DEF WriteReceipt, Nothing
<1>13. CASE WriteCapture
  <2>1. /\ disk = [Nothing EXCEPT !.receipt = Whole(Outcome, dump)]
        /\ Entitled
    BY <1>13 DEF Records, Written, WriteCapture
  <2>2. /\ Whole(Outcome, dump) \in {Whole("verified", dump), Whole("xfail", dump)}
        /\ Outcome = "verified" => Fit(dump)
        /\ Outcome = "xfail" => options.xfail /\ ~ Fit(dump)
    BY <2>1 DEF Outcome, Entitled, Verifiable, Refuted
  <2>3. CASE /\ disk' = [disk EXCEPT !.capture = Whole("none", dump)]
             /\ \/ verdict = "assertion" /\ Ends("passed") /\ UNCHANGED verdict
                \/ verdict # "assertion" /\ Concludes("accepted")
    <3>1. /\ disk'.receipt = Whole(Outcome, dump)
          /\ disk'.capture = Whole("none", dump)
          /\ disk'.shape = Absent
      BY <2>1, <2>3 DEF Nothing
    <3>2. CASE verdict = "assertion" /\ Ends("passed") /\ UNCHANGED verdict
      <4>1. options.xfail /\ Outcome = "xfail"
        BY <2>1, <3>2 DEF Entitled, Refuted, Outcome
      <4> QED
        BY <1>13, <2>2, <3>1, <3>2, <4>1
           DEF Records, Unwritten, Written, Honest, Ended, Ends, Whole, Absent,
               WriteCapture
    <3>3. CASE verdict # "assertion" /\ Concludes("accepted")
      <4>1. Outcome = "verified"
        BY <3>3 DEF Outcome
      <4> QED
        BY <1>13, <2>2, <3>1, <3>3, <4>1
           DEF Records, Unwritten, Written, Honest, Ended, Concludes, Whole, Absent,
               WriteCapture
    <3> QED
      BY <2>3, <3>2, <3>3
  <2>4. ASSUME NEW capture \in {disk.capture, Torn}, NEW receipt \in {disk.receipt, Absent},
               disk' = [disk EXCEPT !.capture = capture, !.receipt = receipt],
               EmitFails
        PROVE  Records'
    <3>1. /\ disk'.receipt \in {Whole(Outcome, dump), Absent}
          /\ disk'.capture \in {Absent, Torn}
          /\ disk'.shape = Absent
      BY <2>1, <2>4 DEF Nothing
    <3>2. /\ disk'.receipt.outcome = "verified" => Fit(dump)
          /\ disk'.receipt.outcome = "xfail" => options.xfail /\ ~ Fit(dump)
      BY <2>2, <3>1 DEF Whole, Absent
    <3>3. \/ phase' = "classify" /\ verdict' = "error" /\ exit' = exit
          \/ phase' = "exit" /\ exit' = "failed"
      BY <2>4 DEF EmitFails, Ends, Concludes
    <3> QED
      BY <1>13, <2>2, <3>1, <3>2, <3>3
         DEF Records, Unwritten, Written, Honest, Ended, Absent, WriteCapture
  <2> QED
    BY <1>13, <2>3, <2>4 DEF WriteCapture
<1>14. CASE Classify
  <2>1. CASE phase' = "receipt"
    <3>1. options.xfail /\ options.revision /\ verdict = "assertion" /\ exit' = exit
      BY <1>14, <2>1 DEF Classify, Ends
    <3> QED
      BY <1>14, <2>1, <3>1
         DEF Records, Unwritten, Written, Honest, Ended, Entitled, Refuted, Classify
  <2>2. CASE phase' = "exit"
    BY <1>14, <2>2
       DEF Records, Unwritten, Written, Honest, Ended, Classify, Ends
  <2> QED
    BY <1>14, <2>1, <2>2 DEF Classify, Ends
<1>15. CASE Tick
  BY <1>15, RecordsStay DEF Tick, driver
<1>16. ASSUME NEW b \in Batches, Export(b)
       PROVE  Records'
  BY <1>16, RecordsStay DEF Export, driver
<1>17. CASE SinkStops
  BY <1>17, RecordsStay DEF SinkStops, driver
<1>18. CASE Killed
  BY <1>18 DEF Records, Unwritten, Written, Honest, Ended, Killed, Ends
<1>19. CASE UNCHANGED vars
  BY <1>19, RecordsStay DEF vars
<1> QED
  BY <1>1, <1>2, <1>3, <1>4, <1>5, <1>6, <1>7, <1>8, <1>9, <1>10, <1>11,
     <1>12, <1>13, <1>14, <1>15, <1>16, <1>17, <1>18, <1>19 DEF Next, Driver

-----------------------------------------------------------------------------
(* The theorems *)

LEMMA InitialStates ==
  Init => IInv
<1> SUFFICES ASSUME Init
             PROVE  IInv
  OBVIOUS
<1>1. /\ Sink!TypeOK
      /\ kept[Family] = {} /\ taken[Family] = FALSE /\ snapshot[Family] = {}
  BY DEF Init, Sink!Init, Sink!TypeOK
<1>2. TypeOK
  BY <1>1, FilesAreFiles DEF Init, TypeOK, Phases, Batches
<1>3. Apart /\ StartupErased
  BY <1>1 DEF Init, Apart, StartupErased
<1>4. Watches /\ SettledIsDumped
  BY DEF Init, Watches, SettledIsDumped
<1>5. Records
  BY DEF Init, Records, Unwritten, Written, Honest, Ended, Nothing, Absent
<1> QED
  BY <1>2, <1>3, <1>4, <1>5 DEF IInv, Records

(* The invariant holds whatever the exporters, the sink, the file system and  *)
(* the test runner do: each part is kept by every step.                      *)
THEOREM InductiveInvariant ==
  Spec => []IInv
<1>1. ASSUME IInv, [Next]_vars
      PROVE  IInv'
  BY <1>1, TypeStep, ErasedStep, SettledStep, RecordsStep DEF IInv, Records
<1> QED
  BY InitialStates, <1>1, PTL DEF Spec

(* Every variable of the driver keeps its type, for every set of batches,     *)
(* contract, quota and timeout.                                             *)
THEOREM TypeCorrect ==
  Spec => []TypeOK
<1>1. IInv => TypeOK
  BY DEF IInv
<1> QED
  BY InductiveInvariant, <1>1, PTL

(* resetStartupTelemetryAt erases exactly the traces and metrics the sink     *)
(* held, and nothing of them comes back.                                    *)
THEOREM StartupIsErased ==
  Spec => []StartupErased
<1>1. IInv => StartupErased
  BY DEF IInv
<1> QED
  BY InductiveInvariant, <1>1, PTL

(* requireExportedTelemetry dumps at least what made it stop waiting, and     *)
(* that is never nothing.                                                   *)
THEOREM WhatSettledIsDumped ==
  Spec => []SettledIsDumped
<1>1. IInv => SettledIsDumped
  BY DEF IInv
<1> QED
  BY InductiveInvariant, <1>1, PTL

(* emitReceipt never writes a receipt that says more than the judgement of    *)
(* the very capture it names.                                               *)
THEOREM ReceiptsTellTheTruth ==
  Spec => []ReceiptTellsTruth
<1>1. Honest => ReceiptTellsTruth
  <2> SUFFICES ASSUME Honest
               PROVE  ReceiptTellsTruth
    OBVIOUS
  <2>1. disk.receipt.outcome \in {"verified", "xfail"} => disk.receipt.capture = dump
    BY DEF Honest, Whole, Absent, Torn
  <2> QED
    BY <2>1 DEF Honest, ReceiptTellsTruth, Fit
<1>2. IInv => ReceiptTellsTruth
  BY <1>1 DEF IInv
<1> QED
  BY InductiveInvariant, <1>2, PTL

(* The receipt, the capture and the shape of a scenario are of one dump, and  *)
(* complete when the driver passes, whichever write failed.                  *)
THEOREM EvidenceOfOneDump ==
  Spec => []EvidenceAgrees
<1>1. Honest /\ Ended => EvidenceAgrees
  <2> SUFFICES ASSUME Honest, Ended
               PROVE  EvidenceAgrees
    OBVIOUS
  <2>1. disk.receipt.form = "whole" => disk.receipt.capture = dump
    BY DEF Honest, Whole, Absent, Torn
  <2>2. disk.capture.form = "whole" => disk.capture.capture = dump
    BY DEF Honest, Whole, Absent, Torn
  <2>3. disk.shape.form = "whole" =>
          disk.shape.capture = dump /\ disk.capture.form = "whole"
    BY DEF Honest, Whole, Absent, Torn
  <2> QED
    BY <2>1, <2>2, <2>3 DEF Ended, EvidenceAgrees
<1>2. IInv => EvidenceAgrees
  BY <1>1 DEF IInv
<1> QED
  BY InductiveInvariant, <1>2, PTL
=============================================================================
