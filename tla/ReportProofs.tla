----------------------------- MODULE ReportProofs -----------------------------
(***************************************************************************)
(* Proofs about ReportCommand, for every manifest, plan, shape, test suite    *)
(* and number of disturbances: the inductive invariant says that every output *)
(* on disk, and every one the command has read, was left by a run that was    *)
(* judged, no older than the test run whose events list it.                  *)
(***************************************************************************)
EXTENDS ReportCommand, TLAPS

\* A run of the ledger that left an output.
Left(entry, since) ==
  \E run \in ledger : entry = Files(run) /\ run.at >= since

\* An attempt judges a scenario once.
LedgerLegal ==
  /\ \A run \in ledger : /\ run.key \in Pairs /\ run.outcome \in Outcomes
                        /\ run.at \in Nat /\ run.at <= clock
  /\ \A one, other \in ledger : one.key = other.key /\ one.at = other.at => one = other

ClockLegal == clock \in Nat /\ invocation.since \in Nat /\ invocation.since <= clock + 1

\* The outputs that an uncached test run lists are its own, or newer.
DiskIsTraceable ==
  \A path \in Attempts : \A entry \in disk[path].entries :
    /\ Left(entry, 0)
    /\ path \in invocation.listed /\ invocation.uncached => Left(entry, invocation.since)

CommandIsTraceable ==
  \A entry \in command.entries : Left(entry, command.since)

AcceptedIsAcceptable == command.stage \in {"accepted", "written"} => Acceptable

ReportIsDerived ==
  report.written => command.stage = "written" /\ report = Report /\ CanBuild

\* The records have their fields.
RecordsLegal ==
  /\ command = [stage |-> command.stage, revision |-> command.revision,
                plans |-> command.plans, shapes |-> command.shapes,
                entries |-> command.entries, since |-> command.since]
  /\ invocation = [uncached |-> invocation.uncached, since |-> invocation.since,
                   of |-> invocation.of, pending |-> invocation.pending,
                   listed |-> invocation.listed]
  /\ DOMAIN disk = Attempts
  /\ \A path \in Attempts :
       disk[path] = [entries |-> disk[path].entries, passed |-> disk[path].passed,
                     readable |-> disk[path].readable, of |-> disk[path].of]

IInv ==
  /\ LedgerLegal /\ ClockLegal /\ DiskIsTraceable /\ CommandIsTraceable
  /\ AcceptedIsAcceptable /\ ReportIsDerived /\ RecordsLegal
-----------------------------------------------------------------------------
(* The initial state, and what the steps have in common.                     *)

LEMMA InitialStates == Init => IInv
  <1> SUFFICES ASSUME Init PROVE IInv
    OBVIOUS
  <1>1. /\ clock = 0 /\ ledger = {} /\ command = NoCommand /\ report = NoReport
        /\ invocation = NoInvocation /\ disk = [path \in Attempts |-> NoOutputs]
    BY DEF Init
  <1>2. LedgerLegal /\ ClockLegal
    BY <1>1 DEF LedgerLegal, ClockLegal, NoInvocation
  <1>3. DiskIsTraceable
    BY <1>1 DEF DiskIsTraceable, NoOutputs
  <1>4. CommandIsTraceable /\ AcceptedIsAcceptable /\ ReportIsDerived
    BY <1>1 DEF CommandIsTraceable, AcceptedIsAcceptable, ReportIsDerived, NoCommand, NoReport
  <1>5. RecordsLegal
    BY <1>1 DEF RecordsLegal, NoCommand, NoInvocation, NoOutputs
  <1> QED
    BY <1>2, <1>3, <1>4, <1>5 DEF IInv

\* What the command has read decides what it accepts and says.
LEMMA SameInputs ==
  ASSUME command'.revision = command.revision, command'.plans = command.plans,
         command'.shapes = command.shapes, command'.entries = command.entries
  PROVE  /\ Acceptable' <=> Acceptable
         /\ Report' = Report
         /\ CanBuild' <=> CanBuild
  <1>1. Acceptable' <=> Acceptable
    BY DEF Acceptable, ValidateReceiptSetForProfiles, Accepts
  <1>2. \A p : Claims(p)' = Claims(p)
    BY DEF Claims
  <1>3. Report' = Report
    <2>1. Verifications' = Verifications
      BY <1>2 DEF Verifications, Verification
    <2>2. Coverages' = Coverages
      BY DEF Coverages
    <2>3. Checks' = Checks
      BY DEF Checks
    <2>4. Captures' = Captures
      BY DEF Captures
    <2> QED
      BY <2>1, <2>2, <2>3, <2>4 DEF Report
  <1>4. CanBuild' <=> CanBuild
    BY <1>2 DEF CanBuild
  <1> QED
    BY <1>1, <1>3, <1>4

\* A step that leaves the command and the report alone.
LEMMA CommandKept ==
  ASSUME IInv, command' = command, report' = report,
         \A entry, since : Left(entry, since) => Left(entry, since)'
  PROVE  CommandIsTraceable' /\ AcceptedIsAcceptable' /\ ReportIsDerived'
  <1>1. CommandIsTraceable'
    BY DEF IInv, CommandIsTraceable
  <1>2. /\ Acceptable' <=> Acceptable
        /\ Report' = Report
        /\ CanBuild' <=> CanBuild
    BY SameInputs
  <1> QED
    BY <1>1, <1>2 DEF IInv, AcceptedIsAcceptable, ReportIsDerived

-----------------------------------------------------------------------------
(* The steps.                                                                *)

LEMMA ExecuteStep ==
  ASSUME IInv, NEW test \in Tests, NEW attempt, NEW of,
         NEW outcomes \in [test.scenarios -> Outcomes],
         Execute(test, attempt, outcomes, of)
  PROVE  /\ clock' = clock + 1 /\ LedgerLegal'
         /\ \A entry, since : Left(entry, since) => Left(entry, since)'
         /\ \A path \in Attempts : \A entry \in disk'[path].entries :
              \/ Left(entry, clock)'
              \/ entry \in disk[path].entries /\ path # <<test, attempt>>
         /\ DOMAIN disk' = Attempts
         /\ \A path \in Attempts :
              disk'[path] = [entries |-> disk'[path].entries, passed |-> disk'[path].passed,
                             readable |-> disk'[path].readable, of |-> disk'[path].of]
  <1> DEFINE runs == Runs(test, outcomes, of)
  <1>1. clock' = clock + 1 /\ ledger' = ledger \cup runs /\ clock \in Nat
    BY DEF Execute, IInv, ClockLegal
  <1> DEFINE runOf(s) ==
        [key |-> <<test.profile, s>>, revision |-> of.revision,
         plan |-> Plans(of.tree)[test.profile],
         shape |-> ShapeOf(of.tree.shapes, <<test.profile, s>>),
         outcome |-> outcomes[s], at |-> clock + 1]
  <1>a. \A run \in runs : \E s \in test.scenarios : run = runOf(s)
    BY DEF Runs
  <1>b. \A s : /\ runOf(s).key = <<test.profile, s>> /\ runOf(s).outcome = outcomes[s]
               /\ runOf(s).at = clock + 1
    OBVIOUS
  <1> HIDE DEF runs, runOf
  <1>2. ASSUME NEW run \in runs
        PROVE  run.key \in Pairs /\ run.outcome \in Outcomes /\ run.at = clock + 1
    <2>1. PICK s \in test.scenarios : run = runOf(s)
      BY <1>a
    <2>2. test.profile \in ProfileSet /\ s \in Declared[test.profile]
      BY TestsAssumption
    <2>3. <<test.profile, s>> \in Pairs
      BY <2>2 DEF Pairs, Scenarios
    <2> QED
      BY <2>1, <2>3, <1>b
  <1>3. \A one, other \in runs : one.key = other.key => one = other
    <2> SUFFICES ASSUME NEW one \in runs, NEW other \in runs, one.key = other.key
                 PROVE  one = other
      OBVIOUS
    <2>1. PICK s \in test.scenarios : one = runOf(s)
      BY <1>a
    <2>2. PICK s2 \in test.scenarios : other = runOf(s2)
      BY <1>a
    <2>3. s = s2
      BY <2>1, <2>2, <1>b
    <2> QED
      BY <2>1, <2>2, <2>3
  <1>4. LedgerLegal'
    <2> HIDE DEF runs
    <2>1. \A run \in ledger : run.at \in Nat /\ run.at <= clock
      BY DEF IInv, LedgerLegal
    <2>2. \A run \in ledger' : /\ run.key \in Pairs /\ run.outcome \in Outcomes
                              /\ run.at \in Nat /\ run.at <= clock'
      BY <1>1, <1>2, <2>1 DEF IInv, LedgerLegal
    <2>3. ASSUME NEW one \in ledger', NEW other \in ledger',
                 one.key = other.key, one.at = other.at
          PROVE  one = other
      <3>1. CASE one \in ledger /\ other \in ledger
        BY <3>1, <2>3 DEF IInv, LedgerLegal
      <3>2. CASE one \in runs /\ other \in runs
        BY <3>2, <2>3, <1>3
      <3>3. CASE one \in ledger /\ other \in runs
        BY <3>3, <2>3, <1>1, <1>2, <2>1
      <3>4. CASE one \in runs /\ other \in ledger
        BY <3>4, <2>3, <1>1, <1>2, <2>1
      <3> QED
        BY <3>1, <3>2, <3>3, <3>4, <1>1
    <2> QED
      BY <2>2, <2>3 DEF LedgerLegal
  <1>5. \A entry, since : Left(entry, since) => Left(entry, since)'
    BY <1>1 DEF Left
  <1>6. ASSUME NEW path \in Attempts
        PROVE  /\ \A entry \in disk'[path].entries :
                    \/ Left(entry, clock)'
                    \/ entry \in disk[path].entries /\ path # <<test, attempt>>
               /\ disk'[path] = [entries |-> disk'[path].entries, passed |-> disk'[path].passed,
                                 readable |-> disk'[path].readable, of |-> disk'[path].of]
    <2> DEFINE left == {Files(run) : run \in {run \in runs : run.outcome # "failed"}}
    <2>1. disk'[path] = IF path = <<test, attempt>>
                        THEN [entries |-> left, passed |-> Passed(outcomes),
                              readable |-> TRUE, of |-> of]
                        ELSE IF path[1] = test /\ attempt = 1 THEN NoOutputs
                        ELSE disk[path]
      BY DEF Execute, runs
    <2>2. CASE path = <<test, attempt>>
      <3>1. \A entry \in left : Left(entry, clock)'
        <4> SUFFICES ASSUME NEW entry \in left PROVE Left(entry, clock)'
          OBVIOUS
        <4>1. PICK run \in runs : entry = Files(run)
          OBVIOUS
        <4>2. run \in ledger' /\ run.at = clock + 1 /\ clock + 1 \in Nat
          BY <1>1, <1>2
        <4>3. run.at >= clock'
          BY <4>2, <1>1
        <4> QED
          BY <4>1, <4>2, <4>3 DEF Left
      <3>2. disk'[path] = [entries |-> left, passed |-> Passed(outcomes),
                           readable |-> TRUE, of |-> of]
        BY <2>1, <2>2
      <3> HIDE DEF left
      <3>3. disk'[path].entries = left
        BY <3>2
      <3> QED
        BY <3>1, <3>2, <3>3
    <2>3. CASE path # <<test, attempt>> /\ path[1] = test /\ attempt = 1
      <3>1. disk'[path] = NoOutputs
        BY <2>1, <2>3
      <3> QED
        BY <3>1 DEF NoOutputs
    <2>4. CASE path # <<test, attempt>> /\ ~(path[1] = test /\ attempt = 1)
      BY <2>1, <2>4 DEF IInv, RecordsLegal
    <2> QED
      BY <2>2, <2>3, <2>4
  <1> QED
    BY <1>1, <1>4, <1>5, <1>6 DEF Execute

\* The steps that judge no scenario keep what the ledger says.
LEMMA LedgerKept ==
  ASSUME IInv, UNCHANGED <<clock, ledger>>
  PROVE  /\ LedgerLegal'
         /\ \A entry, since : Left(entry, since) => Left(entry, since)'
  <1>1. LedgerLegal'
    BY DEF IInv, LedgerLegal
  <1>2. \A entry, since : Left(entry, since) => Left(entry, since)'
    BY DEF Left
  <1> QED
    BY <1>1, <1>2

\* What was just left is no older than anything.
LEMMA LeftNow ==
  ASSUME LedgerLegal', ClockLegal'
  PROVE  \A entry, since : since \in Nat /\ since <= clock' /\ Left(entry, clock)' => Left(entry, since)'
  <1> SUFFICES ASSUME NEW entry, NEW since \in Nat, since <= clock', Left(entry, clock)'
               PROVE  Left(entry, since)'
    OBVIOUS
  <1>1. PICK run \in ledger' : entry = Files(run) /\ run.at >= clock'
    BY DEF Left
  <1>2. run.at \in Nat /\ clock' \in Nat
    BY DEF LedgerLegal, ClockLegal
  <1>3. run.at >= since
    BY <1>1, <1>2
  <1> QED
    BY <1>1, <1>3 DEF Left

LEMMA RunTestStep ==
  ASSUME IInv, NEW test \in Tests, NEW outcomes \in [test.scenarios -> Outcomes],
         RunTest(test, outcomes)
  PROVE  IInv'
  <1> DEFINE attempt == Tries(test) + 1
  <1>1. Execute(test, attempt, outcomes, invocation.of) /\ command' = command /\ report' = report
    BY DEF RunTest
  <1>2. /\ invocation' = [invocation EXCEPT
             !.pending = IF Passed(outcomes) \/ attempt = MaxAttempts THEN @ \ {test} ELSE @,
             !.listed = @ \cup {<<test, attempt>>}]
        /\ invocation'.uncached = invocation.uncached /\ invocation'.since = invocation.since
        /\ invocation'.listed = invocation.listed \cup {<<test, attempt>>}
    BY DEF RunTest, IInv, RecordsLegal
  <1> HIDE DEF attempt
  <1>3. clock' = clock + 1 /\ LedgerLegal'
    BY <1>1, ExecuteStep
  <1>4. \A entry, since : Left(entry, since) => Left(entry, since)'
    BY <1>1, ExecuteStep
  <1>5. \A path \in Attempts : \A entry \in disk'[path].entries :
           \/ Left(entry, clock)'
           \/ entry \in disk[path].entries /\ path # <<test, attempt>>
    BY <1>1, ExecuteStep
  <1>6. ClockLegal'
    BY <1>2, <1>3 DEF IInv, ClockLegal
  <1>7. \A entry, since : since \in Nat /\ since <= clock' /\ Left(entry, clock)' => Left(entry, since)'
    BY <1>3, <1>6, LeftNow
  <1>8. DiskIsTraceable'
    <2> SUFFICES ASSUME NEW path \in Attempts, NEW entry \in disk'[path].entries
                 PROVE  /\ Left(entry, 0)'
                        /\ path \in invocation'.listed /\ invocation'.uncached
                             => Left(entry, invocation.since)'
      BY DEF DiskIsTraceable
    <2>1. CASE Left(entry, clock)'
      <3>1. 0 <= clock' /\ invocation'.since \in Nat /\ invocation'.since <= clock'
        BY <1>2, <1>3 DEF IInv, ClockLegal
      <3>2. Left(entry, 0)'
        BY <2>1, <1>7, <3>1
      <3>3. Left(entry, invocation.since)'
        BY <2>1, <1>7, <3>1
      <3> QED
        BY <3>2, <3>3
    <2>2. CASE entry \in disk[path].entries /\ path # <<test, attempt>>
      <3>1. /\ Left(entry, 0)
            /\ path \in invocation.listed /\ invocation.uncached
                 => Left(entry, invocation.since)
        BY <2>2 DEF IInv, DiskIsTraceable
      <3>2. Left(entry, 0)'
        BY <3>1, <1>4
      <3>3. Left(entry, invocation.since) => Left(entry, invocation.since)'
        BY <1>2, <1>4
      <3> QED
        BY <3>1, <3>2, <3>3, <2>2, <1>2
    <2> QED
      BY <2>1, <2>2, <1>5
  <1>9. CommandIsTraceable' /\ AcceptedIsAcceptable' /\ ReportIsDerived'
    BY <1>1, <1>4, CommandKept
  <1>10. RecordsLegal'
    <2>1. /\ DOMAIN disk' = Attempts
          /\ \A path \in Attempts :
               disk'[path] = [entries |-> disk'[path].entries, passed |-> disk'[path].passed,
                              readable |-> disk'[path].readable, of |-> disk'[path].of]
      BY <1>1, ExecuteStep
    <2>2. invocation' = [uncached |-> invocation'.uncached, since |-> invocation'.since,
                         of |-> invocation'.of, pending |-> invocation'.pending,
                         listed |-> invocation'.listed]
      BY <1>2 DEF IInv, RecordsLegal
    <2> QED
      BY <2>1, <2>2, <1>1 DEF IInv, RecordsLegal
  <1> QED
    BY <1>3, <1>6, <1>8, <1>9, <1>10 DEF IInv

LEMMA RunAsideStep ==
  ASSUME IInv, NEW test \in Tests, NEW outcomes \in [test.scenarios -> Outcomes],
         RunAside(test, outcomes)
  PROVE  IInv'
  <1>1. /\ Execute(test, 1, outcomes, Here)
        /\ command' = command /\ report' = report /\ invocation' = invocation
    BY DEF RunAside
  <1>2. clock' = clock + 1 /\ LedgerLegal'
    BY <1>1, ExecuteStep
  <1>3. \A entry, since : Left(entry, since) => Left(entry, since)'
    BY <1>1, ExecuteStep
  <1>4. \A path \in Attempts : \A entry \in disk'[path].entries :
           \/ Left(entry, clock)'
           \/ entry \in disk[path].entries /\ path # <<test, 1>>
    BY <1>1, ExecuteStep
  <1>5. ClockLegal'
    BY <1>1, <1>2 DEF IInv, ClockLegal
  <1>6. DiskIsTraceable'
    <2> SUFFICES ASSUME NEW path \in Attempts, NEW entry \in disk'[path].entries
                 PROVE  /\ Left(entry, 0)'
                        /\ path \in invocation'.listed /\ invocation'.uncached
                             => Left(entry, invocation.since)'
      BY DEF DiskIsTraceable
    <2>1. CASE Left(entry, clock)'
      <3>1. 0 <= clock' /\ invocation'.since \in Nat /\ invocation'.since <= clock'
        BY <1>1, <1>2 DEF IInv, ClockLegal
      <3>2. Left(entry, 0)'
        BY <2>1, <3>1, LeftNow, <1>2, <1>5
      <3>3. Left(entry, invocation.since)'
        BY <2>1, <3>1, LeftNow, <1>2, <1>5
      <3> QED
        BY <3>2, <3>3
    <2>2. CASE entry \in disk[path].entries
      <3>1. /\ Left(entry, 0)
            /\ path \in invocation.listed /\ invocation.uncached
                 => Left(entry, invocation.since)
        BY <2>2 DEF IInv, DiskIsTraceable
      <3>2. Left(entry, 0)'
        BY <3>1, <1>3
      <3>3. Left(entry, invocation.since) => Left(entry, invocation.since)'
        BY <1>1, <1>3
      <3> QED
        BY <3>1, <3>2, <3>3, <1>1
    <2> QED
      BY <2>1, <2>2, <1>4
  <1>7. CommandIsTraceable' /\ AcceptedIsAcceptable' /\ ReportIsDerived'
    BY <1>1, <1>3, CommandKept
  <1>8. RecordsLegal'
    <2>1. /\ DOMAIN disk' = Attempts
          /\ \A path \in Attempts :
               disk'[path] = [entries |-> disk'[path].entries, passed |-> disk'[path].passed,
                              readable |-> disk'[path].readable, of |-> disk'[path].of]
      BY <1>1, ExecuteStep
    <2> QED
      BY <2>1, <1>1 DEF IInv, RecordsLegal
  <1> QED
    BY <1>2, <1>5, <1>6, <1>7, <1>8 DEF IInv

\* Starting a test run, leaving a test out, taking over what it left before,
\* editing and losing outputs: none judges a scenario or moves the command.
LEMMA WorldStep ==
  ASSUME IInv,
         \/ \E uncached \in BOOLEAN : StartTests(uncached)
         \/ \E test \in Tests : SkipTest(test) \/ ReuseTest(test)
         \/ \E newTree \in Trees : \E newRevision \in revision..(revision + 1) :
              Edit(newTree, newRevision)
         \/ \E path \in Attempts : Lose(path)
  PROVE  IInv'
  <1>1. UNCHANGED <<clock, ledger, command, report>>
    BY DEF StartTests, SkipTest, ReuseTest, Edit, Lose
  <1>2. /\ DOMAIN disk' = Attempts
        /\ \A path \in Attempts :
             /\ disk'[path].entries = disk[path].entries
             /\ disk'[path] = [entries |-> disk'[path].entries, passed |-> disk'[path].passed,
                               readable |-> disk'[path].readable, of |-> disk'[path].of]
    <2>1. CASE \E path \in Attempts : Lose(path)
      <3>1. PICK lost \in Attempts : Lose(lost)
        BY <2>1
      <3>2. disk' = [disk EXCEPT ![lost].readable = FALSE] /\ DOMAIN disk = Attempts
        BY <3>1 DEF Lose, IInv, RecordsLegal
      <3>3. ASSUME NEW path \in Attempts
            PROVE  disk'[path] = [entries |-> disk[path].entries, passed |-> disk[path].passed,
                                  readable |-> IF path = lost THEN FALSE ELSE disk[path].readable,
                                  of |-> disk[path].of]
        <4>1. disk[path] = [entries |-> disk[path].entries, passed |-> disk[path].passed,
                            readable |-> disk[path].readable, of |-> disk[path].of]
          BY DEF IInv, RecordsLegal
        <4>2. disk'[path] = IF path = lost THEN [disk[path] EXCEPT !.readable = FALSE]
                            ELSE disk[path]
          BY <3>2
        <4> QED
          BY <4>1, <4>2
      <3>4. DOMAIN disk' = Attempts
        BY <3>2
      <3>5. ASSUME NEW path \in Attempts
            PROVE  /\ disk'[path].entries = disk[path].entries
                   /\ disk'[path] = [entries |-> disk'[path].entries,
                                     passed |-> disk'[path].passed,
                                     readable |-> disk'[path].readable, of |-> disk'[path].of]
        <4>1. disk'[path] = [entries |-> disk[path].entries, passed |-> disk[path].passed,
                             readable |-> IF path = lost THEN FALSE ELSE disk[path].readable,
                             of |-> disk[path].of]
          BY <3>3
        <4>2. /\ disk'[path].entries = disk[path].entries
              /\ disk'[path].passed = disk[path].passed
              /\ disk'[path].readable = IF path = lost THEN FALSE ELSE disk[path].readable
              /\ disk'[path].of = disk[path].of
          BY <4>1
        <4> QED
          BY <4>1, <4>2
      <3> QED
        BY <3>4, <3>5
    <2>2. CASE disk' = disk
      BY <2>2 DEF IInv, RecordsLegal
    <2> QED
      BY <2>1, <2>2 DEF StartTests, SkipTest, ReuseTest, Edit
  <1>3. /\ invocation' = [uncached |-> invocation'.uncached, since |-> invocation'.since,
                          of |-> invocation'.of, pending |-> invocation'.pending,
                          listed |-> invocation'.listed]
        /\ \/ invocation'.since = clock + 1 /\ invocation'.listed = {}
           \/ /\ invocation'.since = invocation.since
              /\ invocation'.uncached = invocation.uncached
              /\ invocation'.uncached => invocation'.listed = invocation.listed
    <2>1. CASE \E uncached \in BOOLEAN : StartTests(uncached)
      BY <2>1 DEF StartTests
    <2>2. CASE invocation' = invocation
      BY <2>2 DEF IInv, RecordsLegal
    <2>3. ASSUME NEW test \in Tests, SkipTest(test)
          PROVE  /\ invocation' = [uncached |-> invocation.uncached, since |-> invocation.since,
                                   of |-> invocation.of, pending |-> invocation.pending \ {test},
                                   listed |-> invocation.listed]
      BY <2>3 DEF SkipTest, IInv, RecordsLegal
    <2>4. ASSUME NEW test \in Tests, ReuseTest(test)
          PROVE  /\ ~invocation.uncached
                 /\ invocation' = [uncached |-> invocation.uncached, since |-> invocation.since,
                                   of |-> invocation.of, pending |-> invocation.pending \ {test},
                                   listed |-> invocation.listed \cup {<<test, 1>>}]
      BY <2>4 DEF ReuseTest, IInv, RecordsLegal
    <2>5. CASE \E test \in Tests : SkipTest(test)
      BY <2>5, <2>3
    <2>6. CASE \E test \in Tests : ReuseTest(test)
      BY <2>6, <2>4
    <2> QED
      BY <2>1, <2>2, <2>5, <2>6 DEF Edit, Lose
  <1>4. LedgerLegal'
    BY <1>1, LedgerKept
  <1>5. \A entry, since : Left(entry, since) => Left(entry, since)'
    BY <1>1, LedgerKept
  <1>6. ClockLegal'
    BY <1>1, <1>3 DEF IInv, ClockLegal
  <1>7. DiskIsTraceable'
    <2> SUFFICES ASSUME NEW path \in Attempts, NEW entry \in disk[path].entries
                 PROVE  /\ Left(entry, 0)'
                        /\ path \in invocation'.listed /\ invocation'.uncached
                             => Left(entry, invocation.since)'
      BY <1>2 DEF DiskIsTraceable
    <2>1. /\ Left(entry, 0)
          /\ path \in invocation.listed /\ invocation.uncached
               => Left(entry, invocation.since)
      BY DEF IInv, DiskIsTraceable
    <2>2. Left(entry, 0)'
      BY <2>1, <1>5
    <2>3. ASSUME path \in invocation'.listed, invocation'.uncached
          PROVE  Left(entry, invocation.since)'
      <3>1. /\ invocation'.since = invocation.since
            /\ path \in invocation.listed /\ invocation.uncached
        BY <2>3, <1>3
      <3> QED
        BY <3>1, <2>1, <1>5
    <2> QED
      BY <2>2, <2>3
  <1>8. CommandIsTraceable' /\ AcceptedIsAcceptable' /\ ReportIsDerived'
    BY <1>1, <1>5, CommandKept
  <1>9. RecordsLegal'
    BY <1>1, <1>2, <1>3 DEF IInv, RecordsLegal
  <1> QED
    BY <1>4, <1>6, <1>7, <1>8, <1>9 DEF IInv

\* The command gives up.
LEMMA FailStep ==
  ASSUME IInv, Fail, command.stage \in {"loaded", "collected", "accepted"}
  PROVE  IInv'
  <1>1. /\ UNCHANGED <<revision, tree, clock, ledger, disk, invocation, report>>
        /\ command' = [stage |-> "failed", revision |-> command.revision,
                       plans |-> command.plans, shapes |-> command.shapes,
                       entries |-> command.entries, since |-> command.since]
    BY DEF Fail, world, IInv, RecordsLegal
  <1>2. LedgerLegal'
    BY <1>1, LedgerKept
  <1>3. \A entry, since : Left(entry, since) => Left(entry, since)'
    BY <1>1, LedgerKept
  <1>4. ClockLegal' /\ DiskIsTraceable'
    BY <1>1, <1>3 DEF IInv, ClockLegal, DiskIsTraceable
  <1>5. CommandIsTraceable'
    BY <1>1, <1>3 DEF IInv, CommandIsTraceable
  <1>6. AcceptedIsAcceptable' /\ ReportIsDerived'
    BY <1>1 DEF IInv, AcceptedIsAcceptable, ReportIsDerived
  <1>7. RecordsLegal'
    BY <1>1 DEF IInv, RecordsLegal
  <1> QED
    BY <1>2, <1>4, <1>5, <1>6, <1>7 DEF IInv

LEMMA LoadStep ==
  ASSUME IInv, NEW given, LoadReportManifest(given)
  PROVE  IInv'
  <1>1. /\ UNCHANGED <<revision, tree, clock, ledger, disk, invocation, report>>
        /\ command.stage = "idle"
        /\ command' = [stage |-> "loaded", revision |-> given,
                       plans |-> Plans(tree), shapes |-> tree.shapes,
                       entries |-> command.entries, since |-> command.since]
    BY DEF LoadReportManifest, world, IInv, RecordsLegal
  <1>2. LedgerLegal'
    BY <1>1, LedgerKept
  <1>3. \A entry, since : Left(entry, since) => Left(entry, since)'
    BY <1>1, LedgerKept
  <1>4. ClockLegal' /\ DiskIsTraceable'
    BY <1>1, <1>3 DEF IInv, ClockLegal, DiskIsTraceable
  <1>5. CommandIsTraceable'
    BY <1>1, <1>3 DEF IInv, CommandIsTraceable
  <1>6. AcceptedIsAcceptable' /\ ReportIsDerived'
    BY <1>1 DEF IInv, AcceptedIsAcceptable, ReportIsDerived
  <1>7. RecordsLegal'
    BY <1>1 DEF IInv, RecordsLegal
  <1> QED
    BY <1>2, <1>4, <1>5, <1>6, <1>7 DEF IInv

\* What the events of an uncached test run list was left since it began.
LEMMA CollectStep ==
  ASSUME IInv, CollectBEP
  PROVE  IInv'
  <1>1. /\ UNCHANGED <<revision, tree, clock, ledger, disk, invocation, report>>
        /\ command.stage = "loaded" /\ invocation.uncached
        /\ command' = [stage |-> "collected", revision |-> command.revision,
                       plans |-> command.plans, shapes |-> command.shapes,
                       entries |-> Found, since |-> invocation.since]
    BY DEF CollectBEP, world, IInv, RecordsLegal
  <1>2. LedgerLegal'
    BY <1>1, LedgerKept
  <1>3. \A entry, since : Left(entry, since) => Left(entry, since)'
    BY <1>1, LedgerKept
  <1>4. ClockLegal' /\ DiskIsTraceable'
    BY <1>1, <1>3 DEF IInv, ClockLegal, DiskIsTraceable
  <1>5. CommandIsTraceable'
    <2>1. ASSUME NEW entry \in Found
          PROVE  Left(entry, invocation.since)
      <3>1. PICK path \in Readable : entry \in disk[path].entries
        BY <2>1 DEF Found
      <3>2. path \in Attempts /\ path \in invocation.listed
        BY DEF Readable
      <3> QED
        BY <3>1, <3>2, <1>1 DEF IInv, DiskIsTraceable
    <2>2. command'.entries = Found /\ command'.since = invocation.since
      BY <1>1
    <2>3. \A entry \in Found : Left(entry, invocation.since)'
      BY <2>1, <1>1, <1>3
    <2> QED
      BY <2>2, <2>3, <1>1 DEF CommandIsTraceable
  <1>6. AcceptedIsAcceptable' /\ ReportIsDerived'
    BY <1>1 DEF IInv, AcceptedIsAcceptable, ReportIsDerived
  <1>7. RecordsLegal'
    BY <1>1 DEF IInv, RecordsLegal
  <1> QED
    BY <1>2, <1>4, <1>5, <1>6, <1>7 DEF IInv

LEMMA AcceptStep ==
  ASSUME IInv, Accept \/ Write
  PROVE  IInv'
  <1>1. /\ UNCHANGED <<revision, tree, clock, ledger, disk, invocation>>
        /\ command' = [stage |-> command'.stage, revision |-> command.revision,
                       plans |-> command.plans, shapes |-> command.shapes,
                       entries |-> command.entries, since |-> command.since]
        /\ \/ command.stage = "collected" /\ Acceptable /\ report' = report
           \/ /\ command.stage = "accepted" /\ CanBuild
              /\ report' = Report /\ command'.stage = "written"
    BY DEF Accept, Write, world, IInv, RecordsLegal
  <1>2. LedgerLegal'
    BY <1>1, LedgerKept
  <1>3. \A entry, since : Left(entry, since) => Left(entry, since)'
    BY <1>1, LedgerKept
  <1>4. ClockLegal' /\ DiskIsTraceable'
    BY <1>1, <1>3 DEF IInv, ClockLegal, DiskIsTraceable
  <1>5. CommandIsTraceable'
    BY <1>1, <1>3 DEF IInv, CommandIsTraceable
  <1>6. /\ Acceptable' <=> Acceptable
        /\ Report' = Report
        /\ CanBuild' <=> CanBuild
    BY <1>1, SameInputs
  <1>7. AcceptedIsAcceptable' /\ ReportIsDerived'
    BY <1>1, <1>6 DEF IInv, AcceptedIsAcceptable, ReportIsDerived
  <1>8. RecordsLegal'
    BY <1>1 DEF IInv, RecordsLegal
  <1> QED
    BY <1>2, <1>4, <1>5, <1>7, <1>8 DEF IInv

\* Every output the command has read was left by a run of the test run it
\* reports, or a newer one, and what it claims follows from what it accepted.
THEOREM InductiveInvariant == Spec => []IInv
  <1>1. IInv /\ [Next]_vars => IInv'
    <2> SUFFICES ASSUME IInv, [Next]_vars
                 PROVE  IInv'
      OBVIOUS
    <2>1. CASE UNCHANGED vars
      <3>1. UNCHANGED <<clock, ledger, disk, invocation, command, report>>
        BY <2>1 DEF vars, world
      <3>2. /\ LedgerLegal'
            /\ \A entry, since : Left(entry, since) => Left(entry, since)'
        BY <3>1, LedgerKept
      <3>3. CommandIsTraceable' /\ AcceptedIsAcceptable' /\ ReportIsDerived'
        BY <3>1, <3>2, CommandKept
      <3>4. ClockLegal' /\ DiskIsTraceable' /\ RecordsLegal'
        BY <3>1, <3>2 DEF IInv, ClockLegal, DiskIsTraceable, RecordsLegal
      <3> QED
        BY <3>2, <3>3, <3>4 DEF IInv
    <2>2. ASSUME NEW test \in Tests, NEW outcomes \in [test.scenarios -> Outcomes],
                 RunTest(test, outcomes)
          PROVE  IInv'
      BY <2>2, RunTestStep
    <2>3. ASSUME NEW test \in Tests, NEW outcomes \in [test.scenarios -> Outcomes],
                 RunAside(test, outcomes)
          PROVE  IInv'
      BY <2>3, RunAsideStep
    <2>4. CASE \/ \E uncached \in BOOLEAN : StartTests(uncached)
               \/ \E test \in Tests : SkipTest(test) \/ ReuseTest(test)
               \/ \E newTree \in Trees : \E newRevision \in revision..(revision + 1) :
                    Edit(newTree, newRevision)
               \/ \E path \in Attempts : Lose(path)
      BY <2>4, WorldStep
    <2>5. CASE \E given \in 1..revision : LoadReportManifest(given)
      BY <2>5, LoadStep
    <2>6. CASE CollectBEP
      BY <2>6, CollectStep
    <2>7. CASE CannotCollect \/ Refuse \/ CannotBuild
      BY <2>7, FailStep DEF CannotCollect, Refuse, CannotBuild
    <2>8. CASE Accept \/ Write
      BY <2>8, AcceptStep
    <2> QED
      BY <2>1, <2>2, <2>3, <2>4, <2>5, <2>6, <2>7, <2>8 DEF Next
  <1> QED
    BY InitialStates, <1>1, PTL DEF Spec
-----------------------------------------------------------------------------
(* What the report says.                                                     *)

\* The receipts that the report was derived from.
Given == Receipts(command.entries)

KeyOf(receipt) == <<receipt.profile, receipt.scenario>>

\* An accepted receipt tells of a run, and it is the only one of its scenario.
LEMMA AcceptedReceipts ==
  ASSUME IInv, report.written
  PROVE  /\ \A receipt \in Given : \E run \in ledger :
              /\ receipt = Receipt(run) /\ run.key = KeyOf(receipt) /\ run.at >= command.since
         /\ \A receipt \in Given :
              /\ receipt.profile \in ProfileSet /\ receipt.scenario \in Declared[receipt.profile]
              /\ receipt.revision = command.revision
              /\ receipt.plan = command.plans[receipt.profile]
         /\ \A one, other \in Given : KeyOf(one) = KeyOf(other) => one = other
         /\ \A p \in ProfileSet : (\E receipt \in Given : receipt.profile = p) =>
              \A s \in Declared[p] : \E receipt \in Given : KeyOf(receipt) = <<p, s>>
         /\ {p \in ProfileSet : \A receipt \in Given : receipt.profile # p} \subseteq Unavailable
  <1>1. /\ Torn \notin Given
        /\ ValidateUnavailableProfiles(PartitionExercisedProfiles(Given))
        /\ ValidateReceiptSetForProfiles(command.entries, Given, PartitionExercisedProfiles(Given))
    BY DEF IInv, ReportIsDerived, AcceptedIsAcceptable, Acceptable, Given
  <1>2. ASSUME NEW receipt \in Given
        PROVE  \E run \in ledger :
                 /\ receipt = Receipt(run) /\ run.key = KeyOf(receipt) /\ run.at >= command.since
    <2>1. PICK entry \in command.entries : receipt = entry.receipt /\ receipt # None
      BY DEF Given, Receipts
    <2>2. PICK run \in ledger : entry = Files(run) /\ run.at >= command.since
      BY DEF IInv, CommandIsTraceable, Left
    <2>3. receipt = CASE run.outcome = "torn receipt" -> Torn
                      [] run.outcome = "capture only" -> None
                      [] OTHER -> Receipt(run)
      BY <2>1, <2>2 DEF Files
    <2>4. receipt = Receipt(run)
      BY <2>1, <2>3, <1>1
    <2>5. run.key \in Pairs
      BY DEF IInv, LedgerLegal
    <2>6. run.key = <<run.key[1], run.key[2]>>
      BY <2>5 DEF Pairs
    <2>7. KeyOf(receipt) = <<run.key[1], run.key[2]>>
      BY <2>4 DEF KeyOf, Receipt
    <2> QED
      BY <2>2, <2>4, <2>6, <2>7
  <1>3. ASSUME NEW receipt \in Given
        PROVE  /\ receipt.profile \in ProfileSet /\ receipt.scenario \in Declared[receipt.profile]
               /\ receipt.revision = command.revision
               /\ receipt.plan = command.plans[receipt.profile]
    BY <1>1 DEF ValidateReceiptSetForProfiles, Accepts, PartitionExercisedProfiles
  <1>4. \A one, other \in Given : KeyOf(one) = KeyOf(other) => one = other
    BY <1>1 DEF ValidateReceiptSetForProfiles, KeyOf
  <1>5. ASSUME NEW p \in ProfileSet, \E receipt \in Given : receipt.profile = p,
               NEW s \in Declared[p]
        PROVE  \E receipt \in Given : KeyOf(receipt) = <<p, s>>
    <2>1. p \in PartitionExercisedProfiles(Given)
      BY <1>5 DEF PartitionExercisedProfiles
    <2>2. PICK receipt \in Given : receipt.profile = p /\ receipt.scenario = s
      BY <1>1, <2>1 DEF ValidateReceiptSetForProfiles
    <2> QED
      BY <2>2 DEF KeyOf
  <1>6. {p \in ProfileSet : \A receipt \in Given : receipt.profile # p} \subseteq Unavailable
    BY <1>1 DEF ValidateUnavailableProfiles, PartitionExercisedProfiles
  <1> QED
    BY <1>2, <1>3, <1>4, <1>5, <1>6

\* The capture shown for a scenario is that of its receipt.
LEMMA ShownCaptures ==
  ASSUME IInv, report.written, NEW receipt \in Given
  PROVE  /\ KeyOf(receipt) \in DOMAIN report.captures
         /\ report.captures[KeyOf(receipt)] = receipt.capture
  <1>1. report.captures = Captures
    BY DEF IInv, ReportIsDerived, Report
  <1>2. Captures = [key \in {KeyOf(given) : given \in Given} |->
                      (CHOOSE given \in Given : KeyOf(given) = key).capture]
    BY DEF Captures, Given, KeyOf
  <1>3. (CHOOSE given \in Given : KeyOf(given) = KeyOf(receipt)) = receipt
    BY AcceptedReceipts
  <1> QED
    BY <1>1, <1>2, <1>3

\* A run that an accepted receipt tells of is shown.
LEMMA ShownRuns ==
  ASSUME IInv, report.written, NEW receipt \in Given, NEW run \in ledger,
         receipt = Receipt(run), run.key = KeyOf(receipt)
  PROVE  IsShown(run)
  <1>1. receipt.capture = <<run.key, run.at>>
    BY DEF Receipt
  <1> QED
    BY <1>1, ShownCaptures DEF IsShown

\* The scenarios of a proof that verified.
Proven(proof, p) == Scope(proof, p) \cap VerifiedScenarios(Given, p)

\* A feature is shown as verified in the scenarios that its planned proofs were
\* given in, and by the assertion and on the basis that one of them states.
LEMMA ShownCells ==
  ASSUME IInv, report.written, NEW f \in Catalog, NEW p \in ProfileSet
  PROVE  LET cell == report.verification[f][p]
             planned == {proof \in command.plans[p] : proof.feature = f}
         IN /\ cell.state = "verified" => cell.scenarios # {}
            /\ \A proof \in planned : Proven(proof, p) \subseteq cell.scenarios
            /\ \A s \in cell.scenarios : \E proof \in planned :
                 /\ s \in Proven(proof, p)
                 /\ cell.assertion = proof.assertion /\ cell.basis = proof.basis
  <1> DEFINE cell == report.verification[f][p]
             planned == {proof \in command.plans[p] : proof.feature = f}
             all(proof) == proof.scenarios = {} /\ Proven(proof, p) = Declared[p]
             claimOf(proof) ==
               [feature |-> proof.feature, basis |-> proof.basis, assertion |-> proof.assertion,
                sources |-> proof.sources, allScenarios |-> all(proof),
                scenarios |-> IF all(proof) THEN {} ELSE Proven(proof, p)]
  <1>1. cell = Verification(Claims(p), f, p) /\ ModelBuilds(Claims(p), p)
    BY DEF IInv, ReportIsDerived, Report, Verifications, CanBuild
  <1>2. Claims(p) = {claimOf(proof) : proof \in {proof \in command.plans[p] : Proven(proof, p) # {}}}
    BY DEF Claims, CoveragesFromPlansForProfiles, Proven, Given
  <1>3. \A one, other \in Claims(p) : one.feature = other.feature => one = other
    BY <1>1 DEF ModelBuilds
  <1>4. \A proof : /\ claimOf(proof).feature = proof.feature /\ claimOf(proof).basis = proof.basis
                   /\ claimOf(proof).assertion = proof.assertion
                   /\ claimOf(proof).allScenarios = all(proof)
                   /\ claimOf(proof).scenarios = IF all(proof) THEN {} ELSE Proven(proof, p)
    OBVIOUS
  <1> HIDE DEF claimOf
  <1>5. CASE \E claim \in Claims(p) : claim.feature = f
    <2> DEFINE chosen == CHOOSE claim \in Claims(p) : claim.feature = f
    <2>1. chosen \in Claims(p) /\ chosen.feature = f
      BY <1>5
    <2>2. cell = [state |-> "verified", basis |-> chosen.basis, assertion |-> chosen.assertion,
                  scenarios |-> IF chosen.allScenarios THEN Declared[p] ELSE chosen.scenarios]
      BY <1>1, <1>5 DEF Verification
    <2> HIDE DEF chosen
    <2>3. PICK proof \in command.plans[p] : Proven(proof, p) # {} /\ chosen = claimOf(proof)
      BY <2>1, <1>2
    <2>4. proof \in planned
      BY <2>1, <2>3, <1>4
    <2>5. cell.scenarios = Proven(proof, p)
      <3>1. CASE all(proof)
        <4>1. chosen.allScenarios = TRUE
          BY <3>1, <2>3, <1>4
        <4> QED
          BY <4>1, <3>1, <2>2
      <3>2. CASE ~all(proof)
        <4>1. chosen.allScenarios = FALSE /\ chosen.scenarios = Proven(proof, p)
          BY <3>2, <2>3, <1>4
        <4> QED
          BY <4>1, <2>2
      <3> QED
        BY <3>1, <3>2
    <2>6. cell.assertion = proof.assertion /\ cell.basis = proof.basis
      BY <2>2, <2>3, <1>4
    <2>7. ASSUME NEW other \in planned PROVE Proven(other, p) \subseteq cell.scenarios
      <3>1. CASE Proven(other, p) = {}
        BY <3>1
      <3>2. CASE Proven(other, p) # {}
        <4>1. claimOf(other) \in Claims(p) /\ claimOf(other).feature = f
          BY <3>2, <1>2, <1>4
        <4>2. claimOf(other) = claimOf(proof)
          BY <4>1, <2>1, <2>3, <1>3
        <4>3. /\ all(other) = all(proof)
              /\ (IF all(other) THEN {} ELSE Proven(other, p))
                   = (IF all(proof) THEN {} ELSE Proven(proof, p))
          BY <4>2, <1>4
        <4> QED
          BY <4>3, <2>5
      <3> QED
        BY <3>1, <3>2
    <2> QED
      BY <2>3, <2>4, <2>5, <2>6, <2>7
  <1>6. CASE ~ \E claim \in Claims(p) : claim.feature = f
    <2>1. cell = NotExercised
      BY <1>1, <1>6 DEF Verification
    <2>2. \A proof \in planned : Proven(proof, p) = {}
      BY <1>2, <1>4, <1>6
    <2> QED
      BY <2>1, <2>2 DEF NotExercised
  <1> QED
    BY <1>5, <1>6

\* A receipt verified a scenario exactly if the run it tells of did, and then
\* what it was asked to prove are the proofs of the profile's plan.
LEMMA VerifiedReceipts ==
  ASSUME IInv, report.written, NEW p \in ProfileSet, NEW s,
         NEW run \in ledger, NEW receipt \in Given,
         receipt = Receipt(run), run.key = KeyOf(receipt), KeyOf(receipt) = <<p, s>>
  PROVE  /\ s \in VerifiedScenarios(Given, p) <=> run.outcome # "xfail"
         /\ receipt.outcome \in {"verified", "xfail"}
         /\ receipt.outcome = "xfail" <=> run.outcome = "xfail"
         /\ receipt.proofs = IF run.outcome = "xfail" THEN {} ELSE ExpectedProofs(command.plans[p], s)
         /\ run.plan = command.plans[p] /\ run.revision = command.revision
  <1>1. /\ receipt.outcome = Judgement(run.outcome) /\ receipt.revision = run.revision
        /\ receipt.plan = run.plan /\ receipt.profile = run.key[1] /\ receipt.scenario = run.key[2]
        /\ receipt.proofs = IF run.outcome = "xfail" THEN {}
                            ELSE ExpectedProofs(run.plan, run.key[2])
    BY DEF Receipt
  <1>2. receipt.profile = p /\ receipt.scenario = s
    BY DEF KeyOf
  <1>3. receipt.outcome \in {"verified", "xfail"} /\ (receipt.outcome = "xfail" <=> run.outcome = "xfail")
    BY <1>1 DEF Judgement
  <1>4. receipt.revision = command.revision /\ receipt.plan = command.plans[p]
    BY <1>2, AcceptedReceipts
  <1>5. s \in VerifiedScenarios(Given, p) <=> receipt.outcome = "verified"
    <2>1. ASSUME s \in VerifiedScenarios(Given, p) PROVE receipt.outcome = "verified"
      <3>1. PICK other \in Given : /\ other.profile = p /\ other.outcome = "verified"
                                   /\ s = other.scenario
        BY <2>1 DEF VerifiedScenarios
      <3>2. KeyOf(other) = KeyOf(receipt)
        BY <3>1, <1>2 DEF KeyOf
      <3> QED
        BY <3>1, <3>2, AcceptedReceipts
    <2>2. ASSUME receipt.outcome = "verified" PROVE s \in VerifiedScenarios(Given, p)
      BY <2>2, <1>2 DEF VerifiedScenarios
    <2> QED
      BY <2>1, <2>2
  <1> QED
    BY <1>1, <1>2, <1>3, <1>4, <1>5

\* A feature is shown as verified for a scenario only if a run of that scenario,
\* at the reported commit and no older than the reported test run, was judged to
\* verify it: neither a stale output nor another plan can stand in for it.
THEOREM Earned == Spec => []VerifiedIsEarned
  <1>1. IInv => VerifiedIsEarned
    <2> SUFFICES ASSUME IInv, report.written, NEW f \in Catalog, NEW p \in ProfileSet
                 PROVE  LET cell == report.verification[f][p]
                        IN /\ cell.state = "verified" => cell.scenarios # {}
                           /\ \A s \in cell.scenarios :
                                \E run \in ledger :
                                  /\ IsShown(run) /\ run.key = <<p, s>>
                                  /\ run.revision = report.revision
                                  /\ run.at >= command.since /\ run.outcome # "xfail"
                                  /\ [feature |-> f, assertion |-> cell.assertion,
                                      basis |-> cell.basis] \in ExpectedProofs(run.plan, s)
      BY DEF VerifiedIsEarned
    <2> DEFINE cell == report.verification[f][p]
    <2>1. cell.state = "verified" => cell.scenarios # {}
      BY ShownCells
    <2>2. ASSUME NEW s \in cell.scenarios
          PROVE  \E run \in ledger :
                   /\ IsShown(run) /\ run.key = <<p, s>> /\ run.revision = report.revision
                   /\ run.at >= command.since /\ run.outcome # "xfail"
                   /\ [feature |-> f, assertion |-> cell.assertion, basis |-> cell.basis]
                        \in ExpectedProofs(run.plan, s)
      <3>1. PICK proof \in command.plans[p] :
              /\ proof.feature = f /\ s \in Proven(proof, p)
              /\ cell.assertion = proof.assertion /\ cell.basis = proof.basis
        BY ShownCells
      <3>2. s \in Scope(proof, p) /\ s \in VerifiedScenarios(Given, p)
        BY <3>1 DEF Proven
      <3>3. PICK receipt \in Given : receipt.profile = p /\ receipt.scenario = s
        BY <3>2 DEF VerifiedScenarios
      <3>4. KeyOf(receipt) = <<p, s>>
        BY <3>3 DEF KeyOf
      <3>5. PICK run \in ledger :
              receipt = Receipt(run) /\ run.key = KeyOf(receipt) /\ run.at >= command.since
        BY AcceptedReceipts
      <3>6. /\ run.outcome # "xfail" /\ run.plan = command.plans[p]
            /\ run.revision = command.revision
        BY <3>2, <3>4, <3>5, VerifiedReceipts
      <3>7. IsShown(run)
        BY <3>5, ShownRuns
      <3>8. report.revision = command.revision
        BY DEF IInv, ReportIsDerived, Report
      <3>9. [feature |-> f, assertion |-> cell.assertion, basis |-> cell.basis]
              \in ExpectedProofs(run.plan, s)
        <4>1. proof.scenarios = {} \/ s \in proof.scenarios
          BY <3>2 DEF Scope
        <4>2. [feature |-> proof.feature, assertion |-> proof.assertion, basis |-> proof.basis]
                \in ExpectedProofs(command.plans[p], s)
          BY <4>1 DEF ExpectedProofs
        <4> QED
          BY <4>2, <3>1, <3>6
      <3> QED
        BY <3>4, <3>5, <3>6, <3>7, <3>8, <3>9
    <2> QED
      BY <2>1, <2>2
  <1> QED
    BY <1>1, InductiveInvariant, PTL

\* A planned check verified where the scenario did, and has no result only
\* where the profile has no receipt.
LEMMA CheckOutcomes ==
  ASSUME IInv, report.written, NEW p \in ProfileSet, NEW proof \in command.plans[p],
         NEW s \in Declared[p] \cap Scope(proof, p)
  PROVE  /\ ExecutionOutcome(Given, p, proof, s) = "verified" <=> s \in VerifiedScenarios(Given, p)
         /\ ExecutionOutcome(Given, p, proof, s) = "missing"
              <=> \A receipt \in Given : receipt.profile # p
  <1> DEFINE of == {receipt \in Given : receipt.profile = p /\ receipt.scenario = s}
             gives(receipt) == \E given \in receipt.proofs :
                                 /\ given.feature = proof.feature
                                 /\ given.assertion = proof.assertion /\ given.basis = proof.basis
  <1>1. ExecutionOutcome(Given, p, proof, s)
          = IF \E receipt \in of : receipt.outcome = "xfail" THEN "xfail"
            ELSE IF \E receipt \in of : gives(receipt) THEN "verified" ELSE "missing"
    BY DEF ExecutionOutcome
  <1>2. CASE \A receipt \in Given : receipt.profile # p
    <2>1. of = {}
      BY <1>2
    <2>2. s \notin VerifiedScenarios(Given, p)
      BY <1>2 DEF VerifiedScenarios
    <2> QED
      BY <1>1, <1>2, <2>1, <2>2
  <1>3. CASE \E receipt \in Given : receipt.profile = p
    <2>1. PICK receipt \in Given : KeyOf(receipt) = <<p, s>>
      BY <1>3, AcceptedReceipts
    <2>2. PICK run \in ledger : receipt = Receipt(run) /\ run.key = KeyOf(receipt)
      BY AcceptedReceipts
    <2>3. of = {receipt}
      <3>1. receipt \in of
        BY <2>1 DEF KeyOf
      <3>2. \A other \in of : KeyOf(other) = KeyOf(receipt)
        BY <2>1 DEF KeyOf
      <3> QED
        BY <3>1, <3>2, AcceptedReceipts
    <2>4. /\ s \in VerifiedScenarios(Given, p) <=> run.outcome # "xfail"
          /\ receipt.outcome = "xfail" <=> run.outcome = "xfail"
          /\ receipt.proofs = IF run.outcome = "xfail" THEN {}
                              ELSE ExpectedProofs(command.plans[p], s)
      BY <2>1, <2>2, VerifiedReceipts
    <2>5. ASSUME run.outcome # "xfail" PROVE gives(receipt)
      <3>1. proof.scenarios = {} \/ s \in proof.scenarios
        BY DEF Scope
      <3>2. [feature |-> proof.feature, assertion |-> proof.assertion, basis |-> proof.basis]
              \in receipt.proofs
        BY <3>1, <2>4, <2>5 DEF ExpectedProofs
      <3> QED
        BY <3>2
    <2> HIDE DEF of, gives
    <2>6. ExecutionOutcome(Given, p, proof, s)
            = IF run.outcome = "xfail" THEN "xfail" ELSE "verified"
      BY <1>1, <2>3, <2>4, <2>5
    <2> QED
      BY <2>4, <2>6, <1>3
  <1> QED
    BY <1>2, <1>3

\* The planned checks and the verified features, derived one by one from the
\* receipts, tell the same of every profile and scenario.
THEOREM Consistent == Spec => []ViewsAgree
  <1>1. IInv => ViewsAgree
    <2> DEFINE planned(p, f) == {check \in report.checks[p] : check.feature = f}
               having(check, outcome) ==
                 {s \in DOMAIN check.executions : check.executions[s] = outcome}
    <2> SUFFICES ASSUME IInv, report.written, NEW p \in ProfileSet
                 PROVE  /\ \A f \in Catalog :
                             report.verification[f][p].scenarios
                               = UNION {having(check, "verified") : check \in planned(p, f)}
                        /\ \A check \in report.checks[p] :
                             having(check, "missing")
                               = (IF p \in report.unexercised THEN DOMAIN check.executions ELSE {})
      BY DEF ViewsAgree
    <2> DEFINE checkOf(proof) ==
                 [feature |-> proof.feature, assertion |-> proof.assertion, basis |-> proof.basis,
                  executions |-> [s \in Declared[p] \cap Scope(proof, p) |->
                                    ExecutionOutcome(Given, p, proof, s)]]
    <2>1. report.checks[p] = {checkOf(proof) : proof \in command.plans[p]}
      <3>1. report.checks = Checks
        BY DEF IInv, ReportIsDerived, Report
      <3>2. Checks[p] = PlannedChecks(command.plans[p], Given, p)
        BY DEF Checks, Given
      <3>3. PlannedChecks(command.plans[p], Given, p)
              = {checkOf(proof) : proof \in command.plans[p]}
        BY DEF PlannedChecks
      <3> QED
        BY <3>1, <3>2, <3>3
    <2>2. p \in report.unexercised <=> \A receipt \in Given : receipt.profile # p
      BY DEF IInv, ReportIsDerived, Report, PartitionExercisedProfiles, Given
    <2>3. ASSUME NEW proof \in command.plans[p]
          PROVE  /\ checkOf(proof).feature = proof.feature
                 /\ having(checkOf(proof), "verified") = Proven(proof, p)
                 /\ having(checkOf(proof), "missing")
                      = IF p \in report.unexercised THEN DOMAIN checkOf(proof).executions ELSE {}
      <3> DEFINE executions == checkOf(proof).executions
      <3>1. DOMAIN executions = Declared[p] \cap Scope(proof, p)
        OBVIOUS
      <3>2. \A s \in DOMAIN executions :
              /\ executions[s] = "verified" <=> s \in VerifiedScenarios(Given, p)
              /\ executions[s] = "missing" <=> p \in report.unexercised
        BY <2>2, CheckOutcomes
      <3>3. VerifiedScenarios(Given, p) \subseteq Declared[p]
        BY AcceptedReceipts DEF VerifiedScenarios
      <3>4. checkOf(proof).feature = proof.feature
        OBVIOUS
      <3> HIDE DEF checkOf
      <3> QED
        BY <3>1, <3>2, <3>3, <3>4 DEF Proven
    <2> HIDE DEF checkOf
    <2>4. ASSUME NEW f \in Catalog
          PROVE  report.verification[f][p].scenarios
                   = UNION {having(check, "verified") : check \in planned(p, f)}
      <3>1. ASSUME NEW s \in report.verification[f][p].scenarios
            PROVE  \E check \in planned(p, f) : s \in having(check, "verified")
        <4>1. PICK proof \in command.plans[p] : proof.feature = f /\ s \in Proven(proof, p)
          BY ShownCells
        <4>2. checkOf(proof) \in planned(p, f) /\ s \in having(checkOf(proof), "verified")
          BY <4>1, <2>1, <2>3
        <4> QED
          BY <4>2
      <3>2. ASSUME NEW check \in planned(p, f), NEW s \in having(check, "verified")
            PROVE  s \in report.verification[f][p].scenarios
        <4>1. PICK proof \in command.plans[p] : check = checkOf(proof)
          BY <2>1
        <4>2. proof.feature = f /\ s \in Proven(proof, p)
          BY <4>1, <2>3
        <4> QED
          BY <4>2, ShownCells
      <3> QED
        BY <3>1, <3>2
    <2>5. ASSUME NEW check \in report.checks[p]
          PROVE  having(check, "missing")
                   = IF p \in report.unexercised THEN DOMAIN check.executions ELSE {}
      <3>1. PICK proof \in command.plans[p] : check = checkOf(proof)
        BY <2>1
      <3> QED
        BY <3>1, <2>3
    <2> QED
      BY <2>4, <2>5
  <1> QED
    BY <1>1, InductiveInvariant, PTL

\* A shown run is the only one of its scenario that is shown.
LEMMA ShownOnce ==
  ASSUME IInv, NEW one \in ledger, NEW other \in ledger,
         IsShown(one), IsShown(other), one.key = other.key
  PROVE  one = other
  <1>1. one.at = other.at
    BY DEF IsShown
  <1> QED
    BY <1>1 DEF IInv, LedgerLegal

\* No profile disappears, and of an exercised one no scenario and no verified
\* feature: what is planned goes unverified only where all was expected to fail.
THEOREM Complete == Spec => []NothingIsLost
  <1>1. IInv => NothingIsLost
    <2> DEFINE shown(p, s) == CHOOSE run \in ledger : run.key = <<p, s>> /\ IsShown(run)
               verified(p, f) ==
                 {s \in Declared[p] : /\ shown(p, s).outcome # "xfail"
                                      /\ \E proof \in ExpectedProofs(shown(p, s).plan, s) :
                                           proof.feature = f}
    <2> SUFFICES ASSUME IInv, report.written
                 PROVE  /\ report.unexercised \subseteq Unavailable
                        /\ \A p \in ProfileSet \ report.unexercised :
                             /\ \A s \in Declared[p] :
                                  \E run \in ledger : run.key = <<p, s>> /\ IsShown(run)
                             /\ \A f \in Catalog :
                                  report.verification[f][p].scenarios = verified(p, f)
      BY DEF NothingIsLost
    <2>1. report.unexercised = {p \in ProfileSet : \A receipt \in Given : receipt.profile # p}
      BY DEF IInv, ReportIsDerived, Report, PartitionExercisedProfiles, Given
    <2>2. report.unexercised \subseteq Unavailable
      BY <2>1, AcceptedReceipts
    <2>3. ASSUME NEW p \in ProfileSet \ report.unexercised, NEW s \in Declared[p]
          PROVE  /\ \E run \in ledger : run.key = <<p, s>> /\ IsShown(run)
                 /\ shown(p, s).plan = command.plans[p]
                 /\ shown(p, s).outcome # "xfail" <=> s \in VerifiedScenarios(Given, p)
      <3>1. PICK receipt \in Given : KeyOf(receipt) = <<p, s>>
        BY <2>1, <2>3, AcceptedReceipts
      <3>2. PICK run \in ledger : receipt = Receipt(run) /\ run.key = KeyOf(receipt)
        BY AcceptedReceipts
      <3>3. run.key = <<p, s>> /\ IsShown(run)
        BY <3>1, <3>2, ShownRuns
      <3>4. shown(p, s) = run
        BY <3>3, ShownOnce
      <3>5. /\ s \in VerifiedScenarios(Given, p) <=> run.outcome # "xfail"
            /\ run.plan = command.plans[p]
        BY <3>1, <3>2, VerifiedReceipts
      <3> HIDE DEF shown
      <3> QED
        BY <3>3, <3>4, <3>5
    <2> HIDE DEF shown
    <2>4. ASSUME NEW p \in ProfileSet \ report.unexercised, NEW f \in Catalog
          PROVE  report.verification[f][p].scenarios = verified(p, f)
      <3>1. ASSUME NEW s \in report.verification[f][p].scenarios
            PROVE  s \in verified(p, f)
        <4>1. PICK proof \in command.plans[p] : proof.feature = f /\ s \in Proven(proof, p)
          BY ShownCells
        <4>2. s \in Scope(proof, p) /\ s \in VerifiedScenarios(Given, p)
          BY <4>1 DEF Proven
        <4>3. s \in Declared[p]
          BY <4>2, AcceptedReceipts DEF VerifiedScenarios
        <4>4. shown(p, s).outcome # "xfail" /\ shown(p, s).plan = command.plans[p]
          BY <4>2, <4>3, <2>3
        <4>5. [feature |-> proof.feature, assertion |-> proof.assertion, basis |-> proof.basis]
                \in ExpectedProofs(command.plans[p], s)
          BY <4>2 DEF Scope, ExpectedProofs
        <4> QED
          BY <4>1, <4>3, <4>4, <4>5
      <3>2. ASSUME NEW s \in verified(p, f)
            PROVE  s \in report.verification[f][p].scenarios
        <4>1. s \in VerifiedScenarios(Given, p) /\ shown(p, s).plan = command.plans[p]
          BY <3>2, <2>3
        <4>2. PICK given \in ExpectedProofs(command.plans[p], s) : given.feature = f
          BY <3>2, <4>1
        <4>3. PICK proof \in command.plans[p] :
                /\ proof.scenarios = {} \/ s \in proof.scenarios
                /\ proof.feature = f
          BY <4>2 DEF ExpectedProofs
        <4>4. s \in Proven(proof, p)
          BY <4>1, <4>3, <3>2 DEF Proven, Scope
        <4> QED
          BY <4>3, <4>4, ShownCells
      <3> QED
        BY <3>1, <3>2
    <2> QED
      BY <2>2, <2>3, <2>4
  <1> QED
    BY <1>1, InductiveInvariant, PTL
=============================================================================
