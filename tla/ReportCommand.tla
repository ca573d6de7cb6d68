---------------------------- MODULE ReportCommand ----------------------------
(***************************************************************************)
(* From a test run to the feature report.  A run of the tests leaves, for    *)
(* every scenario it judged, a receipt and a capture in the outputs of its   *)
(* attempt (emitReceipt, harness/hurl_test_driver.go); the report command    *)
(* (report/cmd/main.go) reads the profiles' proof plans and shapes, collects *)
(* the outputs the build event file lists, accepts or refuses the receipts   *)
(* (report/report/receipt.go), and derives what it claims (report.go,        *)
(* projections.go).  Between the steps people commit, edit, rerun a test, or *)
(* lose an output.                                                           *)
(*                                                                           *)
(* The digest of a text is the text.  A capture is known by the scenario and *)
(* the time of the attempt that judged it.                                   *)
(***************************************************************************)
EXTENDS Integers, Sequences, FiniteSets

CONSTANTS
  Profiles,       \* the profiles of the report manifest, in their order
  Declared,       \* the scenarios the manifest declares for each profile
  Unavailable,    \* the profiles it declares unavailable
  Rules,          \* the proof rule of each feature: [assertion, policy]
  Catalog,        \* the features of the compliance matrix
  Tests,          \* the test targets: [profile, scenarios]
  MaxAttempts,    \* how often a flaky test is tried
  Trees,          \* what may be checked out: [claims, shapes]
  Worlds,         \* the trees to begin with: [tree, budget]
  CompareShapes(_, _),  \* what the report says of two shapes
  None, Torn      \* nothing there; a file that was not written to its end

ProfileSet == {Profiles[i] : i \in DOMAIN Profiles}
Scenarios == UNION {Declared[p] : p \in ProfileSet}
Pairs == {key \in ProfileSet \X Scenarios : key[2] \in Declared[key[1]]}
Attempts == Tests \X (1..MaxAttempts)

\* Every test judges declared scenarios of a profile of the manifest.
ASSUME TestsAssumption ==
  \A test \in Tests : /\ test.profile \in ProfileSet
                      /\ test.scenarios \subseteq Declared[test.profile]

VARIABLES
  revision,    \* the commit checked out
  tree,        \* the claims of the profiles and the shapes, as checked out
  clock,       \* how many attempts of tests there were
  ledger,      \* every scenario a test judged (of the model)
  disk,        \* the outputs of an attempt: [entries, passed, readable, of]
  invocation,  \* the build event file: [uncached, since, of, pending, listed]
  command,     \* the report command: what it has read so far
  report,      \* what it has written
  budget       \* how much may still go wrong (a bound)

world == <<revision, tree, clock, ledger, disk, invocation>>
vars == <<world, command, report, budget>>
-----------------------------------------------------------------------------
(* The plan of a profile, compiled from its claims (report/report/profile.go). *)

\* A claim: [scope, basis, features, sources]; an empty scope is every scenario.
IsLegalClaim(claim) ==
  /\ claim.scope \subseteq Scenarios /\ claim.features # <<>>
  /\ claim.basis = "observed" => claim.sources = {}
  /\ \A i \in DOMAIN claim.features :
       LET feature == claim.features[i]
       IN /\ feature \in DOMAIN Rules
          /\ Rules[feature].policy = "requires-immutable-source" => claim.sources # {}
          /\ Rules[feature].policy = "wire-sufficient" => claim.basis = "observed"

ParseProfileClaim(claim) ==
  {[feature |-> claim.features[i], assertion |-> Rules[claim.features[i]].assertion,
    basis |-> claim.basis, scenarios |-> claim.scope, sources |-> claim.sources] :
     i \in DOMAIN claim.features}

\* No feature is claimed twice, in one claim or in two.
Compiles(claims) ==
  /\ claims # <<>>
  /\ \A c \in DOMAIN claims : IsLegalClaim(claims[c])
  /\ \A c, d \in DOMAIN claims :
       \A i \in DOMAIN claims[c].features, j \in DOMAIN claims[d].features :
         claims[c].features[i] = claims[d].features[j] => c = d /\ i = j

CompileTelemetryProfile(claims) == UNION {ParseProfileClaim(claims[c]) : c \in DOMAIN claims}

Plans(aTree) == [p \in ProfileSet |-> CompileTelemetryProfile(aTree.claims[p])]

\* What the tests and the report are built from.
Builds(aTree) ==
  /\ \A p \in ProfileSet : Compiles(aTree.claims[p])
  /\ DOMAIN aTree.shapes \subseteq Pairs

\* The proofs a scenario must give, without where a plan takes them from.
ExpectedProofs(plan, scenario) ==
  {[feature |-> proof.feature, assertion |-> proof.assertion, basis |-> proof.basis] :
     proof \in {proof \in plan : proof.scenarios = {} \/ scenario \in proof.scenarios}}
-----------------------------------------------------------------------------
(* Running the tests.                                                        *)

ShapeOf(shapes, key) == IF key \in DOMAIN shapes THEN shapes[key] ELSE None

\* How judging a scenario ends.  A judgement may be kept although the test
\* fails later; a failure may leave one of the two files, or a torn one.
Kept == {"verified", "xfail", "verified, then failed"}
Leftovers == {"torn receipt", "no capture", "torn capture", "capture only"}
Outcomes == Kept \cup Leftovers \cup {"failed"}

Judgement(outcome) == IF outcome = "xfail" THEN "xfail" ELSE "verified"

\* emitReceipt, of the plan and the shape loadAtomicProfile read
Receipt(run) ==
  [revision |-> run.revision, profile |-> run.key[1], scenario |-> run.key[2],
   plan |-> run.plan, capture |-> <<run.key, run.at>>,
   mode |-> IF run.shape = None THEN "contract" ELSE "exact",
   outcome |-> Judgement(run.outcome), shape |-> run.shape,
   proofs |-> IF run.outcome = "xfail" THEN {} ELSE ExpectedProofs(run.plan, run.key[2])]

\* The receipt is written first, and removed when the capture cannot be.
Files(run) ==
  [key |-> run.key,
   receipt |-> CASE run.outcome = "torn receipt" -> Torn
                 [] run.outcome = "capture only" -> None
                 [] OTHER -> Receipt(run),
   capture |-> CASE run.outcome \in {"torn receipt", "no capture"} -> None
                 [] run.outcome \in {"torn capture", "capture only"} -> Torn
                 [] OTHER -> <<run.key, run.at>>]

NoOutputs == [entries |-> {}, passed |-> FALSE, readable |-> FALSE, of |-> None]

\* An attempt of a test, built from the commit and tree of its invocation.
Runs(test, outcomes, of) ==
  {[key |-> <<test.profile, s>>, revision |-> of.revision,
    plan |-> Plans(of.tree)[test.profile], shape |-> ShapeOf(of.tree.shapes, <<test.profile, s>>),
    outcome |-> outcomes[s], at |-> clock + 1] : s \in test.scenarios}

Passed(outcomes) == \A s \in DOMAIN outcomes : outcomes[s] \in {"verified", "xfail"}

\* The first attempt of an invocation clears what earlier ones left.
Execute(test, attempt, outcomes, of) ==
  LET runs == Runs(test, outcomes, of)
  IN /\ clock' = clock + 1
     /\ ledger' = ledger \cup runs
     /\ disk' = [path \in Attempts |->
                   IF path = <<test, attempt>>
                   THEN [entries |-> {Files(run) : run \in {run \in runs : run.outcome # "failed"}},
                         passed |-> Passed(outcomes), readable |-> TRUE, of |-> of]
                   ELSE IF path[1] = test /\ attempt = 1 THEN NoOutputs
                   ELSE disk[path]]

Disturb(cost) ==
  /\ cost <= budget
  /\ budget' = budget - cost

\* How many of the scenarios did not just verify.
Cost(outcomes) == Cardinality({s \in DOMAIN outcomes : outcomes[s] # "verified"})

Here == [revision |-> revision, tree |-> tree]

NoInvocation ==
  [uncached |-> FALSE, since |-> 0, of |-> None, pending |-> {}, listed |-> {}]

\* bazel test; the last invocation is the one whose events are kept.
StartTests(uncached) ==
  /\ command.stage = "idle" /\ invocation.pending = {} /\ Builds(tree)
  /\ Disturb((IF invocation.of = None THEN 0 ELSE 1) + (IF uncached THEN 0 ELSE 1))
  /\ invocation' = [uncached |-> uncached, since |-> clock + 1, of |-> Here,
                    pending |-> Tests, listed |-> {}]
  /\ UNCHANGED <<revision, tree, clock, ledger, disk, command, report>>

Tries(test) == Cardinality({path \in invocation.listed : path[1] = test})

\* A test of an unavailable profile is left out, unless it can run by now.
RunTest(test, outcomes) ==
  LET attempt == Tries(test) + 1
      last == Passed(outcomes) \/ attempt = MaxAttempts
  IN /\ test \in invocation.pending
     /\ Disturb(Cost(outcomes) + (IF test.profile \in Unavailable THEN 1 ELSE 0))
     /\ Execute(test, attempt, outcomes, invocation.of)
     /\ invocation' = [invocation EXCEPT !.pending = IF last THEN @ \ {test} ELSE @,
                                         !.listed = @ \cup {<<test, attempt>>}]
     /\ UNCHANGED <<revision, tree, command, report>>

SkipTest(test) ==
  /\ test \in invocation.pending /\ test.profile \in Unavailable /\ Tries(test) = 0
  /\ invocation' = [invocation EXCEPT !.pending = @ \ {test}]
  /\ UNCHANGED <<revision, tree, clock, ledger, disk, command, report, budget>>

\* Without --nocache_test_results a test that passed is not run again.
ReuseTest(test) ==
  /\ test \in invocation.pending /\ ~invocation.uncached /\ Tries(test) = 0
  /\ disk[<<test, 1>>].passed /\ disk[<<test, 1>>].of = invocation.of
  /\ invocation' = [invocation EXCEPT !.pending = @ \ {test}, !.listed = @ \cup {<<test, 1>>}]
  /\ UNCHANGED <<revision, tree, clock, ledger, disk, command, report, budget>>

\* Another invocation, whose events are not kept, overwrites the outputs.
RunAside(test, outcomes) ==
  /\ invocation.of # None /\ invocation.pending = {} /\ command.stage \in {"idle", "loaded"}
  /\ Builds(tree)
  /\ Disturb(1 + Cost(outcomes))
  /\ Execute(test, 1, outcomes, Here)
  /\ UNCHANGED <<revision, tree, invocation, command, report>>

\* A commit, or an edit that is not committed.
Edit(newTree, newRevision) ==
  /\ command.stage \in {"idle", "loaded"}
  /\ Disturb(1)
  /\ tree' = newTree /\ revision' = newRevision
  /\ UNCHANGED <<clock, ledger, disk, invocation, command, report>>

\* Outputs that were not downloaded, or can no longer be read.
Lose(path) ==
  /\ command.stage \in {"idle", "loaded"} /\ disk[path].readable
  /\ Disturb(1)
  /\ disk' = [disk EXCEPT ![path].readable = FALSE]
  /\ UNCHANGED <<revision, tree, clock, ledger, invocation, command, report>>
-----------------------------------------------------------------------------
(* The report command.                                                       *)

NoCommand == [stage |-> "idle", revision |-> 0, plans |-> None, shapes |-> None,
              entries |-> {}, since |-> 0]

Fail ==
  /\ command' = [command EXCEPT !.stage = "failed"]
  /\ UNCHANGED <<world, report, budget>>

\* main and loadReportManifest: the plans and shapes are built from the current
\* tree; the revision is an argument, which may name another commit.
LoadReportManifest(given) ==
  /\ command.stage = "idle" /\ invocation.of # None /\ invocation.pending = {} /\ Builds(tree)
  /\ command' = [command EXCEPT !.stage = "loaded", !.revision = given,
                                !.plans = Plans(tree), !.shapes = tree.shapes]
  /\ UNCHANGED <<world, report, budget>>

\* An output that cannot be opened is passed over.
Readable == {path \in Attempts \cap invocation.listed : disk[path].readable}

Found == UNION {disk[path].entries : path \in Readable}

\* addArtifact: two attempts left the same file
Duplicated ==
  \E one, other \in Readable : \E a \in disk[one].entries, b \in disk[other].entries :
    /\ one # other /\ a.key = b.key
    /\ (a.receipt # None /\ b.receipt # None) \/ (a.capture # None /\ b.capture # None)

CollectBEP ==
  /\ command.stage = "loaded" /\ invocation.uncached /\ ~Duplicated
  /\ command' = [command EXCEPT !.stage = "collected", !.entries = Found,
                                !.since = invocation.since]
  /\ UNCHANGED <<world, report, budget>>

\* An output that opens but cannot be read through ends the command as well.
CannotCollect ==
  /\ command.stage = "loaded"
  /\ \/ ~invocation.uncached \/ Duplicated
     \/ \E path \in Attempts \cap invocation.listed : ~disk[path].readable
  /\ Fail

Receipts(entries) == {entry.receipt : entry \in entries} \ {None}

PartitionExercisedProfiles(receipts) ==
  {p \in ProfileSet : \E receipt \in receipts : receipt.profile = p}

\* Mutant: only what is shown is asked for its declaration.
ValidateShownProfiles(exercised) == exercised \cap Unavailable = {}

\* validateUnavailableProfiles
ValidateUnavailableProfiles(exercised) ==
  /\ ProfileSet \ exercised \subseteq Unavailable
  /\ exercised \cap Unavailable = {}

\* Mutant: the plan the receipt was given for is not compared.
AcceptsAnyPlan(entries, receipt) ==
  LET key == <<receipt.profile, receipt.scenario>>
  IN /\ receipt.revision = command.revision
     /\ \E entry \in entries : entry.key = key /\ entry.capture = receipt.capture
     /\ receipt.mode = (IF key \in DOMAIN command.shapes THEN "exact" ELSE "contract")
     /\ receipt.shape = ShapeOf(command.shapes, key)
     /\ receipt.outcome = "xfail" => receipt.proofs = {}

\* What ValidateReceiptSetForProfiles asks of every receipt.
Accepts(entries, receipt) ==
  LET key == <<receipt.profile, receipt.scenario>>
      plan == command.plans[receipt.profile]
  IN /\ receipt.revision = command.revision
     /\ receipt.plan = plan
     /\ \E entry \in entries : entry.key = key /\ entry.capture = receipt.capture
     /\ receipt.mode = (IF key \in DOMAIN command.shapes THEN "exact" ELSE "contract")
     /\ receipt.shape = ShapeOf(command.shapes, key)
     /\ receipt.proofs = (IF receipt.outcome = "xfail" THEN {}
                          ELSE ExpectedProofs(plan, receipt.scenario))

\* Of the exercised profiles, a receipt for each declared scenario, and no other.
ValidateReceiptSetForProfiles(entries, receipts, exercised) ==
  /\ \A receipt \in receipts :
       /\ receipt.profile \in exercised
       /\ receipt.scenario \in Declared[receipt.profile]
       /\ Accepts(entries, receipt)
  /\ \A one, other \in receipts :
       one.profile = other.profile /\ one.scenario = other.scenario => one = other
  /\ \A p \in exercised : \A s \in Declared[p] :
       \E receipt \in receipts : receipt.profile = p /\ receipt.scenario = s

Acceptable ==
  LET receipts == Receipts(command.entries)
      exercised == PartitionExercisedProfiles(receipts)
  IN /\ Torn \notin receipts
     /\ ValidateUnavailableProfiles(exercised)
     /\ ValidateReceiptSetForProfiles(command.entries, receipts, exercised)
     /\ exercised # {}

Accept ==
  /\ command.stage = "collected" /\ Acceptable
  /\ command' = [command EXCEPT !.stage = "accepted"]
  /\ UNCHANGED <<world, report, budget>>

Refuse ==
  /\ command.stage = "collected" /\ ~Acceptable
  /\ Fail
-----------------------------------------------------------------------------
(* What the report says.                                                     *)

VerifiedScenarios(receipts, profile) ==
  {receipt.scenario : receipt \in {receipt \in receipts :
                                     receipt.profile = profile /\ receipt.outcome = "verified"}}

Scope(proof, profile) == IF proof.scenarios = {} THEN Declared[profile] ELSE proof.scenarios

\* A claim keeps the scenarios that verified; all of them are shown as "all".
CoveragesFromPlansForProfiles(plan, receipts, profile) ==
  LET verified(proof) == Scope(proof, profile) \cap VerifiedScenarios(receipts, profile)
      all(proof) == proof.scenarios = {} /\ verified(proof) = Declared[profile]
  IN {[feature |-> proof.feature, basis |-> proof.basis, assertion |-> proof.assertion,
       sources |-> proof.sources, allScenarios |-> all(proof),
       scenarios |-> IF all(proof) THEN {} ELSE verified(proof)] :
         proof \in {proof \in plan : verified(proof) # {}}}

\* The checks of BuildModelForProfiles that the manifest does not already decide.
ModelBuilds(claims, profile) ==
  /\ \A claim \in claims :
       /\ claim.feature \in Catalog
       /\ claim.allScenarios <=> claim.scenarios = {}
       /\ claim.scenarios \subseteq Declared[profile]
       /\ claim.basis = "corroborated" => claim.sources # {}
  /\ \A one, other \in claims : one.feature = other.feature => one = other

NotExercised == [state |-> "not_exercised", basis |-> None, assertion |-> None, scenarios |-> {}]

Verification(claims, feature, profile) ==
  IF \E claim \in claims : claim.feature = feature
  THEN LET claim == CHOOSE claim \in claims : claim.feature = feature
       IN [state |-> "verified", basis |-> claim.basis, assertion |-> claim.assertion,
           scenarios |-> IF claim.allScenarios THEN Declared[profile] ELSE claim.scenarios]
  ELSE NotExercised

Coverage(shapes, profile, scenario) ==
  IF scenario \notin Declared[profile] THEN "unavailable"
  ELSE IF <<profile, scenario>> \in DOMAIN shapes THEN "exact_shape" ELSE "contract_only"

\* The pairs of profiles, the one listed first on the left.
Comparisons(shapes) ==
  LET compared == {at \in (DOMAIN Profiles) \X (DOMAIN Profiles) \X Scenarios :
                     /\ at[1] < at[2]
                     /\ <<Profiles[at[1]], at[3]>> \in DOMAIN shapes
                     /\ <<Profiles[at[2]], at[3]>> \in DOMAIN shapes}
  IN [at \in compared |-> CompareShapes(shapes[<<Profiles[at[1]], at[3]>>],
                                        shapes[<<Profiles[at[2]], at[3]>>])]

\* Mutant: a check is taken to have verified where there is a receipt.
OutcomeOfAnyReceipt(receipts, profile, proof, scenario) ==
  IF \E receipt \in receipts : receipt.profile = profile /\ receipt.scenario = scenario
  THEN "verified" ELSE "missing"

\* AddReportProjections: how a planned check fared in a scenario
ExecutionOutcome(receipts, profile, proof, scenario) ==
  LET of == {receipt \in receipts : receipt.profile = profile /\ receipt.scenario = scenario}
  IN IF \E receipt \in of : receipt.outcome = "xfail" THEN "xfail"
     ELSE IF \E receipt \in of : \E given \in receipt.proofs :
               /\ given.feature = proof.feature /\ given.assertion = proof.assertion
               /\ given.basis = proof.basis
     THEN "verified" ELSE "missing"

PlannedChecks(plan, receipts, profile) ==
  {[feature |-> proof.feature, assertion |-> proof.assertion, basis |-> proof.basis,
    executions |-> [s \in Declared[profile] \cap Scope(proof, profile) |->
                      ExecutionOutcome(receipts, profile, proof, s)]] : proof \in plan}

NoReport == [written |-> FALSE]

Claims(profile) ==
  CoveragesFromPlansForProfiles(command.plans[profile], Receipts(command.entries), profile)

Verifications == [f \in Catalog |-> [p \in ProfileSet |-> Verification(Claims(p), f, p)]]

Coverages == [key \in ProfileSet \X Scenarios |-> Coverage(command.shapes, key[1], key[2])]

Checks ==
  [p \in ProfileSet |-> PlannedChecks(command.plans[p], Receipts(command.entries), p)]

Captures ==
  LET receipts == Receipts(command.entries)
      of(key) == CHOOSE receipt \in receipts : <<receipt.profile, receipt.scenario>> = key
  IN [key \in {<<receipt.profile, receipt.scenario>> : receipt \in receipts} |-> of(key).capture]

\* BuildModelForProfiles and AddReportProjections
Report ==
  [written |-> TRUE, revision |-> command.revision,
   unexercised |-> ProfileSet \ PartitionExercisedProfiles(Receipts(command.entries)),
   verification |-> Verifications, coverage |-> Coverages, checks |-> Checks,
   captures |-> Captures, comparisons |-> Comparisons(command.shapes)]

CanBuild == \A p \in ProfileSet : ModelBuilds(Claims(p), p)

Write ==
  /\ command.stage = "accepted" /\ CanBuild
  /\ report' = Report
  /\ command' = [command EXCEPT !.stage = "written"]
  /\ UNCHANGED <<world, budget>>

CannotBuild ==
  /\ command.stage = "accepted" /\ ~CanBuild
  /\ Fail
-----------------------------------------------------------------------------
Init ==
  \E start \in Worlds :
    /\ revision = 1 /\ tree = start.tree /\ budget = start.budget
    /\ clock = 0 /\ ledger = {}
    /\ disk = [path \in Attempts |-> NoOutputs]
    /\ invocation = NoInvocation /\ command = NoCommand /\ report = NoReport

Next ==
  \/ \E uncached \in BOOLEAN : StartTests(uncached)
  \/ \E test \in Tests : \E outcomes \in [test.scenarios -> Outcomes] : RunTest(test, outcomes)
  \/ \E test \in Tests : SkipTest(test)
  \/ \E test \in Tests : ReuseTest(test)
  \/ \E test \in Tests : \E outcomes \in [test.scenarios -> Outcomes] : RunAside(test, outcomes)
  \/ \E newTree \in Trees : \E newRevision \in revision..(revision + 1) :
       Edit(newTree, newRevision)
  \/ \E path \in Attempts : Lose(path)
  \/ \E given \in 1..revision : LoadReportManifest(given)
  \/ CollectBEP
  \/ CannotCollect
  \/ Accept
  \/ Refuse
  \/ Write
  \/ CannotBuild

Spec == Init /\ [][Next]_vars
-----------------------------------------------------------------------------
\* The run that a capture of the report was taken by.
IsShown(run) ==
  /\ run \in ledger /\ run.key \in DOMAIN report.captures
  /\ report.captures[run.key] = <<run.key, run.at>>

\* A feature is shown as verified for a scenario only if a run of that scenario,
\* at the reported commit and no older than the reported test run, was judged
\* to verify it, by the assertion and on the basis shown, from the capture shown.
VerifiedIsEarned ==
  report.written =>
    \A f \in Catalog, p \in ProfileSet :
      LET cell == report.verification[f][p]
      IN /\ cell.state = "verified" => cell.scenarios # {}
         /\ \A s \in cell.scenarios :
              \E run \in ledger :
                /\ IsShown(run) /\ run.key = <<p, s>> /\ run.revision = report.revision
                /\ run.at >= command.since /\ run.outcome # "xfail"
                /\ [feature |-> f, assertion |-> cell.assertion, basis |-> cell.basis]
                     \in ExpectedProofs(run.plan, s)

\* No profile disappears: only one declared unavailable is shown without
\* receipts.  Of every other, all declared scenarios are shown, and a planned
\* feature goes unverified only where every scenario it is planned for was
\* expected to fail.
NothingIsLost ==
  report.written =>
    /\ report.unexercised \subseteq Unavailable
    /\ \A p \in ProfileSet \ report.unexercised :
         LET shown(s) == CHOOSE run \in ledger : run.key = <<p, s>> /\ IsShown(run)
             verified(f) == {s \in Declared[p] : /\ shown(s).outcome # "xfail"
                                                 /\ \E proof \in ExpectedProofs(shown(s).plan, s) :
                                                      proof.feature = f}
         IN /\ \A s \in Declared[p] : \E run \in ledger : run.key = <<p, s>> /\ IsShown(run)
            /\ \A f \in Catalog : report.verification[f][p].scenarios = verified(f)

\* The planned checks and the verified features, derived one by one from the
\* receipts, tell the same: a check that verified in a scenario is a feature
\* verified there, one expected to fail is not, and only an unexercised profile
\* has checks without a result.
ViewsAgree ==
  report.written =>
    \A p \in ProfileSet :
      LET planned(f) == {check \in report.checks[p] : check.feature = f}
          having(check, outcome) ==
            {s \in DOMAIN check.executions : check.executions[s] = outcome}
      IN /\ \A f \in Catalog :
              report.verification[f][p].scenarios
                = UNION {having(check, "verified") : check \in planned(f)}
         /\ \A check \in report.checks[p] :
              having(check, "missing")
                = (IF p \in report.unexercised THEN DOMAIN check.executions ELSE {})
=============================================================================
