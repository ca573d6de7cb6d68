---------------------------- MODULE ParallelRunMC ----------------------------
(* A small instance of ParallelRun: two executions under an application that *)
(* confuses contexts or parents, an execution of two requests, a ledger and  *)
(* a sink that overflow, and a span of the startup that may come late.       *)
EXTENDS ParallelRun

Bare == [context |-> TRUE, queries |-> 0]
With == [context |-> TRUE, queries |-> 1]
Plain == [context |-> FALSE, queries |-> 0]

SettingOf(plan, maxStressRequests, maxRecords, confuses, startup) ==
  [plan |-> plan, maxStressRequests |-> maxStressRequests,
   maxRecords |-> maxRecords, confuses |-> confuses, startup |-> startup]

SmallSettings ==
  {SettingOf(<<<<Bare>>, <<Bare>>>>, 2, 2, "contexts", 2),
   SettingOf(<<<<With>>, <<With>>>>, 2, 4, "parents", 1),
   SettingOf(<<<<Plain>>, <<With>>>>, 2, 3, "contexts", 1),
   SettingOf(<<<<Plain>>, <<Plain, Plain>>>>, 3, 3, "nothing", 1),
   SettingOf(<<<<Plain>>, <<With>>>>, 1, 1, "nothing", 1)}
=============================================================================
