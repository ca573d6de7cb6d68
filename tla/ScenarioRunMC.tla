---------------------------- MODULE ScenarioRunMC ----------------------------
(* A small instance of ScenarioRun: two startup traces, one of which may     *)
(* come late, a startup log without a service name, two traces and a log of *)
(* the workload.                                                            *)
EXTENDS ScenarioRun

BatchOf(id, signal, spans, named) ==
  [id |-> id, signal |-> signal, spans |-> spans, named |-> named]

StartTrace == BatchOf(1, "traces", 1, TRUE)
SecondTrace == BatchOf(6, "traces", 1, TRUE)
StartLog == BatchOf(2, "logs", 0, FALSE)
WorkTrace == BatchOf(3, "traces", 1, TRUE)
LateTrace == BatchOf(4, "traces", 2, TRUE)
WorkLog == BatchOf(5, "logs", 0, TRUE)

StartBatches == {StartTrace, SecondTrace, StartLog}
WorkBatches == {WorkTrace, LateTrace, WorkLog}
TracesAndLogs == {"traces", "logs"}

(* Both traces of the workload, and no trace of the startup. *)
ExactTraces ==
  {S \in SUBSET (StartBatches \cup WorkBatches) :
     OfSignals(S, {"traces"}) = {WorkTrace, LateTrace}}

(* The program accepts the first trace alone, without a proof about the      *)
(* second.                                                                  *)
FirstTraceOnly ==
  {S \in SUBSET (StartBatches \cup WorkBatches) :
     OfSignals(S, {"traces"}) = {WorkTrace}}
=============================================================================
