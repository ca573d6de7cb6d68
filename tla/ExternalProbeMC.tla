--------------------------- MODULE ExternalProbeMC ---------------------------
(* A small instance of ExternalProbe: a run of one experiment, of each kind:  *)
(* with a control and a burst, with a known startup rejection, with a known   *)
(* workload rejection.                                                       *)
EXTENDS ExternalProbe, TLC

SomeSuites == {<<"log-batch">>, <<"span-length">>, <<"propagation-none">>}
SomeControls == "log-batch" :> "log-batch-control"
SomeRejections ==
  "span-length" :> "startup_rejected" @@ "propagation-none" :> "workload_rejected"
SomeBursty == {"log-batch", "log-batch-control"}
SomeGolden ==
  <<"log-batch">> :> ("log-batch" :> "pass") @@
  <<"span-length">> :> ("span-length" :> "startup_rejected") @@
  <<"propagation-none">> :> ("propagation-none" :> "workload_rejected")
=============================================================================
