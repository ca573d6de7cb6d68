-------------------------------- MODULE SinkMC --------------------------------
(* Small instances of Sink: exports that are small, large, undecodable, over *)
(* budget while decoding, or too large once decoded.                        *)
EXTENDS Sink

Export(protocol, signal, spans, body, decoded, working, retained, decodes) ==
  [protocol |-> protocol, signal |-> signal, spans |-> spans, body |-> body,
   decoded |-> decoded, working |-> working, retained |-> retained,
   decodes |-> decodes]

QuotaBatches ==
  {Export("otlp", "traces", 2, 1, 1, 0, 3, "ok"),
   Export("otlp", "metrics", 0, 1, 1, 0, 1, "ok"),
   Export("otlp", "logs", 0, 1, 5, 0, 2, "ok"),
   Export("otlp", "logs", 0, 1, 0, 0, 1, "malformed"),
   Export("otlp", "traces", 1, 1, 0, 0, 1, "limit"),
   Export("datadog", "traces", 1, 1, 1, 3, 2, "ok"),
   Export("datadog", "traces", 3, 2, 2, 0, 4, "ok")}

StorageBatches ==
  {Export("otlp", "traces", 1, 1, 1, 0, 2, "ok"),
   Export("otlp", "logs", 0, 1, 1, 0, 1, "ok"),
   Export("datadog", "traces", 1, 1, 1, 1, 2, "ok")}

SameDecodedLimit == [p \in Protocols |-> 4]
=============================================================================
