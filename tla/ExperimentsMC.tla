---------------------------- MODULE ExperimentsMC ----------------------------
(* Captures of a workload of two tagged requests and one registration *)
EXTENDS Experiments

App == [service |-> "external-probe", probe |-> "", rest |-> "sdk"]
Attr(key, len) == [key |-> key, len |-> len]

Span(id, trace, parent, name, server, attrs, events) ==
  [id |-> id, trace |-> trace, parent |-> parent, name |-> name, server |-> server,
   attrs |-> attrs, dropped |-> 0, events |-> events, lost |-> 0, res |-> App, batch |-> 1]

Event(name, attrs) == [name |-> name, attrs |-> attrs, dropped |-> 0]

Log(body, attrs, trace, span) ==
  [body |-> body, attrs |-> attrs, dropped |-> 0, trace |-> trace, span |-> span,
   res |-> App, batch |-> 1]

Point(name, state, type, count, exemplars) ==
  [name |-> name, state |-> state, type |-> type, count |-> count,
   exemplars |-> exemplars, res |-> App, group |-> 1]

Request(id, trace) ==
  Span(id, trace, Remote, "tags", TRUE,
       {Attr("agent", UserAgent), Attr("route", 6), Attr("method", 3)}, <<>>)

Full ==
  [spans |->
     <<Span(3, 1, 1, "query", FALSE, {Attr("statement", 12)},
            <<Event("cache", {Attr("key", 11), Attr("hit", 1), Attr("size", 2)})>>),
       Request(1, 1), Request(2, 2),
       Span(4, 100, Nowhere, "users", TRUE, {Attr("route", 7)}, <<>>)>>,
   logs |->
     <<Log("tags", {Attr("path", 12), Attr("status", 3), Attr("time", 4)}, 1, 1),
       Log("tags", {Attr("path", 12), Attr("status", 3), Attr("size", 5)}, 2, 2),
       Log("boot", {Attr("status", 3)}, 0, 0)>>,
   points |->
     <<Point("duration", "", "histogram", 2, "valid"),
       Point("active", "", "sum", 1, "none"),
       Point("connections", "open", "sum", 1, "none")>>]

(* Nothing is sampled: the exemplars come from the remote parent only. *)
Dark ==
  [spans |-> <<>>,
   logs |-> Full.logs,
   points |->
     <<Point("duration", "", "histogram", 2, "none"),
       Point("active", "", "sum", 1, "valid"),
       Point("active", "idle", "sum", 1, "none")>>]

Traces == [Full EXCEPT !.logs = <<>>, !.points = <<>>]

MCBaselines == {Full, Dark, Traces}
=============================================================================
