----------------------------- MODULE MCPipeline -----------------------------
(* Instances of Pipeline: a gRPC export of two spans, an HTTP export of    *)
(* one span, and an HTTP export of one metric.                             *)
EXTENDS Pipeline

CONSTANTS e1, e2, e3

MCPayload == [e \in Exporter |-> CASE e = e1 -> <<1, 2>>
                                   [] e = e2 -> <<3>>
                                   [] e = e3 -> <<4>>]
MCItem == UNION {Items(MCPayload[e]) : e \in Exporter}
MCLaneOf == [e \in Exporter |-> IF e = e3 THEN "metric" ELSE "span"]
MCTransportOf == [e \in Exporter |-> IF e = e1 THEN "grpc" ELSE "http"]

MCQueueSize == [span |-> 2, metric |-> 1]
=============================================================================
