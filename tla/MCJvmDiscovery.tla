--------------------------- MODULE MCJvmDiscovery ---------------------------
(* Instances of JvmDiscovery. *)
EXTENDS JvmDiscovery

CONSTANTS p1, p2, c1, g1

(* With and without perf data and Docker's answer, the two JVMs meet every *)
(* two neighbours in the order of the rules, but for the last two.         *)
MCProgram == {
  [exe |-> "java", said |-> {"jar"}, perf |-> {"spring", "jar", "agent"}, unit |-> TRUE,
   container |-> c1],
  [exe |-> "embeds libjvm", said |-> {"main"}, perf |-> {"otel", "spring"}, unit |-> TRUE,
   container |-> NoContainer],
  [exe |-> "other", said |-> {}, perf |-> {}, unit |-> TRUE, container |-> NoContainer]}

MCGatewayOf == [c \in {c1, NoContainer} |-> IF c = c1 THEN g1 ELSE NoGateway]
=============================================================================
