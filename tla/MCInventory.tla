---------------------------- MODULE MCInventory ----------------------------
(* Instances of Inventory for TLC. *)
EXTENDS Inventory, TLC

CONSTANTS k1, p1, w1, w2

OnePid == [k \in Key |-> p1]

PlainOnly == [k \in Key |-> {"plain"}]
(* The Java version and the service name, on which the filter decides, are *)
(* incomplete until the perf data appears; so are the VM's arguments.      *)
Varied    == [k \in Key |-> {"plain", "unsupported", "excluded"}]
Preloaded == [k \in Key |-> {"plain", "preloaded"}]

WorkerSymmetry == Permutations(Worker)
=============================================================================
