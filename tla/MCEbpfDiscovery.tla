-------------------------- MODULE MCEbpfDiscovery --------------------------
(* Instances of EbpfDiscovery.  A name is a sequence, so that "%s-%d" is   *)
(* Append.                                                                 *)
EXTENDS EbpfDiscovery, Sequences, TLC

CONSTANTS p1, p2

app == <<"app">>
nginx == <<"nginx">>

MCProgram == {
  [kind |-> "interpreter", base |-> <<"python">>, runtime |-> "python",
   title |-> app, built |-> FALSE],
  [kind |-> "binary", base |-> app, runtime |-> "go", title |-> NoName,
   built |-> TRUE],
  [kind |-> "server", base |-> nginx, runtime |-> "nginx", title |-> nginx,
   built |-> FALSE],
  [kind |-> "fpm", base |-> <<"php-fpm">>, runtime |-> "php", title |-> NoName,
   built |-> FALSE],
  [kind |-> "fpm", base |-> <<"php-fpm">>, runtime |-> "php", title |-> app,
   built |-> FALSE],
  [kind |-> "denied", base |-> <<"docker-proxy">>, runtime |-> "go",
   title |-> NoName, built |-> TRUE]}

MCBase == {app, nginx, <<"python">>, <<"php-fpm">>, <<"docker-proxy">>}
MCSuffixed == [np \in BaseName \X Port |-> Append(np[1], np[2])]
MCName == MCBase \cup {<<"apm2go">>} \cup {Append(n, port) : n \in MCBase, port \in Port}
MCSelf == [pid |-> NoPid, name |-> <<"apm2go">>, runtime |-> "go", ports |-> {}]

Symmetry == Permutations(Pid)
=============================================================================
