---------------------------- MODULE MCRpcSystem ----------------------------
(* Instances of RpcSystem for TLC. *)
EXTENDS RpcSystem, TLC

\* Replicas are interchangeable, and so are calls that are treated alike.
HostSymmetry == Permutations(Hosts)
CallSymmetry == Permutations(Calls)

\* A behaviour is followed while it has at most one fault: a crash or stop of a process,
\* or a rejection.  The state the second one leads to is still checked.
OneFault ==
  crashes + Cardinality({d \in Deliveries : outcome[d] = "reject"}) <= 1
=============================================================================
