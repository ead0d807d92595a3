---------------------------- MODULE MCLifecycle ----------------------------
(* Small instances of Lifecycle for TLC. *)
EXTENDS LifecycleRefinement, TLC

\* Clients, servers and pids are interchangeable in safety runs.
Symmetry == Permutations(Client) \cup Permutations(Server) \cup Permutations(Pid)

\* One port, from the configuration; or any port, chosen on the command line
\* or not.
ConfiguredPort == [port : Port, explicit : {FALSE}]
AnyPort == [port : Port, explicit : BOOLEAN]

\* Programs that are not OVDB's have one port or one pid at a time, and of the
\* pids one that a file on disk still names.
Foreigners == Cardinality(alien) + Cardinality({p \in Port : bound[p] = Foreign})
FewForeigners ==
    /\ Foreigners <= 1
    /\ alien \subseteq {pid[s] : s \in {record, secret} \cap Server}

FewSpec == Init /\ [][Next /\ FewForeigners']_vars
=============================================================================
