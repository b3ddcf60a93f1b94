---------------------------- MODULE MCReplication ----------------------------
(***************************************************************************)
(* A dataset at a master and at its slave, in one model: the commands that *)
(* both execute, or the way of the slave to the dataset of the master.  A  *)
(* behaviour is about one of the two.                                      *)
(***************************************************************************)
EXTENDS Keyspace, Replica

VARIABLE part    \* what this behaviour is about

\* Two keys of one database and one of another.
KeyMC == {<<0, "a">>, <<0, "b">>, <<1, "a">>}

\* A number, and a text of two letters, too long for a zipmap.
ElemMC == {<<1>>, <<0, 0>>}

Init == KInit /\ RepInit /\ part \in {"commands", "replica"}

Next ==
  /\ UNCHANGED part
  /\ \/ part = "commands" /\ KNext /\ UNCHANGED repvars
     \/ part = "replica" /\ RepNext /\ UNCHANGED kvars
     \/ part = "replica" /\ UNCHANGED <<kvars, repvars>>    \* the master may have no more commands

\* serverCron tries again and again, the event loop serves the master, and the master
\* answers a SYNC.
ReplicaFairness == WF_repvars(part = "replica" /\ SyncStep)

Spec == Init /\ [][Next]_<<kvars, repvars, part>> /\ ReplicaFairness
=============================================================================
