------------------------------- MODULE Replica -------------------------------
(***************************************************************************)
(* The slave's side of replication (examples/redis-2.0.2/redis.c):         *)
(* serverCron connects to the master and syncWithMaster, which blocks the  *)
(* slave, fetches a dump and loads it; from then on the master's commands  *)
(* come as those of a client.  The master's side is in Persist; here it    *)
(* is what a slave sees of it (external).  Any step can fail, the link can *)
(* break, the slave can crash and start again from its dump file, and the  *)
(* user can make it a master and a slave again.                            *)
(*                                                                         *)
(* Left out: the append only file, which the slave rewrites after a        *)
(* synchronization (Persist has the rewrite), and slaves of the slave.     *)
(*                                                                         *)
(* Commands come in one order, so that a dataset is the number of commands *)
(* that made it: version 0 is the empty one.                               *)
(***************************************************************************)
EXTENDS Integers, Sequences, SequencesExt

CONSTANTS MasterAuth,     \* masterauth is configured
          Chunks,         \* reads that a dump takes
          MaxCommands,    \* bound: commands of the master
          MaxFaults       \* bound: failures and commands of the user

VARIABLES executed,  \* commands the master has executed
          link,      \* the connection: SYNC received, version of the dump, commands behind it
          replica,   \* place in syncWithMaster, replstate, dataset, dump file, reads of the
                     \* dump, and whether a write of it was cut short
          faults

repvars == <<executed, link, replica, faults>>

NoDump == -1
Diverged == -2
Partial == -3
Short == -4       \* what is in a dump file that lacks bytes of the dump

Closed == [open |-> FALSE, asked |-> FALSE, dump |-> NoDump, cmds |-> <<>>]

RepInit ==
  /\ executed = 0 /\ link = Closed
  /\ replica = [pc |-> "events", replstate |-> "connect", data |-> 0, file |-> NoDump, temp |-> 0,
              short |-> FALSE]
  /\ faults = 0

\* A dataset after command number k.
Applied(data, k) == IF data = Short THEN Short ELSE IF data = k - 1 THEN k ELSE Diverged

-----------------------------------------------------------------------------
(* The master *)

masterCommand ==
  /\ executed < MaxCommands
  /\ executed' = executed + 1
  /\ link' = IF link.dump # NoDump THEN [link EXCEPT !.cmds = Append(@, executed + 1)] ELSE link
  /\ UNCHANGED <<replica, faults>>

\* The background save for this slave starts: commands are collected from here on.
masterSaves ==
  /\ link.asked /\ link.dump = NoDump
  /\ link' = [link EXCEPT !.dump = executed]
  /\ UNCHANGED <<executed, replica, faults>>

-----------------------------------------------------------------------------
(* syncWithMaster *)

At(pc) == replica.pc = pc

connect ==
  /\ At("events") /\ replica.replstate = "connect"
  /\ link' = [Closed EXCEPT !.open = TRUE]
  /\ replica' = [replica EXCEPT !.pc = IF MasterAuth THEN "auth" ELSE "sync"]
  /\ UNCHANGED <<executed, faults>>

\* AUTH is written and its answer read.
authenticate ==
  /\ At("auth")
  /\ replica' = [replica EXCEPT !.pc = "sync"]
  /\ UNCHANGED <<executed, link, faults>>

writeSync ==
  /\ At("sync")
  /\ link' = [link EXCEPT !.asked = TRUE]
  /\ replica' = [replica EXCEPT !.pc = "bulk"]
  /\ UNCHANGED <<executed, faults>>

\* The bulk count arrives when the master's save is over; a temporary file is opened.
readCount ==
  /\ At("bulk") /\ link.dump # NoDump
  /\ replica' = [replica EXCEPT !.pc = "dump", !.temp = 0, !.short = FALSE]
  /\ UNCHANGED <<executed, link, faults>>

AllRead(n) == n = Chunks

\* A piece of the dump is read and written to the temporary file.
readDump ==
  /\ At("dump")
  /\ replica' = IF AllRead(replica.temp) THEN [replica EXCEPT !.pc = "rename"] ELSE [replica EXCEPT !.temp = @ + 1]
  /\ UNCHANGED <<executed, link, faults>>

\* The write takes a part of the piece, which is not noticed: only -1 is an error.
writeCut ==
  /\ At("dump") /\ ~AllRead(replica.temp) /\ faults < MaxFaults
  /\ replica' = [replica EXCEPT !.temp = @ + 1, !.short = TRUE]
  /\ faults' = faults + 1
  /\ UNCHANGED <<executed, link>>

renameDump ==
  /\ At("rename")
  /\ replica' = [replica EXCEPT !.pc = "load",
                               !.file = IF replica.short THEN Short
                                        ELSE IF replica.temp = Chunks THEN link.dump ELSE Partial]
  /\ UNCHANGED <<executed, link, faults>>

\* Mutant of loadDump: the dump is loaded at the next start only.
MutNotLoaded ==
  /\ At("load")
  /\ replica' = [replica EXCEPT !.pc = "events", !.replstate = "connected"]
  /\ UNCHANGED <<executed, link, faults>>

\* emptyDb and rdbLoad; the connection becomes the client server.master.
loadDump ==
  /\ At("load")
  /\ replica' = [replica EXCEPT !.pc = "events", !.data = replica.file, !.replstate = "connected"]
  /\ UNCHANGED <<executed, link, faults>>

\* rdbLoad meets the end of the file too early, at a synchronization or at a start, and
\* ends the process; nothing but the user's hand makes it start again.
Exited(s) == [s EXCEPT !.pc = "exited", !.replstate = "none", !.data = 0]

loadExits ==
  /\ At("load") /\ replica.file = Short
  /\ replica' = Exited(replica) /\ link' = Closed
  /\ UNCHANGED <<executed, faults>>

\* An error anywhere in syncWithMaster: the connection is closed, and serverCron will try
\* again.  When it is rdbLoad that fails the dataset is already gone.
syncFails ==
  /\ ~At("events") /\ ~At("exited") /\ faults < MaxFaults
  /\ replica' = [replica EXCEPT !.pc = "events", !.data = IF At("load") THEN 0 ELSE @]
  /\ link' = Closed /\ faults' = faults + 1
  /\ UNCHANGED executed

-----------------------------------------------------------------------------
(* The event loop *)

\* A command of the master is executed.
readQueryFromMaster ==
  /\ At("events") /\ replica.replstate = "connected" /\ link.cmds # <<>>
  /\ replica' = [replica EXCEPT !.data = Applied(@, Head(link.cmds))]
  /\ link' = [link EXCEPT !.cmds = Tail(@)]
  /\ UNCHANGED <<executed, faults>>

\* Mutant of FreedMaster: the state of replication stays as it is.
MutStaysConnected(s) == s

\* freeClient of the master: it will be connected to again.
FreedMaster(s) == [s EXCEPT !.replstate = "connect"]

linkLost ==
  /\ At("events") /\ replica.replstate = "connected" /\ faults < MaxFaults
  /\ replica' = FreedMaster(replica)
  /\ link' = Closed /\ faults' = faults + 1
  /\ UNCHANGED executed

\* SLAVEOF NO ONE, or SLAVEOF this master once more.
slaveofCommand(noone) ==
  /\ At("events") /\ faults < MaxFaults
  /\ replica' = [replica EXCEPT !.replstate = IF noone THEN "none" ELSE "connect"]
  /\ link' = Closed /\ faults' = faults + 1
  /\ UNCHANGED executed

\* A save of the slave's own.
rdbSaved ==
  /\ At("events") /\ replica.file # replica.data
  /\ replica' = [replica EXCEPT !.file = replica.data]
  /\ UNCHANGED <<executed, link, faults>>

\* The slave crashes and starts again.
Restarted(s) ==
  [s EXCEPT !.pc = "events", !.replstate = "connect", !.data = IF s.file = NoDump THEN 0 ELSE s.file]

crash ==
  /\ ~At("exited") /\ faults < MaxFaults
  /\ \/ replica' = Restarted(replica)
     \/ replica.file = Short /\ replica' = Exited(replica)
  /\ link' = Closed /\ faults' = faults + 1
  /\ UNCHANGED executed

SyncStep ==
  \/ masterSaves \/ connect \/ authenticate \/ writeSync \/ readCount \/ readDump \/ renameDump
  \/ loadDump \/ loadExits \/ readQueryFromMaster

RepNext ==
  \/ masterCommand \/ SyncStep
  \/ writeCut \/ syncFails \/ linkLost \/ crash \/ rdbSaved
  \/ \E noone \in BOOLEAN : slaveofCommand(noone)

-----------------------------------------------------------------------------
\* A slave that is connected, or about to be, has what the master has but for the commands
\* that are on their way: none is lost or applied twice between the dump and the stream.
\* Excepted is a dataset from a dump file that was written short.
ConnectedIsCurrent ==
  /\ replica.replstate = "connected" /\ replica.data # Short => replica.data + Len(link.cmds) = executed
  /\ replica.pc \in {"dump", "rename", "load"} => link.dump + Len(link.cmds) = executed

\* Whatever fails and whenever it crashes, the slave and its file hold a state that the
\* master was in, never a part of a dump or a mixture, unless a write to the dump file was
\* cut short; only over such a file does the slave end by itself.
OnlyVersions ==
  /\ replica.data \in {Short} \cup 0 .. executed
  /\ replica.file \in {NoDump, Short} \cup 0 .. executed
  /\ At("exited") => replica.file = Short

\* "Slaves are able to automatically reconnect when the master <-> slave link goes down for
\* some reason": when failures end, the slave has all that the master has, or what it read
\* from a dump file that was written short.
CatchesUp == <>[](replica.replstate # "none" => replica.data \in {Short, executed})

\* At every step of a synchronization, and after every failure and crash, the slave holds some
\* version of the master's dataset, and the current one when it says it is connected, but for
\* a dump file that lacks bytes because a short write was not noticed.
ReplicaSound == ConnectedIsCurrent /\ OnlyVersions
=============================================================================
