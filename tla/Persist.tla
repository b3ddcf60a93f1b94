------------------------------ MODULE Persist -------------------------------
(***************************************************************************)
(* How redis keeps and copies its dataset (examples/redis-2.0.2/redis.c):  *)
(* the dump that a child writes, the append only file and its rewriting by *)
(* another child, and the synchronization of slaves, with children that    *)
(* fail or are killed, forks that fail, and crashes of the server.         *)
(*                                                                         *)
(* A dataset tells how often each database was changed, which is what an   *)
(* INCR does: a command that is lost, applied twice or applied to another  *)
(* database shows.  A file or a slave is abstracted to what has become of  *)
(* the commands it received: a dataset and the database that is selected.  *)
(*                                                                         *)
(* The event loop flushes the append only file, serves what the clients    *)
(* have sent, and then runs serverCron: phase is "files" until it has run, *)
(* and "cron" until the next turn of the loop.                             *)
(***************************************************************************)
EXTENDS Integers, Sequences, FiniteSets

CONSTANTS Db,           \* the databases, 0 among them
          Slave,
          NoChild,
          MaxOps,       \* bound: commands that are served
          MaxCrash      \* bound: crashes

ASSUME PersistDbAssumption == 0 \in Db /\ Db \subseteq Nat /\ IsFiniteSet(Db)
ASSUME PersistNoChildAssumption ==
  NoChild \notin [data : [Db -> Nat], is : {"running", "ok", "error", "killed", "flushed"}]

VARIABLES conf, appendonly,       \* in redis.conf, and now
          data, dirty, dirty_before_bgsave,
          dump,                   \* dump.rdb
          bgsave,                 \* the child that saves: its dataset and how it is
          bgrewrite,              \* the child that rewrites: the same
          aof,                    \* appendonly.aof
          aofbuf, bgrewritebuf, appendseldb,
          slaves,
          phase,
          ops, crashes,
          whole,                  \* the append only file began with all there was
          met                     \* which of the known defects have shown

rdb == <<dirty, dirty_before_bgsave, dump, bgsave>>
log == <<appendonly, bgrewrite, aof, aofbuf, bgrewritebuf, appendseldb, whole>>
pvars == <<conf, data, rdb, log, slaves, phase, ops, crashes, met>>

Empty == [d \in Db |-> 0]
Fresh == [data |-> Empty, db |-> 0]

-----------------------------------------------------------------------------
\* Commands in a buffer: <<"select", d>>, <<"incr">>, <<"flushall">>, <<"save">>

Run(r, e) == CASE e[1] = "select" -> [r EXCEPT !.db = e[2]]
               [] e[1] = "incr" -> [r EXCEPT !.data[r.db] = @ + 1]
               [] e[1] = "flushall" -> [r EXCEPT !.data = Empty]
               [] OTHER -> r
RunAll(r, buf) ==
  LET ran[n \in 0 .. Len(buf)] == IF n = 0 THEN r ELSE Run(ran[n - 1], buf[n]) IN ran[Len(buf)]

\* What a client in database d has done, for somebody who is in seldb.
InDb(seldb, d, e) == IF seldb = d THEN <<e>> ELSE << <<"select", d>>, e>>

\* rewriteAppendOnlyFile: each database that has something after its SELECT.
rewriteAppendOnlyFile(snap) ==
  LET used == {d \in Db : snap[d] > 0}
  IN  [data |-> snap, db |-> IF used = {} THEN 0 ELSE CHOOSE d \in used : \A e \in used : e <= d]

-----------------------------------------------------------------------------
\* Slaves: the state of the connection, what is to be sent, the dump that is
\* being sent, and what the slave has.

NoSlave == [st |-> "none", buf |-> << >>, seldb |-> 0, has |-> Fresh]

\* "Don't feed slaves that are still waiting for BGSAVE to start".
Fed(sl) == sl.st \in {"end", "bulk", "online"}

replicationFeedSlaves(sls, d, e) ==
  [s \in Slave |-> IF Fed(sls[s]) THEN [sls[s] EXCEPT !.buf = @ \o InDb(sls[s].seldb, d, e), !.seldb = d]
                   ELSE sls[s]]

\* Mutant of feedAppendOnlyFile: nothing is kept for the file being rewritten.
MutNoDiff(d, e) ==
  /\ aofbuf' = aofbuf \o InDb(appendseldb, d, e)
  /\ UNCHANGED bgrewritebuf
  /\ appendseldb' = d

feedAppendOnlyFile(d, e) ==
  /\ aofbuf' = aofbuf \o InDb(appendseldb, d, e)
  /\ bgrewritebuf' = IF bgrewrite # NoChild THEN bgrewritebuf \o InDb(appendseldb, d, e) ELSE bgrewritebuf
  /\ appendseldb' = d

\* The end of call(): the command is propagated when dirty is not what it was.
Propagate(d, e) ==
  /\ IF appendonly /\ dirty' # dirty THEN feedAppendOnlyFile(d, e)
     ELSE UNCHANGED <<aofbuf, bgrewritebuf, appendseldb>>
  /\ slaves' = IF dirty' # dirty THEN replicationFeedSlaves(slaves, d, e) ELSE slaves
  /\ UNCHANGED <<appendonly, bgrewrite, aof, whole>>

-----------------------------------------------------------------------------
\* Commands

Serving == phase = "files"

Request == Serving /\ ops < MaxOps /\ ops' = ops + 1

incrCommand(d) ==
  /\ Request
  /\ data' = [data EXCEPT ![d] = @ + 1]
  /\ dirty' = dirty + 1
  /\ Propagate(d, <<"incr">>)
  /\ UNCHANGED <<conf, dirty_before_bgsave, dump, bgsave, phase, crashes, met>>

\* SAVE changes dirty, and so it is propagated as well.
saveCommand(d, ok) ==
  /\ Request /\ bgsave = NoChild
  /\ dirty' = IF ok THEN 0 ELSE dirty
  /\ dump' = IF ok THEN data ELSE dump
  /\ Propagate(d, <<"save">>)
  /\ UNCHANGED <<conf, data, dirty_before_bgsave, bgsave, phase, crashes, met>>

\* The child is killed unless it has ended; then everything is saved at once.
\* Defect "flushall": dirty is 1 before and after, and nothing is propagated.
\* Defect "negative": the child had ended, and what it saved will be taken off.
flushallCommand(d, ok) ==
  /\ Request
  /\ data' = Empty
  /\ dump' = IF ok THEN Empty ELSE dump
  /\ dirty' = IF ok THEN 1 ELSE dirty + Cardinality({x \in Db : data[x] > 0}) + 1
  /\ bgsave' = IF bgsave # NoChild /\ bgsave.is = "running" THEN [bgsave EXCEPT !.is = "flushed"] ELSE bgsave
  /\ Propagate(d, <<"flushall">>)
  /\ met' = met \cup (IF dirty' = dirty THEN {"flushall"} ELSE {})
                \cup (IF ok /\ bgsave # NoChild /\ bgsave.is = "ok" /\ dirty_before_bgsave > 0 THEN {"negative"} ELSE {})
  /\ UNCHANGED <<conf, dirty_before_bgsave, phase, crashes>>

Child(snap) == [data |-> snap, is |-> "running"]

\* Its caller says what was dirty; dirty_before_bgsave is set even if fork fails.
rdbSaveBackground(n, snap, forked) ==
  /\ dirty_before_bgsave' = n
  /\ bgsave' = IF forked THEN Child(snap) ELSE NoChild

bgsaveCommand(forked) ==
  /\ Request /\ bgsave = NoChild
  /\ rdbSaveBackground(dirty, data, forked)
  /\ UNCHANGED <<conf, data, dirty, dump, log, slaves, phase, crashes, met>>

rewriteAppendOnlyFileBackground(forked) ==
  /\ bgrewrite' = IF forked THEN Child(data) ELSE NoChild
  /\ appendseldb' = IF forked THEN -1 ELSE appendseldb

bgrewriteaofCommand(forked) ==
  /\ Request /\ bgrewrite = NoChild
  /\ rewriteAppendOnlyFileBackground(forked)
  /\ UNCHANGED <<conf, data, rdb, appendonly, aof, aofbuf, bgrewritebuf, whole, slaves, phase, crashes, met>>

\* CONFIG SET appendonly yes.  The file that was there is appended to until it
\* has been rewritten.  With a rewriting under way it cannot be switched on.
\* Defect "unopened": the file cannot be opened, the client is told of an error, and
\* appendonly stays on without a file; the next flush that has something ends the server.
startAppendOnly(opened, forked) ==
  /\ Request /\ ~appendonly
  /\ opened => bgrewrite = NoChild
  /\ IF opened THEN rewriteAppendOnlyFileBackground(forked) ELSE UNCHANGED <<bgrewrite, appendseldb>>
  /\ appendonly' = (opened => forked)
  /\ whole' = FALSE
  /\ met' = met \cup (IF opened THEN {} ELSE {"unopened"})
  /\ UNCHANGED <<conf, data, rdb, aof, aofbuf, bgrewritebuf, slaves, phase, crashes>>

\* CONFIG SET appendonly no.  The comment says that the rewriting is killed; it
\* is the child that saves.  Defect "forgotten": slaves that wait for its end.
\* Defect "mixed": the diffs of the rewriting that goes on are dropped.
stopAppendOnly ==
  /\ Request /\ appendonly
  /\ aof' = RunAll(aof, aofbuf) /\ aofbuf' = << >>
  /\ appendseldb' = -1 /\ appendonly' = FALSE
  /\ bgrewritebuf' = IF bgsave # NoChild THEN << >> ELSE bgrewritebuf
  /\ bgsave' = NoChild
  /\ met' = met \cup (IF bgsave # NoChild /\ \E s \in Slave : slaves[s].st \in {"start", "end"} THEN {"forgotten"} ELSE {})
                \cup (IF bgsave # NoChild /\ bgrewrite # NoChild THEN {"mixed"} ELSE {})
  /\ UNCHANGED <<conf, data, dirty, dirty_before_bgsave, dump, bgrewrite, whole, slaves, phase, crashes>>

-----------------------------------------------------------------------------
\* Synchronization, on the master

\* Another slave that waits for the end of the save shares what it registers.
\* Defect "seldb": the copied buffer has selected another database than 0.
syncCommand(s, forked) ==
  /\ Request /\ slaves[s].st = "none"
  /\ \/ /\ bgsave # NoChild
        /\ \E t \in Slave :
             /\ slaves[t].st = "end"
             /\ slaves' = [slaves EXCEPT ![s] = [NoSlave EXCEPT !.st = "end", !.buf = slaves[t].buf]]
             /\ met' = met \cup (IF slaves[t].seldb # 0 THEN {"seldb"} ELSE {})
        /\ UNCHANGED rdb
     \/ /\ bgsave # NoChild
        /\ \A t \in Slave : slaves[t].st # "end"
        /\ slaves' = [slaves EXCEPT ![s] = [NoSlave EXCEPT !.st = "start"]]
        /\ UNCHANGED <<rdb, met>>
     \/ /\ bgsave = NoChild
        /\ rdbSaveBackground(dirty, data, forked)
        /\ slaves' = IF forked THEN [slaves EXCEPT ![s] = [NoSlave EXCEPT !.st = "end"]] ELSE slaves
        /\ UNCHANGED <<dirty, dump, met>>
  /\ UNCHANGED <<conf, data, log, phase, crashes>>

\* The slaves for which the save that has ended was begun.
WaitingFor(sls) == {s \in Slave : sls[s].st = "end"}

\* updateSlavesWaitingBgsave, with the dump that is there now.
Served(sls, ok) ==
  [s \in Slave |-> IF s \in WaitingFor(sls)
                   THEN IF ok THEN [sls[s] EXCEPT !.st = "bulk", !.has = [data |-> dump, db |-> 0]] ELSE NoSlave
                   ELSE IF sls[s].st = "start" THEN [sls[s] EXCEPT !.st = "end"]
                   ELSE sls[s]]

\* The whole dump was sent, and the slave has loaded it.
sendBulkToSlave(s) ==
  /\ Serving /\ slaves[s].st = "bulk"
  /\ slaves' = [slaves EXCEPT ![s].st = "online"]
  /\ UNCHANGED <<conf, data, rdb, log, phase, ops, crashes, met>>

sendReplyToSlave(s) ==
  /\ Serving /\ slaves[s].st = "online" /\ slaves[s].buf # << >>
  /\ slaves' = [slaves EXCEPT ![s].buf = << >>, ![s].has = RunAll(@, slaves[s].buf)]
  /\ UNCHANGED <<conf, data, rdb, log, phase, ops, crashes, met>>

\* In the middle of the bulk, or of anything.
slaveLost(s) ==
  /\ Serving /\ slaves[s].st # "none"
  /\ slaves' = [slaves EXCEPT ![s] = NoSlave]
  /\ UNCHANGED <<conf, data, rdb, log, phase, ops, crashes, met>>

-----------------------------------------------------------------------------
\* Children

\* rdbSave, in the child: the file is replaced as a whole or not at all.
childSaves(how) ==
  /\ bgsave # NoChild /\ bgsave.is = "running"
  /\ bgsave' = [bgsave EXCEPT !.is = how]
  /\ dump' = IF how = "ok" THEN bgsave.data ELSE dump
  /\ UNCHANGED <<conf, data, dirty, dirty_before_bgsave, log, slaves, phase, ops, crashes, met>>

childRewrites(how) ==
  /\ bgrewrite # NoChild /\ bgrewrite.is = "running"
  /\ bgrewrite' = [bgrewrite EXCEPT !.is = how]
  /\ UNCHANGED <<conf, data, rdb, appendonly, aof, aofbuf, bgrewritebuf, appendseldb, whole, slaves, phase, ops,
                 crashes, met>>

Ended(child) == child # NoChild /\ child.is # "running"

DirtyAfter(how) == IF how = "ok" THEN dirty - dirty_before_bgsave ELSE dirty

\* Mutant of backgroundSaveDoneHandler: the save some wait for is not started.
MutNextNotStarted(forked) ==
  LET how == bgsave.is
      next == \E s \in Slave : slaves[s].st = "start"
  IN  /\ dirty' = DirtyAfter(how)
      /\ slaves' = Served(slaves, how # "error")
      /\ bgsave' = NoChild /\ UNCHANGED dirty_before_bgsave
      /\ met' = met \cup (IF how = "killed" /\ WaitingFor(slaves) # {} THEN {"killed"} ELSE {})
                    \cup (IF next /\ ~forked THEN {"forgotten"} ELSE {})
      /\ UNCHANGED <<dump, log>>

\* The exit code of a child that was killed reads as 0: the slaves are served.
\* Defect "killed": they get the dump of an earlier save.
\* Defect "forgotten": the next save cannot be started.
backgroundSaveDoneHandler(forked) ==
  LET how == bgsave.is
      next == \E s \in Slave : slaves[s].st = "start"
  IN  /\ dirty' = DirtyAfter(how)
      /\ slaves' = Served(slaves, how # "error")
      /\ IF next THEN rdbSaveBackground(dirty', data, forked)
         ELSE bgsave' = NoChild /\ UNCHANGED dirty_before_bgsave
      /\ met' = met \cup (IF how = "killed" /\ WaitingFor(slaves) # {} THEN {"killed"} ELSE {})
                    \cup (IF next /\ ~forked THEN {"forgotten"} ELSE {})
      /\ UNCHANGED <<dump, log>>

\* moved: the file could be opened, written and renamed.  Defect "twice": what
\* aofbuf has is in the new file already, and will be written there again.
backgroundRewriteDoneHandler(moved) ==
  LET done == bgrewrite.is = "ok" /\ moved
  IN  /\ aof' = IF done THEN RunAll(rewriteAppendOnlyFile(bgrewrite.data), bgrewritebuf) ELSE aof
      /\ appendseldb' = IF done /\ appendonly THEN -1 ELSE appendseldb
      /\ whole' = (whole \/ done)
      /\ bgrewritebuf' = << >>
      /\ bgrewrite' = NoChild
      /\ met' = met \cup (IF done /\ aofbuf # << >> THEN {"twice"} ELSE {})
      /\ UNCHANGED <<rdb, appendonly, aofbuf, slaves>>

-----------------------------------------------------------------------------
\* The event loop

serverCron(b) ==
  /\ Serving
  /\ phase' = "cron"
  /\ \/ /\ ~Ended(bgsave) /\ ~Ended(bgrewrite)
        /\ UNCHANGED <<rdb, log, slaves, met>>
     \/ /\ Ended(bgsave)
        /\ backgroundSaveDoneHandler(b)
     \/ /\ Ended(bgrewrite)
        /\ backgroundRewriteDoneHandler(b)
     \/ /\ bgsave = NoChild /\ bgrewrite = NoChild /\ dirty >= 1
        /\ rdbSaveBackground(dirty, data, b)
        /\ UNCHANGED <<dirty, dump, log, slaves, met>>
  /\ UNCHANGED <<conf, data, ops, crashes>>

flushAppendOnlyFile ==
  /\ aof' = RunAll(aof, aofbuf)
  /\ aofbuf' = << >>

beforeSleep ==
  /\ \/ phase = "cron"
     \/ Serving /\ aofbuf # << >>
  /\ flushAppendOnlyFile
  /\ phase' = "files"
  /\ UNCHANGED <<conf, data, rdb, appendonly, bgrewrite, bgrewritebuf, appendseldb, whole, slaves, ops, crashes, met>>

\* The server and its children are killed; what was written stays.
crash ==
  /\ phase # "down" /\ crashes < MaxCrash
  /\ phase' = "down"
  /\ crashes' = crashes + 1
  /\ slaves' = [s \in Slave |-> NoSlave]
  /\ bgsave' = NoChild /\ bgrewrite' = NoChild
  /\ aofbuf' = << >> /\ bgrewritebuf' = << >>
  /\ UNCHANGED <<conf, data, dirty, dirty_before_bgsave, dump, appendonly, aof, appendseldb, whole, ops, met>>

\* main, initServer; the commands in the append only file count as changes.
start ==
  /\ phase = "down"
  /\ phase' = "files"
  /\ data' = IF conf THEN aof.data ELSE dump
  /\ dirty' = IF conf /\ aof.data # Empty THEN 1 ELSE 0
  /\ dirty_before_bgsave' = 0
  /\ appendonly' = conf /\ whole' = conf /\ appendseldb' = -1
  /\ aof' = aof
  /\ UNCHANGED <<conf, dump, bgsave, bgrewrite, aofbuf, bgrewritebuf, slaves, ops, crashes, met>>

PInit ==
  /\ conf \in BOOLEAN /\ appendonly = conf /\ whole = conf
  /\ data = Empty /\ dirty = 0 /\ dirty_before_bgsave = 0
  /\ dump = Empty /\ aof = Fresh
  /\ bgsave = NoChild /\ bgrewrite = NoChild
  /\ aofbuf = << >> /\ bgrewritebuf = << >> /\ appendseldb = -1
  /\ slaves = [s \in Slave |-> NoSlave]
  /\ phase = "files" /\ ops = 0 /\ crashes = 0 /\ met = {}

Step ==
  \/ \E d \in Db : incrCommand(d)
  \/ \E d \in Db, b \in BOOLEAN : saveCommand(d, b) \/ flushallCommand(d, b)
  \/ \E b \in BOOLEAN : bgsaveCommand(b) \/ bgrewriteaofCommand(b) \/ startAppendOnly(TRUE, b)
  \/ startAppendOnly(FALSE, FALSE)
  \/ stopAppendOnly
  \/ \E s \in Slave, b \in BOOLEAN : syncCommand(s, b)
  \/ \E s \in Slave : sendBulkToSlave(s) \/ sendReplyToSlave(s) \/ slaveLost(s)
  \/ \E how \in {"ok", "error", "killed"} : childSaves(how) \/ childRewrites(how)
  \/ \E b \in BOOLEAN : serverCron(b)
  \/ beforeSleep
  \/ crash
  \/ start

\* A behaviour is followed until it meets one of the known defects.
PNext == (met = {} /\ Step) \/ (met # {} /\ UNCHANGED pvars)

PSpec == PInit /\ [][PNext]_pvars

-----------------------------------------------------------------------------
\* The types of the state.
PersistTypeOK ==
  /\ data \in [Db -> Nat] /\ dump \in [Db -> Nat]
  /\ dirty \in Nat /\ dirty_before_bgsave \in Nat
  /\ appendseldb \in Db \cup {-1} /\ aof.db \in Db
  /\ phase \in {"files", "cron", "down"}
  /\ \A s \in Slave : slaves[s].st \in {"none", "start", "end", "bulk", "online"} /\ slaves[s].seldb \in Db
  /\ met \subseteq {"flushall", "negative", "forgotten", "mixed", "seldb", "killed", "twice", "unopened"}

\* "When you restart Redis it will re-play the AOF to rebuild the state": the
\* file, and what the next flush will add to it, give the dataset, through
\* rewritings that end, fail or are killed while commands are served.
AofRebuilds == appendonly /\ whole /\ phase # "down" => RunAll(aof, aofbuf).data = data

\* AofRebuilds, in every behaviour that has met none of the situations of met, in which the
\* code of flushallCommand, backgroundRewriteDoneHandler and stopAppendOnly leaves a file
\* that does not.
AofRebuildsUnlessMet == met = {} => AofRebuilds

\* A slave that gets what is in its buffer will have the dataset: the dump it
\* was or will be given, and the buffer, leave nothing out and nothing twice,
\* whenever it came and whoever else was being served.
SlaveWillMatch ==
  met = {} =>
    \A s \in Slave :
      /\ slaves[s].st \in {"bulk", "online"} => RunAll(slaves[s].has, slaves[s].buf).data = data
      /\ slaves[s].st = "end" /\ bgsave # NoChild /\ bgsave.is \in {"running", "ok"} =>
           RunAll([data |-> bgsave.data, db |-> 0], slaves[s].buf).data = data

\* A slave that waits for a save to end, or to start, waits for a child that
\* there is: nobody else would take it further.
WaitersHaveChild ==
  met = {} => \A s \in Slave : slaves[s].st \in {"start", "end"} => bgsave # NoChild

\* As long as the dump is behind the dataset, the changes are counted: the
\* save points will see them.
UnsavedIsDirty == met = {} /\ ~conf /\ phase # "down" /\ dump # data => dirty > 0

\* The append only file rebuilds the dataset, and changes that the dump lacks are counted,
\* through saves and rewritings that end, fail or are killed while commands are served and
\* through crashes; apart from the situations of met.
FilesSound == PersistTypeOK /\ AofRebuildsUnlessMet /\ UnsavedIsDirty

\* Every slave will have the dataset once it has received what is in its buffer, and none
\* waits for a child that does not exist (syncCommand, updateSlavesWaitingBgsave,
\* replicationFeedSlaves); apart from the situations of met.
SlavesSound == SlaveWillMatch /\ WaitersHaveChild
=============================================================================
