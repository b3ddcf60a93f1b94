------------------------------ MODULE Clients -------------------------------
(***************************************************************************)
(* The clients of redis (examples/redis-2.0.2/redis.c): the commands that  *)
(* wait in their input buffers, blocking pops, MULTI and EXEC, publish and *)
(* subscribe, idle and blocking timeouts, and the end of a client.         *)
(*                                                                         *)
(* The server has one thread, and no event is served before the handler of *)
(* the last has returned.  But serving a blocked client runs, inside the   *)
(* command that pushed the element, the commands this client had queued    *)
(* behind its blocking pop: stack holds the calls that are under way, the  *)
(* innermost last, and a step is a step of the innermost.                  *)
(*                                                                         *)
(* Every key has a list or nothing, and no key is volatile; the elements   *)
(* are numbered in the order in which they are pushed.  The commands that  *)
(* change a dataset otherwise are those of Keyspace.                       *)
(***************************************************************************)
EXTENDS Integers, Sequences, FiniteSets, SequencesExt

CONSTANTS Client, Key, Channel, Pattern,
          Matches,            \* set of pairs of channel and pattern: stringmatchlen
          Program,            \* sequences of commands: what a client will send
          NIL,
          MaxBuf,             \* bound: commands in an input buffer
          MaxPushed           \* bound: elements pushed by the programs

ASSUME ClientsNilAssumption == NIL \notin Client
ASSUME ClientsFiniteAssumption == IsFiniteSet(Client)
ASSUME ClientsMatchesAssumption == Matches \subseteq Channel \X Pattern
ASSUME ClientsBoundAssumption == MaxBuf \in Nat /\ MaxPushed \in Nat

\* What the clients send: the arguments were checked by the time a command runs.
Command == UNION {ToSet(p) : p \in Program}

WellFormed(cmd) ==
  \/ cmd[1] \in {"push", "pop"} /\ cmd[2] \in Key
  \/ cmd[1] = "blpop" /\ cmd[2] \in Seq(Key) \ {<< >>} /\ cmd[3] \in BOOLEAN
  \/ cmd[1] \in {"rpoplpush", "rename"} /\ cmd[2] \in Key /\ cmd[3] \in Key
  \/ cmd[1] \in {"multi", "discard", "exec", "quit"}
  \/ cmd[1] = "subscribe" /\ cmd[2] \in Channel
  \/ cmd[1] = "unsubscribe" /\ cmd[2] \subseteq Channel
  \/ cmd[1] = "psubscribe" /\ cmd[2] \in Pattern
  \/ cmd[1] = "punsubscribe" /\ cmd[2] \subseteq Pattern

ASSUME ClientsProgramAssumption ==
  /\ \A p \in Program : p \in Seq(Command)
  /\ \A cmd \in Command : WellFormed(cmd)

VARIABLES clients,            \* server.clients
          client,             \* the redisClient structures
          lists,              \* the dataset
          blockingkeys,       \* db->blockingkeys
          pubsub_channels, pubsub_patterns,
          stack,              \* the calls under way
          slaveMulti,         \* the master client of a slave is in MULTI
          pushed,             \* how many elements were pushed
          todo,               \* what the clients have not sent
          got,                \* how often an element was given away
          order,              \* the blocked clients, since when
          renamed             \* keys that got their list from RENAME

data == <<lists, pushed, got, renamed>>
blocking == <<blockingkeys, order>>
pubsub == <<pubsub_channels, pubsub_patterns>>
cvars == <<clients, client, data, blocking, pubsub, stack, slaveMulti, todo>>

\* createClient; timed: blockingto is not 0.
NewClient == [buf |-> << >>, multi |-> FALSE, queue |-> << >>, bkeys |-> << >>, timed |-> FALSE,
              chans |-> {}, pats |-> {}]

Live(c) == c \in ToSet(clients)
Blocked(c) == client[c].bkeys # << >>
Subscribed(c) == client[c].chans \cup client[c].pats # {}

\* What s has of es, in the order of s.
Kept(s, es) ==
  LET kept[n \in 0 .. Len(s)] ==
        IF n = 0 THEN << >> ELSE IF s[n] \in es THEN Append(kept[n - 1], s[n]) ELSE kept[n - 1]
  IN  kept[Len(s)]
Without(s, es) == Kept(s, ToSet(s) \ es)
Count(s, e) == Cardinality({n \in DOMAIN s : s[n] = e})

-----------------------------------------------------------------------------
\* The stack

Top == Last(stack)
InCall(f) == Front(stack) \o f             \* instead of the innermost
\* server.dirty++: every call under way will find it changed.
Dirtied(s) == [n \in DOMAIN s |-> IF s[n][1] = "call" THEN <<"call", s[n][2], s[n][3], TRUE>> ELSE s[n]]
\* The nodes of the elements es are freed: rpoplpush may still have one in its hands.
Freed(s, es) == [n \in DOMAIN s |-> IF s[n][1] = "rpoplpush" /\ s[n][4] \in es
                                    THEN <<"rpoplpush", s[n][2], s[n][3], s[n][4], TRUE>> ELSE s[n]]
Input(c) == IF client[c].buf # << >> THEN << <<"input", c>> >> ELSE << >>

-----------------------------------------------------------------------------
\* Blocking pops

\* Mutant of blockForKeys: the client waits for the first of its keys only.
MutFirstKeyOnly(c, ks, timed, cl) ==
  /\ client' = [cl EXCEPT ![c].bkeys = ks, ![c].timed = timed]
  /\ blockingkeys' = [blockingkeys EXCEPT ![Head(ks)] = Append(@, c)]
  /\ order' = Append(order, c)

blockForKeys(c, ks, timed, cl) ==
  /\ client' = [cl EXCEPT ![c].bkeys = ks, ![c].timed = timed]
  /\ blockingkeys' = [k \in Key |-> blockingkeys[k] \o [n \in 1 .. Count(ks, k) |-> c]]
  /\ order' = Append(order, c)

Unblocked(c) == [k \in Key |-> Without(blockingkeys[k], {c})]

\* What its caller does to the client and to the stack is left to it.
unblockClientWaitingData(c) ==
  /\ blockingkeys' = Unblocked(c)
  /\ order' = Without(order, {c})

\* Mutant of Receiver: the last to come is the first to be served.
MutReceiver(k) == Last(blockingkeys[k])

Receiver(k) == Head(blockingkeys[k])

\* "de == NULL" is up to the caller: somebody waits for k, and is given e.
handleClientsWaitingListPush(k, e, cl) ==
  LET r == Receiver(k)
  IN  /\ unblockClientWaitingData(r)
      /\ client' = [cl EXCEPT ![r].bkeys = << >>, ![r].timed = FALSE]
      /\ got' = [got EXCEPT ![e] = @ + 1]

-----------------------------------------------------------------------------
\* Commands; s is the stack with the frame of the call, and cl the structures
\* of the clients, when the command begins.

\* Mutant of pushGenericCommand: the element that was given away is stored too.
MutAlsoStored(c, k, s, cl) ==
  LET e == pushed + 1
  IN  /\ pushed < MaxPushed
      /\ pushed' = e
      /\ lists' = [lists EXCEPT ![k] = Append(@, e)]
      /\ IF blockingkeys[k] # << >>
         THEN handleClientsWaitingListPush(k, e, cl) /\ stack' = s \o Input(Receiver(k))
         ELSE client' = cl /\ stack' = Dirtied(s) /\ UNCHANGED <<blocking, got>>
      /\ UNCHANGED <<clients, pubsub, slaveMulti, renamed>>

pushGenericCommand(c, k, s, cl) ==
  LET e == pushed + 1
  IN  /\ pushed < MaxPushed
      /\ pushed' = e
      /\ IF blockingkeys[k] # << >>
         THEN /\ handleClientsWaitingListPush(k, e, cl)
              /\ stack' = s \o Input(Receiver(k))
              /\ UNCHANGED <<lists, renamed>>
         ELSE /\ lists' = [lists EXCEPT ![k] = Append(@, e)]
              /\ stack' = Dirtied(s)
              /\ client' = cl /\ UNCHANGED <<blocking, got, renamed>>
      /\ UNCHANGED <<clients, pubsub, slaveMulti>>

\* Gives the first element of k away.
Popped(k, s, cl) ==
  /\ lists' = [lists EXCEPT ![k] = Tail(@)]
  /\ got' = [got EXCEPT ![Head(lists[k])] = @ + 1]
  /\ renamed' = IF Len(lists[k]) = 1 THEN renamed \ {k} ELSE renamed
  /\ stack' = Freed(Dirtied(s), {Head(lists[k])})
  /\ client' = cl /\ UNCHANGED <<clients, blocking, pubsub, pushed, slaveMulti>>

Nothing(s, cl) == stack' = s /\ client' = cl /\ UNCHANGED <<clients, data, blocking, pubsub, slaveMulti>>

popGenericCommand(k, s, cl) == IF lists[k] = << >> THEN Nothing(s, cl) ELSE Popped(k, s, cl)

blockingPopGenericCommand(c, ks, timed, s, cl) ==
  LET full == {n \in DOMAIN ks : lists[ks[n]] # << >>}
  IN  \/ /\ full # {}
         /\ \E n \in full : (\A m \in full : n <= m) /\ Popped(ks[n], s, cl)
      \/ /\ full = {} /\ client[c].multi
         /\ Nothing(s, cl)
      \/ /\ full = {} /\ ~client[c].multi
         /\ blockForKeys(c, ks, timed, cl)
         /\ stack' = s
         /\ UNCHANGED <<clients, data, pubsub, slaveMulti>>

\* The node is the last of k, removed when the element is in its place.
rpoplpushcommand(c, k, k2, s, cl) ==
  IF lists[k] = << >> THEN Nothing(s, cl)
  ELSE LET e == Last(lists[k])
       IN  /\ IF blockingkeys[k2] # << >>
              THEN /\ handleClientsWaitingListPush(k2, e, cl)
                   /\ stack' = Append(s, <<"rpoplpush", c, k, e, FALSE>>) \o Input(Receiver(k2))
                   /\ UNCHANGED <<lists, renamed>>
              ELSE /\ lists' = LET l == [lists EXCEPT ![k] = Front(@)] IN [l EXCEPT ![k2] = <<e>> \o @]
                   /\ renamed' = IF lists'[k] = << >> THEN renamed \ {k} ELSE renamed
                   /\ stack' = Freed(Dirtied(s), {e})
                   /\ client' = cl /\ UNCHANGED <<blocking, got>>
           /\ UNCHANGED <<clients, pubsub, pushed, slaveMulti>>

\* The elements that k2 had are gone with its list.
renameCommand(k, k2, s, cl) ==
  IF lists[k] = << >> \/ k = k2 THEN Nothing(s, cl)
  ELSE /\ lists' = [lists EXCEPT ![k2] = lists[k], ![k] = << >>]
       /\ got' = [e \in DOMAIN got |-> IF e \in ToSet(lists[k2]) THEN got[e] + 1 ELSE got[e]]
       /\ renamed' = (renamed \ {k}) \cup {k2}
       /\ stack' = Freed(Dirtied(s), ToSet(lists[k2]))
       /\ client' = cl /\ UNCHANGED <<clients, blocking, pubsub, pushed, slaveMulti>>

multiCommand(c, s, cl) ==
  /\ client' = [cl EXCEPT ![c].multi = TRUE]
  /\ stack' = s
  /\ UNCHANGED <<clients, data, blocking, pubsub, slaveMulti>>

discardCommand(c, s, cl) ==
  IF ~client[c].multi THEN Nothing(s, cl)
  ELSE /\ client' = [cl EXCEPT ![c].multi = FALSE, ![c].queue = << >>]
       /\ stack' = s
       /\ UNCHANGED <<clients, data, blocking, pubsub, slaveMulti>>

\* execCommandReplicateMulti, and then the loop (ExecStep).
execCommand(c, s, cl) ==
  IF ~client[c].multi THEN Nothing(s, cl)
  ELSE /\ slaveMulti' = TRUE
       /\ stack' = Append(s, <<"exec", c, 1>>)
       /\ client' = cl /\ UNCHANGED <<clients, data, blocking, pubsub>>

-----------------------------------------------------------------------------
\* Publish and subscribe

pubsubSubscribeChannel(c, ch, s, cl) ==
  /\ client' = [cl EXCEPT ![c].chans = @ \cup {ch}]
  /\ pubsub_channels' = IF ch \in client[c].chans THEN pubsub_channels
                        ELSE [pubsub_channels EXCEPT ![ch] = Append(@, c)]
  /\ stack' = s
  /\ UNCHANGED <<clients, data, blocking, pubsub_patterns, slaveMulti>>

\* Also pubsubUnsubscribeAllChannels: chs is the set of all.
pubsubUnsubscribeChannel(c, chs, s, cl) ==
  /\ client' = [cl EXCEPT ![c].chans = @ \ chs]
  /\ pubsub_channels' = [ch \in Channel |-> IF ch \in chs \cap client[c].chans THEN Without(pubsub_channels[ch], {c})
                                            ELSE pubsub_channels[ch]]
  /\ stack' = s
  /\ UNCHANGED <<clients, data, blocking, pubsub_patterns, slaveMulti>>

pubsubSubscribePattern(c, p, s, cl) ==
  /\ client' = [cl EXCEPT ![c].pats = @ \cup {p}]
  /\ pubsub_patterns' = IF p \in client[c].pats THEN pubsub_patterns ELSE Append(pubsub_patterns, <<c, p>>)
  /\ stack' = s
  /\ UNCHANGED <<clients, data, blocking, pubsub_channels, slaveMulti>>

pubsubUnsubscribePattern(c, ps, s, cl) ==
  /\ client' = [cl EXCEPT ![c].pats = @ \ ps]
  /\ pubsub_patterns' = Without(pubsub_patterns, {c} \X ps)
  /\ stack' = s
  /\ UNCHANGED <<clients, data, blocking, pubsub_channels, slaveMulti>>

\* pubsubPublishMessage: who is sent a message on ch, in order.
Receivers(ch) ==
  pubsub_channels[ch] \o
  LET hit == Kept(pubsub_patterns, {q \in Client \X Pattern : <<ch, q[2]>> \in Matches})
  IN  [n \in DOMAIN hit |-> hit[n][1]]

-----------------------------------------------------------------------------
\* cmd->proc(c)
Proc(c, cmd, s, cl) ==
  \/ cmd[1] = "push" /\ pushGenericCommand(c, cmd[2], s, cl)
  \/ cmd[1] = "pop" /\ popGenericCommand(cmd[2], s, cl)
  \/ cmd[1] = "blpop" /\ blockingPopGenericCommand(c, cmd[2], cmd[3], s, cl)
  \/ cmd[1] = "rpoplpush" /\ rpoplpushcommand(c, cmd[2], cmd[3], s, cl)
  \/ cmd[1] = "rename" /\ renameCommand(cmd[2], cmd[3], s, cl)
  \/ cmd[1] = "multi" /\ multiCommand(c, s, cl)
  \/ cmd[1] = "discard" /\ discardCommand(c, s, cl)
  \/ cmd[1] = "exec" /\ execCommand(c, s, cl)
  \/ cmd[1] = "subscribe" /\ pubsubSubscribeChannel(c, cmd[2], s, cl)
  \/ cmd[1] = "unsubscribe" /\ pubsubUnsubscribeChannel(c, cmd[2], s, cl)
  \/ cmd[1] = "psubscribe" /\ pubsubSubscribePattern(c, cmd[2], s, cl)
  \/ cmd[1] = "punsubscribe" /\ pubsubUnsubscribePattern(c, cmd[2], s, cl)

-----------------------------------------------------------------------------
\* The innermost call makes a step.

PubSubCommands == {"subscribe", "unsubscribe", "psubscribe", "punsubscribe"}

Queued(c, cmd) == client[c].multi /\ cmd[1] \notin {"exec", "discard"}

\* Everything the server has of c.
freeClient(c) ==
  /\ blockingkeys' = Unblocked(c)
  /\ order' = Without(order, {c})
  /\ pubsub_channels' = [ch \in Channel |-> Without(pubsub_channels[ch], {c})]
  /\ pubsub_patterns' = Without(pubsub_patterns, {c} \X Pattern)
  /\ clients' = Without(clients, {c})
  /\ client' = [client EXCEPT ![c] = NewClient]
  /\ UNCHANGED <<data, slaveMulti>>

\* The frame of the call goes when the command, and what it called, has ended.
call(c, cmd, s, cl) == Proc(c, cmd, Append(s, <<"call", c, cmd, FALSE>>), cl)

\* The rest of the input buffer is in cl, and in s unless it is empty.
processCommand(c, cmd, s, cl) ==
  \/ /\ cmd[1] = "quit"
     /\ freeClient(c)
     /\ stack' = Front(stack)
  \/ /\ cmd[1] # "quit" /\ Subscribed(c) /\ cmd[1] \notin PubSubCommands
     /\ Nothing(s, cl)
  \/ /\ cmd[1] # "quit" /\ (~Subscribed(c) \/ cmd[1] \in PubSubCommands) /\ Queued(c, cmd)
     /\ Nothing(s, [cl EXCEPT ![c].queue = Append(@, cmd)])
  \/ /\ cmd[1] # "quit" /\ (~Subscribed(c) \/ cmd[1] \in PubSubCommands) /\ ~Queued(c, cmd)
     /\ call(c, cmd, s, cl)

\* "again": returns when the client is blocked, or else the next command.
processInputBuffer ==
  /\ stack # << >> /\ Top[1] = "input"
  /\ LET c == Top[2]
         buf == client[c].buf
     IN  IF Blocked(c)
         THEN Nothing(Front(stack), client)
         ELSE processCommand(c, Head(buf), IF Len(buf) = 1 THEN Front(stack) ELSE stack,
                             [client EXCEPT ![c].buf = Tail(@)])
  /\ UNCHANGED todo

\* feedAppendOnlyFile, replicationFeedSlaves: what the slave makes of it.
Propagated(cmd) == IF cmd[1] = "exec" THEN FALSE ELSE slaveMulti

\* The end of call().
callEnd ==
  /\ stack # << >> /\ Top[1] = "call"
  /\ stack' = Front(stack)
  /\ slaveMulti' = IF Top[4] THEN Propagated(Top[3]) ELSE slaveMulti
  /\ UNCHANGED <<clients, client, data, blocking, pubsub, todo>>

\* freeClientMultiState, server.dirty++.
execEnd(s) == Dirtied(Front(s))

execStep ==
  /\ stack # << >> /\ Top[1] = "exec"
  /\ LET c == Top[2]
         n == Top[3]
     IN  IF n > Len(client[c].queue)
         THEN /\ client' = [client EXCEPT ![c].multi = FALSE, ![c].queue = << >>]
              /\ stack' = execEnd(stack)
              /\ UNCHANGED <<clients, data, blocking, pubsub, slaveMulti>>
         ELSE call(c, client[c].queue[n], InCall(<< <<"exec", c, n + 1>> >>), client)
  /\ UNCHANGED todo

Undefined == << <<"undefined">> >>

\* The end of rpoplpush when somebody was waiting: the node goes, wherever its
\* list is by now, and when that is empty, what the key has.  Undefined when the
\* node is gone already.  An empty list that stays under another key is taken for none.
rpoplpushEnd ==
  /\ stack # << >> /\ Top[1] = "rpoplpush"
  /\ LET k == Top[3]
         e == Top[4]
         at == {x \in Key : e \in ToSet(lists[x])}
         l == [x \in Key |-> Without(lists[x], {e})]
         deleted == IF \A x \in at : l[x] = << >> THEN {k} ELSE {}
         freed == UNION {ToSet(l[x]) : x \in deleted}
     IN  IF Top[5]
         THEN stack' = Undefined /\ UNCHANGED data
         ELSE /\ lists' = [x \in Key |-> IF x \in deleted THEN << >> ELSE l[x]]
              /\ got' = [x \in DOMAIN got |-> IF x \in freed THEN got[x] + 1 ELSE got[x]]
              /\ renamed' = {x \in renamed : lists'[x] # << >>}
              /\ stack' = Freed(Dirtied(Front(stack)), {e} \cup freed)
              /\ UNCHANGED pushed
  /\ UNCHANGED <<clients, client, blocking, pubsub, slaveMulti, todo>>

\* One client in closeTimedoutClients; the iterator has gone on to the next
\* one, which is looked at when its turn comes.
Following(c) == LET n == CHOOSE n \in DOMAIN clients : clients[n] = c
                IN  IF n < Len(clients) THEN clients[n + 1] ELSE NIL

closeTimedoutClient ==
  /\ stack # << >> /\ Top[1] = "cron"
  /\ LET c == Top[2]
     IN  \/ /\ c = NIL
            /\ Nothing(Front(stack), client)
         \/ /\ c # NIL /\ ~Live(c)
            /\ Nothing(Undefined, client)
         \/ /\ c # NIL /\ Live(c) /\ ~Subscribed(c)
            /\ freeClient(c)
            /\ stack' = << <<"cron", Following(c)>> >>
         \/ /\ c # NIL /\ Live(c) /\ Blocked(c) /\ client[c].timed
            /\ unblockClientWaitingData(c)
            /\ client' = [client EXCEPT ![c].bkeys = << >>, ![c].timed = FALSE]
            /\ stack' = << <<"cron", Following(c)>> >> \o Input(c)
            /\ UNCHANGED <<clients, data, pubsub, slaveMulti>>
         \/ /\ c # NIL /\ Live(c)
            /\ Nothing(<< <<"cron", Following(c)>> >>, client)
  /\ UNCHANGED todo

-----------------------------------------------------------------------------
\* Events

acceptHandler(c) ==
  /\ stack = << >> /\ ~Live(c)
  /\ clients' = Append(clients, c)
  /\ UNCHANGED <<client, data, blocking, pubsub, stack, slaveMulti, todo>>

\* A read brings the next n commands.  A blocked client is read from as well.
readQueryFromClient(c, n) ==
  /\ stack = << >> /\ Live(c)
  /\ n <= Len(todo[c])
  /\ Len(client[c].buf) + n <= MaxBuf
  /\ client' = [client EXCEPT ![c].buf = @ \o SubSeq(todo[c], 1, n)]
  /\ stack' = << <<"input", c>> >>
  /\ todo' = [todo EXCEPT ![c] = SubSeq(@, n + 1, Len(@))]
  /\ UNCHANGED <<clients, data, blocking, pubsub, slaveMulti>>

\* The client has closed the connection, or it cannot be read or written.
connectionLost(c) ==
  /\ stack = << >> /\ Live(c)
  /\ freeClient(c)
  /\ UNCHANGED <<stack, todo>>

serverCron ==
  /\ stack = << >> /\ clients # << >>
  /\ stack' = << <<"cron", Head(clients)>> >>
  /\ UNCHANGED <<clients, client, data, blocking, pubsub, slaveMulti, todo>>

\* Nobody is subscribed or waits, and there is no data.
NoLists == [k \in Key |-> << >>]
NoSubscribers == [ch \in Channel |-> << >>]
NoneGot == [e \in 1 .. MaxPushed |-> 0]

CInit ==
  /\ clients \in {s \in [1 .. Cardinality(Client) -> Client] : ToSet(s) = Client}
  /\ client = [c \in Client |-> NewClient]
  /\ lists = NoLists /\ pushed = 0 /\ got = NoneGot /\ renamed = {}
  /\ blockingkeys = NoLists /\ order = << >>
  /\ pubsub_channels = NoSubscribers /\ pubsub_patterns = << >>
  /\ stack = << >>
  /\ slaveMulti = FALSE
  /\ todo \in [Client -> Program]

\* A server that went on after undefined behaviour could be in any state: it
\* is replaced by a new one.
restart ==
  /\ stack = Undefined
  /\ clients' = << >>
  /\ client' = [c \in Client |-> NewClient]
  /\ lists' = NoLists /\ pushed' = 0 /\ got' = NoneGot /\ renamed' = {}
  /\ blockingkeys' = NoLists /\ order' = << >>
  /\ pubsub_channels' = NoSubscribers /\ pubsub_patterns' = << >>
  /\ stack' = << >>
  /\ slaveMulti' = FALSE
  /\ UNCHANGED todo

CNext ==
  \/ \E c \in Client : acceptHandler(c) \/ connectionLost(c)
  \/ \E c \in Client, n \in 1 .. MaxBuf : readQueryFromClient(c, n)
  \/ serverCron
  \/ processInputBuffer
  \/ callEnd
  \/ execStep
  \/ rpoplpushEnd
  \/ closeTimedoutClient
  \/ restart

CSpec == CInit /\ [][CNext]_cvars

-----------------------------------------------------------------------------
\* The frames of the stack, by the name of the call.
FrameOK(f) ==
  \/ f[1] = "input" /\ f[2] \in Client
  \/ f[1] = "call" /\ f[2] \in Client /\ f[3] \in Command /\ f[4] \in BOOLEAN
  \/ f[1] = "exec" /\ f[2] \in Client /\ f[3] \in 1 .. Len(client[f[2]].queue) + 1
  \/ f[1] = "rpoplpush" /\ f[2] \in Client /\ f[3] \in Key /\ f[4] \in 1 .. MaxPushed /\ f[5] \in BOOLEAN
  \/ f[1] = "cron" /\ f[2] \in Client \cup {NIL}
  \/ f = <<"undefined">>

\* Type invariant.  The stack does not grow beyond bound either: no client is
\* in two calls at a time, so the nesting of unblocked clients ends.
ClientsTypeOK ==
  /\ ToSet(clients) \subseteq Client /\ Len(clients) = Cardinality(ToSet(clients))
  /\ \A c \in Client : /\ client[c].buf \in Seq(Command) /\ Len(client[c].buf) <= MaxBuf
                       /\ client[c].queue \in Seq(Command)
                       /\ client[c].bkeys \in Seq(Key)
                       /\ client[c].chans \subseteq Channel /\ client[c].pats \subseteq Pattern
                       /\ client[c].multi \in BOOLEAN /\ client[c].timed \in BOOLEAN
  /\ \A k \in Key : lists[k] \in Seq(1 .. MaxPushed) /\ blockingkeys[k] \in Seq(Client)
  /\ \A n \in DOMAIN stack : FrameOK(stack[n])
  /\ \A n, m \in DOMAIN stack : (n # m /\ stack[n][1] = "input" /\ stack[m][1] = "input") => stack[n][2] # stack[m][2]
  /\ slaveMulti \in BOOLEAN /\ renamed \subseteq Key /\ ToSet(order) \subseteq Client

\* unblockClientWaitingData finds what it looks for: a client is in the list
\* of a key as often as the key is among those it waits for, and only clients
\* that the server still has.  (The assertions at lines 7700, 7705 and 7746,
\* and listSearchKey, which may not return NULL.)
BlockedBothWays ==
  /\ \A c \in Client, k \in Key : Count(blockingkeys[k], c) = Count(client[c].bkeys, k)
  /\ \A c \in Client : Blocked(c) => Live(c) /\ ~client[c].multi

\* "The first to be served will be the one that started to wait earlier": a
\* client is given an element only if nobody blocked before it waits for all
\* of its keys, whatever timeouts, disconnections and services came between.
\* (A new server has neither clients nor elements.)
ServedInOrder ==
  [][\A n \in DOMAIN order :
       order[n] \notin ToSet(order') /\ got' # got /\ stack # Undefined =>
         \A m \in 1 .. n - 1 : ~(ToSet(client[order[n]].bkeys) \subseteq ToSet(client[order[m]].bkeys))]_cvars

\* Between two events, an element that was pushed is in one list once, or was
\* given to one client (or replaced by RENAME, or deleted) once, even when the
\* commands of unblocked clients ran inside the push.
Conserved ==
  stack = << >> =>
    \A e \in 1 .. MaxPushed :
      Cardinality({q \in Key \X (1 .. MaxPushed) : q[2] <= Len(lists[q[1]]) /\ lists[q[1]][q[2]] = e}) + got[e]
        = IF e <= pushed THEN 1 ELSE 0

\* Between two events, nobody waits for a list that has elements: what was
\* pushed went to those who waited.  RENAME is no push and wakes nobody.
NobodyStarves ==
  stack = << >> => \A k \in Key : lists[k] # << >> /\ blockingkeys[k] # << >> => k \in renamed

\* A message on a channel goes once to each client that subscribed to it, and
\* once more for each of its patterns that match; to no other client, and to
\* none that is gone.
MessagesToSubscribers ==
  \A ch \in Channel, c \in Client :
    /\ Count(Receivers(ch), c) = Cardinality(client[c].chans \cap {ch})
                                 + Cardinality({p \in client[c].pats : <<ch, p>> \in Matches})
    /\ c \in ToSet(Receivers(ch)) => Live(c)

\* Between two events the stream of commands that slaves receive, and that the
\* append only file has, is outside a transaction: every MULTI that execCommand
\* sends is followed by an EXEC, also when nothing in between changed anything.
PropagatedWhole == stack = << >> => ~slaveMulti

\* The lists of waiting clients and the clients' own lists of keys agree, and nobody waits for
\* an element that is there, through services, timeouts, disconnections and transactions
\* (blockForKeys, unblockClientWaitingData, handleClientsWaitingListPush).
WaitersSound == BlockedBothWays /\ NobodyStarves

\* What is handed on arrives whole and once: elements with those who pop them, messages with
\* those who subscribed, transactions with slaves and the append only file, although the
\* commands of unblocked clients run inside the commands of others.
DeliveredOnce == ClientsTypeOK /\ Conserved /\ MessagesToSubscribers /\ PropagatedWhole
=============================================================================
