-------------------------------- MODULE Wire --------------------------------
(***************************************************************************)
(* One connection of the redis server: requests arrive in pieces of any    *)
(* size and are cut into commands (readQueryFromClient,                    *)
(* processInputBuffer, the first half of processCommand), and the replies  *)
(* leave in pieces of any size, glued together or handed to writev         *)
(* (sendReplyToClient).                                                    *)
(***************************************************************************)
EXTENDS Protocol

CONSTANTS Scripts,           \* what the client may send: sequences of requests [args, form]
          Bulk, Arity, Quit, \* commands that take a bulk argument; the arity of each command; QUIT
          Reply(_),          \* the objects of the reply to a command
          GLUEREPLY_UP_TO, REDIS_MAX_WRITE_PER_EVENT, REDIS_WRITEV_THRESHOLD, REDIS_WRITEV_IOVEC_COUNT,
          REDIS_REQUEST_MAX_SIZE

ASSUME WireLimits ==
  {GLUEREPLY_UP_TO, REDIS_MAX_WRITE_PER_EVENT, REDIS_WRITEV_THRESHOLD, REDIS_WRITEV_IOVEC_COUNT, REDIS_REQUEST_MAX_SIZE} \subseteq Nat \ {0}

VARIABLES script,    \* what this client sends
          wire,      \* cells that did not arrive yet
          conn,      \* the client structure: buffers and what is being parsed
          executed,  \* commands that were called
          out        \* cells that the client received

wirevars == <<script, wire, conn, executed, out>>

\* How a request is written: on one line, with the last argument as bulk, or multi bulk.
\* A request of the form "blank" is an empty line.
Text(r) ==
  LET line(args) == FlattenSeq([j \in 1 .. Len(args) |-> IF j = 1 THEN args[j] ELSE <<SP>> \o args[j]])
  IN  CASE r.form = "inline" -> line(r.args) \o CRLF
        [] r.form = "bulk" -> line(Append(Front(r.args), <<Num(Len(Last(r.args)))>>)) \o CRLF \o Last(r.args) \o CRLF
        [] r.form = "multi" -> catAppendOnlyGenericCommand(r.args)
        [] OTHER -> CRLF

-----------------------------------------------------------------------------
(* Requests *)

\* The words of a line: sdssplitlen, without the empty ones.
Words(line) ==
  LET starts == {i \in 1 .. Len(line) : line[i] # SP /\ (i = 1 \/ line[i - 1] = SP)}
      nth(n) == CHOOSE i \in starts : Cardinality({j \in starts : j < i}) = n - 1
      end(i) == Min({j \in i .. Len(line) + 1 : j = Len(line) + 1 \/ line[j] = SP})
  IN  [n \in 1 .. Cardinality(starts) |-> SubSeq(line, nth(n), end(nth(n)) - 1)]

atoi(word) == IF word # <<>> /\ word[1][1] = "num" THEN word[1][2] ELSE 0

resetClient(p) == [p EXCEPT !.argv = <<>>, !.mbargv = <<>>, !.bulklen = -1, !.multibulk = 0]

\* Calls the command, or refuses it: a reply in any case.
CallCommand(p) == resetClient([p EXCEPT !.called = Append(@, p.argv)])
Refuse(p) == resetClient([p EXCEPT !.called = Append(@, <<>>)])

\* Mutant of TakeBulk: the text that follows is not kept.
MutRestLost(p) ==
  IF p.bulklen <= Len(p.q) THEN [p EXCEPT !.argv = Append(@, SubSeq(p.q, 1, p.bulklen - 2)), !.q = <<>>] ELSE p

\* The last argument is still to be read: it is, if it is in the buffer already.
TakeBulk(p) ==
  IF p.bulklen <= Len(p.q)
  THEN [p EXCEPT !.argv = Append(@, SubSeq(p.q, 1, p.bulklen - 2)), !.q = SubSeq(@, p.bulklen + 1, Len(@))]
  ELSE p

\* From the lookup of the command on.
RunCommand(p) ==
  LET cmd == p.argv[1]
      known == Len(cmd) = 1 /\ cmd[1][1] = "name" /\ cmd[1][2] \in DOMAIN Arity
      n == cmd[1][2]
      len == atoi(Last(p.argv))
      asked == [p EXCEPT !.argv = Front(@), !.bulklen = len + 2]
  IN  CASE cmd = <<Name(Quit)>> -> [p EXCEPT !.closed = TRUE]
        [] ~known -> Refuse(p)
        [] Len(p.argv) # Arity[n] -> Refuse(p)
        [] n \in Bulk /\ p.bulklen = -1 /\ len + 2 <= Len(p.q) -> CallCommand(TakeBulk(asked))
        [] n \in Bulk /\ p.bulklen = -1 -> asked
        [] OTHER -> CallCommand(p)

\* processCommand with its argument vector in argv: first the multi bulk protocol.
processRequest(p) ==
  IF p.multibulk = 0 /\ Len(p.argv) = 1 /\ p.argv[1][1] = Star
  THEN LET n == atoi(Tail(p.argv[1])) IN IF n <= 0 THEN resetClient(p) ELSE [p EXCEPT !.multibulk = n, !.argv = <<>>]
  ELSE IF p.multibulk > 0 /\ p.bulklen = -1
  THEN IF p.argv[1][1] # Dollar THEN Refuse(p) ELSE [p EXCEPT !.bulklen = atoi(Tail(p.argv[1])) + 2, !.argv = <<>>]
  ELSE IF p.multibulk > 1
  THEN [p EXCEPT !.mbargv = Append(@, p.argv[1]), !.argv = <<>>, !.multibulk = @ - 1, !.bulklen = -1]
  ELSE IF p.multibulk = 1
  THEN RunCommand([p EXCEPT !.argv = Append(p.mbargv, p.argv[1]), !.mbargv = <<>>, !.multibulk = 0, !.bulklen = 0])
  ELSE RunCommand(p)

\* The position of the first end of line; 0 if there is none.
EndOfLine(q) == LET at == {i \in 1 .. Len(q) : q[i] = LF} IN IF at = {} THEN 0 ELSE Min(at)

\* One turn of processInputBuffer: a line, or a bulk argument with its CR LF.
Iteration(p) ==
  LET nl == EndOfLine(p.q)
      line == SubSeq(p.q, 1, IF nl > 1 /\ p.q[nl - 1] = CR THEN nl - 2 ELSE nl - 1)
      read == [p EXCEPT !.q = SubSeq(@, nl + 1, Len(@)), !.argv = @ \o Words(line)]
  IN  IF p.bulklen = -1
      THEN IF nl = 0 THEN [p EXCEPT !.closed = Len(p.q) >= REDIS_REQUEST_MAX_SIZE]
           ELSE IF read.argv = <<>> THEN read ELSE processRequest(read)
      ELSE IF TakeBulk(p) # p THEN processRequest(TakeBulk(p)) ELSE p

-----------------------------------------------------------------------------
(* Replies *)

\* addReply for each object; the first one asks for the socket to be watched.
\* A refused command has a reply of one object.
Replies(cmds) == FlattenSeq([i \in 1 .. Len(cmds) |-> Reply(cmds[i])])
addReply(c, objs) == [c EXCEPT !.reply = @ \o objs, !.writable = @ \/ objs # <<>>]

\* Joins as many objects as fit; the first may have been sent in part.
glueReplyBuffersIfNeeded(c) ==
  LET fit == {n \in 0 .. Len(c.reply) : Len(FlattenSeq(SubSeq(c.reply, 1, n))) <= GLUEREPLY_UP_TO}
      n == Max(fit)
  IN  IF n = 0 THEN c ELSE [c EXCEPT !.reply = <<FlattenSeq(SubSeq(@, 1, n))>> \o SubSeq(@, n + 1, Len(@))]

\* After a write the socket is watched as long as there is something to send.
Written(c) == IF c.reply = <<>> THEN [c EXCEPT !.sentlen = 0, !.writable = FALSE] ELSE c

UsesWritev == ~conn.glueoutputbuf /\ Len(conn.reply) > REDIS_WRITEV_THRESHOLD

\* One turn of the loop of sendReplyToClient: w cells are written.  The socket may be
\* full after any turn, so that other events come before the next one.
sendReplyToClient(w) ==
  LET glued == IF conn.glueoutputbuf /\ Len(conn.reply) > 1 THEN glueReplyBuffersIfNeeded(conn) ELSE conn
      o == Head(glued.reply)
      empty == o = <<>>
      sent == glued.sentlen + w
  IN  /\ conn.writable /\ ~conn.closed /\ ~conn.busy /\ ~UsesWritev /\ conn.reply # <<>>
      /\ IF empty THEN w = 0 ELSE w \in 1 .. Len(o) - glued.sentlen
      /\ conn' = Written(IF empty THEN [glued EXCEPT !.reply = Tail(@)]
                         ELSE IF sent = Len(o) THEN [glued EXCEPT !.reply = Tail(@), !.sentlen = 0]
                         ELSE [glued EXCEPT !.sentlen = sent])
      /\ out' = out \o SubSeq(o, glued.sentlen + 1, sent)
      /\ UNCHANGED <<script, wire, executed>>

\* The objects of one writev: as many as the limits allow, without what was sent of the first.
Vector ==
  LET size(n) == Len(FlattenSeq(SubSeq(conn.reply, 1, n))) - conn.sentlen
      n == Max({m \in 0 .. Min({Len(conn.reply), REDIS_WRITEV_IOVEC_COUNT}) :
                  \A k \in 1 .. m : Len(conn.reply[k]) - (IF k = 1 THEN conn.sentlen ELSE 0) <= REDIS_MAX_WRITE_PER_EVENT})
  IN  IF n = 0 THEN <<>> ELSE SubSeq(FlattenSeq(SubSeq(conn.reply, 1, n)), conn.sentlen + 1, conn.sentlen + size(n))

\* One turn of sendReplyToClientWritev: the objects that w cells cover are removed.
\* Nothing is written at all when the first object is larger than the limit.
sendReplyToClientWritev(w) ==
  LET size(n) == Len(FlattenSeq(SubSeq(conn.reply, 1, n))) - conn.sentlen
      gone == Max({n \in 0 .. Len(conn.reply) : n = 0 \/ (size(n) <= w /\ (n = 1 \/ size(n - 1) < w))})
  IN  /\ conn.writable /\ ~conn.closed /\ ~conn.busy /\ UsesWritev
      /\ w \in 1 .. Len(Vector)
      /\ out' = out \o SubSeq(Vector, 1, w)
      /\ conn' = Written([conn EXCEPT !.reply = SubSeq(@, gone + 1, Len(@)),
                                      !.sentlen = IF gone = 0 THEN @ + w ELSE w - size(gone)])
      /\ UNCHANGED <<script, wire, executed>>

\* n cells arrive.
readQueryFromClient(n) ==
  /\ ~conn.closed /\ ~conn.busy /\ n \in 1 .. Len(wire)
  /\ wire' = SubSeq(wire, n + 1, Len(wire))
  /\ conn' = [conn EXCEPT !.q = @ \o SubSeq(wire, 1, n), !.busy = TRUE]
  /\ UNCHANGED <<script, executed, out>>

\* They are parsed as far as they go: turn after turn, as long as the turn did
\* something and the buffer has something left.  Nothing else happens meanwhile.
processInputBuffer ==
  /\ ~conn.closed /\ conn.busy
  /\ \E p \in {Iteration(conn)} :
       /\ executed' = executed \o p.called
       /\ conn' = addReply([p EXCEPT !.called = <<>>, !.busy = p # conn /\ p.q # <<>>], Replies(p.called))
  /\ UNCHANGED <<script, wire, out>>

-----------------------------------------------------------------------------
WireInit ==
  /\ script \in Scripts
  /\ wire = FlattenSeq([i \in 1 .. Len(script) |-> Text(script[i])])
  /\ \E glue \in BOOLEAN :
       conn = [q |-> <<>>, bulklen |-> -1, multibulk |-> 0, argv |-> <<>>, mbargv |-> <<>>, called |-> <<>>, closed |-> FALSE, busy |-> FALSE,
               reply |-> <<>>, sentlen |-> 0, writable |-> FALSE, glueoutputbuf |-> glue]
  /\ executed = <<>> /\ out = <<>>

MaxCells == 12    \* cells that one write or read moves, at most

WireNext ==
  \/ \E n \in 1 .. MaxCells : readQueryFromClient(n)
  \/ processInputBuffer
  \/ \E w \in 0 .. MaxCells : sendReplyToClient(w)
  \/ \E w \in 1 .. MaxCells : sendReplyToClientWritev(w)

-----------------------------------------------------------------------------
\* The commands of the script, up to QUIT.
Wanted ==
  LET cmds == SelectSeq(script, LAMBDA r : r.form # "blank")
      quits == {i \in 1 .. Len(cmds) : cmds[i].args = <<<<Name(Quit)>>>>}
  IN  [i \in 1 .. (IF quits = {} THEN Len(cmds) ELSE Min(quits) - 1) |-> cmds[i].args]

\* However the requests are cut into pieces, the commands that run are those that were
\* sent, in that order, with their arguments whole even if they hold line ends; all
\* have run once everything has arrived.
CommandsAsSent ==
  /\ IsPrefix(executed, Wanted)
  /\ wire = <<>> /\ ~conn.busy => executed = Wanted

\* What the client has received and what is still to be sent are the replies to its
\* commands in order, whatever was glued, split over writes or left for later; as long
\* as something is to be sent, the socket is watched.
RepliesInOrder ==
  /\ out \o SubSeq(FlattenSeq(conn.reply), conn.sentlen + 1, Len(FlattenSeq(conn.reply))) = FlattenSeq(Replies(executed))
  /\ conn.reply # <<>> => conn.writable /\ conn.sentlen <= Len(conn.reply[1])

\* Requests cut anywhere become the commands that were sent, and replies cut anywhere the
\* replies to them (processInputBuffer, sendReplyToClient, sendReplyToClientWritev).
ConnectionSound == CommandsAsSent /\ RepliesInOrder
=============================================================================
