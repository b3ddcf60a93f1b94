------------------------------ MODULE AofFile ------------------------------
(***************************************************************************)
(* The append only file as text: how the redis server reads it when it     *)
(* starts (loadAppendOnlyFile in examples/redis-2.0.2/redis.c) and how     *)
(* redis-check-aof finds and cuts off what a crash left unfinished         *)
(* (examples/redis-2.0.2/redis-check-aof.c).                               *)
(***************************************************************************)
EXTENDS Protocol

CONSTANTS Logs,              \* what a server may have appended: sequences of commands
          MULTI, EXEC        \* names of commands

VARIABLES alog,     \* the commands that were appended
          aof,      \* the file
          areader,  \* loadAppendOnlyFile
          achecker  \* redis-check-aof

aofvars == <<alog, aof, areader, achecker>>

TextOf(cmds) == FlattenSeq([i \in 1 .. Len(cmds) |-> catAppendOnlyGenericCommand(cmds[i])])

Cell(f, i) == IF i <= Len(f) THEN f[i] ELSE <<"none", 0>>

\* The number after the first character of a line; strtol finds none if the file ends there.
NumberAt(f, p) == IF Cell(f, p + 2)[1] = "num" THEN Cell(f, p + 2)[2] ELSE 0

\* Where the line that begins at offset p ends: after its LF, or at the end of the file.
LineEnd(f, p) == Min({i \in p + 1 .. Len(f) : f[i] = LF} \cup {Len(f)})

Ok(p) == [ok |-> TRUE, p |-> p]
Fail == [ok |-> FALSE, p |-> 0]

-----------------------------------------------------------------------------
(* The server *)

\* An argument as loadAppendOnlyFile reads it: a line, the text, two characters.
LoadArgument(f, p) ==
  LET e == LineEnd(f, p) + NumberAt(f, p) + 2
  IN  IF p >= Len(f) \/ Cell(f, p + 1) # Dollar \/ e > Len(f) THEN Fail ELSE Ok(e)

\* The end of n arguments from offset p on.
Arguments(f, p, n, Argument(_, _)) ==
  LET upto[i \in 0 .. n] == IF i = 0 THEN Ok(p) ELSE LET r == upto[i - 1] IN IF r.ok THEN Argument(f, r.p) ELSE Fail
  IN  upto[n]

\* The text of the first argument of a command whose arguments begin at offset p.
FirstArgument(f, p) == LET e == LineEnd(f, p) IN SubSeq(f, e + 1, e + NumberAt(f, p))

\* The arguments of the command at offset p, which can be read.
CommandAt(f, p) ==
  CHOOSE c \in {alog[i] : i \in 1 .. Len(alog)} :
    SubSeq(f, p + 1, p + Len(catAppendOnlyGenericCommand(c))) = catAppendOnlyGenericCommand(c)

NotReading == [state |-> "none", p |-> 0, multi |-> FALSE, executed |-> <<>>]

loadStart ==
  /\ areader.state = "none" /\ achecker.state \notin {"reading", "done"}
  /\ areader' = [areader EXCEPT !.state = IF aof = <<>> THEN "empty" ELSE "reading"]
  /\ UNCHANGED <<alog, aof, achecker>>

\* Mutant of Complete: the server takes up its work inside a transaction.
MutComplete(r) == TRUE

\* At the end of the file: no transaction is open.
Complete(r) == ~r.multi

\* One turn: the end of the file, or a command that is run at once.  Without a number of
\* arguments argv[0] is read although there is none.
loadAppendOnlyFile ==
  LET p == areader.p
      argc == NumberAt(aof, p)
      args == LineEnd(aof, p)
      r == Arguments(aof, args, argc, LoadArgument)
      name == FirstArgument(aof, args)
      Ends(how) == areader' = [areader EXCEPT !.state = how]
  IN  /\ areader.state = "reading"
      /\ IF p = Len(aof) THEN Ends(IF Complete(areader) THEN "ok" ELSE "exit")
         ELSE IF aof[p + 1] # Star THEN Ends("exit")
         ELSE IF argc = 0 THEN Ends("undefined")
         ELSE IF ~r.ok THEN Ends("exit")
         ELSE areader' = [areader EXCEPT !.p = r.p, !.executed = Append(@, CommandAt(aof, p)),
                                         !.multi = (@ /\ name # EXEC) \/ name = MULTI]
      /\ UNCHANGED <<alog, aof, achecker>>

-----------------------------------------------------------------------------
(* The checker *)

\* A line with this prefix, a number and CR LF: where it ends.
readLong(f, p, prefix) ==
  IF Cell(f, p + 1) = prefix /\ Cell(f, p + 2)[1] = "num" /\ Cell(f, p + 3) = CR /\ Cell(f, p + 4) = LF THEN Ok(p + 4) ELSE Fail

readString(f, p) ==
  LET len == readLong(f, p, Dollar)
      e == len.p + NumberAt(f, p) + 2
  IN  IF len.ok /\ e <= Len(f) /\ Cell(f, e - 1) = CR /\ Cell(f, e) = LF THEN Ok(e) ELSE Fail

\* process stops at the first thing that it does not like.  pos is where the last
\* command, or the transaction it is in, began.
checkStart ==
  /\ achecker.state = "none" /\ areader.state = "none"
  /\ achecker' = [achecker EXCEPT !.state = IF aof = <<>> THEN "empty" ELSE "reading"]
  /\ UNCHANGED <<alog, aof, areader>>

Marked(c) == IF c.multi = 0 THEN [c EXCEPT !.pos = c.p] ELSE c

process ==
  LET c == Marked(achecker)
      argc == readLong(aof, c.p, Star)
      r == Arguments(aof, argc.p, NumberAt(aof, c.p), readString)
      name == FirstArgument(aof, argc.p)
      multi == c.multi + (IF name = MULTI THEN 1 ELSE IF name = EXEC THEN -1 ELSE 0)
  IN  /\ achecker.state = "reading"
      /\ achecker' = IF argc.ok /\ r.ok /\ multi \in {0, 1} THEN [c EXCEPT !.p = r.p, !.multi = multi]
                     ELSE [c EXCEPT !.state = "done"]
      /\ UNCHANGED <<alog, aof, areader>>

\* main: a file with something behind the position is cut there if the user agrees.
checkEnd(fix) ==
  /\ achecker.state = "done"
  /\ IF achecker.pos = Len(aof) THEN achecker' = [achecker EXCEPT !.state = "valid"] /\ UNCHANGED aof
     ELSE IF fix THEN achecker' = [achecker EXCEPT !.state = "valid"] /\ aof' = SubSeq(aof, 1, achecker.pos)
     ELSE achecker' = [achecker EXCEPT !.state = "invalid"] /\ UNCHANGED aof
  /\ UNCHANGED <<alog, areader>>

-----------------------------------------------------------------------------
\* A crash in the middle of a write: the file ends after any of its characters.
AofInit ==
  /\ alog \in Logs
  /\ \E n \in 0 .. Len(TextOf(alog)) : aof = SubSeq(TextOf(alog), 1, n)
  /\ areader = NotReading
  /\ achecker = [state |-> "none", p |-> 0, pos |-> 0, multi |-> 0]

AofNext ==
  \/ loadStart \/ loadAppendOnlyFile
  \/ checkStart \/ process \/ \E fix \in BOOLEAN : checkEnd(fix)

-----------------------------------------------------------------------------
\* Commands 1 .. n of the log leave no transaction open.
Closed(n) == Cardinality({i \in 1 .. n : alog[i][1] = MULTI}) = Cardinality({i \in 1 .. n : alog[i][1] = EXEC})

\* Commands 1 .. n of the log are in the file.
InFile(n) == IsPrefix(TextOf(SubSeq(alog, 1, n)), aof)

\* A server that starts has run exactly the first commands of the log, all that the
\* file holds, and no part of a transaction or of a command.
StartsWithWholeCommands ==
  areader.state = "ok" => \E n \in 0 .. Len(alog) : areader.executed = SubSeq(alog, 1, n) /\ TextOf(areader.executed) = aof /\ Closed(n)

\* What redis-check-aof calls valid, or has cut, the server can start with; and it
\* says so of every file that the server can start with.
CheckedFileLoads ==
  /\ achecker.state = "valid" => areader.state \notin {"exit", "undefined"}
  /\ achecker.state = "invalid" => areader.state # "ok"

\* The cut takes nothing that could have been kept: every whole transaction in the
\* file before the damage is still there.
NothingMoreIsCut ==
  achecker.state = "done" => \A n \in 0 .. Len(alog) : InFile(n) /\ Closed(n) => Len(TextOf(SubSeq(alog, 1, n))) <= achecker.pos

\* After a crash in the middle of a write neither loadAppendOnlyFile nor redis-check-aof takes
\* part of a command or of a transaction for a whole one, and the checker cuts no more than
\* it must.
AofSound == StartsWithWholeCommands /\ CheckedFileLoads /\ NothingMoreIsCut
=============================================================================
