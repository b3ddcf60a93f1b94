------------------------------ MODULE Protocol ------------------------------
(***************************************************************************)
(* The text that commands are written in, on the wire and in the append    *)
(* only file of redis (examples/redis-2.0.2/redis.c).  A cell is a         *)
(* character, except that the decimal text of a number is one cell and the *)
(* name of a command is one.                                               *)
(***************************************************************************)
EXTENDS Integers, Sequences, FiniteSets, SequencesExt, FiniteSetsExt, TLC

Star == <<"*", 0>>
Dollar == <<"$", 0>>
CR == <<"CR", 0>>
LF == <<"LF", 0>>
SP == <<"SP", 0>>
Num(n) == <<"num", n>>
Name(n) == <<"name", n>>        \* the name of command number n
Char(n) == <<"char", n>>        \* any other character

CRLF == <<CR, LF>>

\* The arguments of a command, each with its length: binary safe.
catAppendOnlyGenericCommand(argv) ==
  <<Star, Num(Len(argv))>> \o CRLF
  \o FlattenSeq([j \in 1 .. Len(argv) |-> <<Dollar, Num(Len(argv[j]))>> \o CRLF \o argv[j] \o CRLF])
=============================================================================
