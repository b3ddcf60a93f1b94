----------------------------- MODULE MCFormats ------------------------------
(***************************************************************************)
(* What redis writes and reads back, in one model: the dump file and its   *)
(* checker, the append only file and its checker, requests and replies on  *)
(* a connection, and values in the swap file.  A behaviour is about one of *)
(* them.                                                                   *)
(***************************************************************************)
EXTENDS CheckDump, AofFile, Wire, Vm

CONSTANTS k1, k2, c1, c2, t1, t2    \* keys, clients and I/O threads of the virtual memory

VARIABLE part    \* the format that this behaviour is about

-----------------------------------------------------------------------------
(* The dump file *)

\* Texts: numbers around the widths, texts that only look like numbers, and lengths around
\* the forms of a length.
Numbers == {ll2string(v) : v \in {0, -1, 15, 16, -16, -17, 511, 512, -512, -513, 524287, 524288, -524288, -524289}}
Same(c, n) == [i \in 1 .. n |-> c]
Mixed(n) == [i \in 1 .. n |-> IF i % 2 = 0 THEN 30 ELSE 20]
Texts == {<<>>, <<1, 2>>, <<MINUS>>, <<MINUS, 1>>, <<SPACE, 3>>, <<2, NUL>>, <<2, 30>>,
          Mixed(7), Mixed(8), Same(25, 10), Same(2, 10), Mixed(255), Mixed(256)}
Strings == Numbers \cup Texts

Scores == {<<"num", h>> : h \in {0, 1, -1, 4, -7, 2048}} \cup {<<"nan", 0>>, <<"inf", 1>>, <<"inf", -1>>}

Short2 == {<<>>, <<2>>, <<2, 3>>, <<MINUS, 6>>, <<30>>, Mixed(4), Mixed(5)}

Vals ==
  {Value(REDIS_STRING, FALSE, <<s>>, <<>>) : s \in Strings}
  \cup {Value(t, FALSE, l, <<>>) : t \in {REDIS_LIST, REDIS_SET}, l \in {<<ll2string(7)>>, <<<<30>>, <<2>>, Mixed(8)>>, [i \in 1 .. 9 |-> ll2string(i)]}}
  \cup {Value(REDIS_ZSET, FALSE, <<<<2>>>>, <<s>>) : s \in Scores}
  \cup {Value(REDIS_ZSET, FALSE, <<<<2>>, <<30>>>>, <<s, <<"inf", -1>>>>) : s \in Scores}
  \cup {Value(REDIS_HASH, \A i \in 1 .. 2 : Len(h[i]) <= hash_max_zipmap_value, h, <<>>) : h \in {<<f, v>> : f \in Short2, v \in Short2}}
  \cup {Value(REDIS_HASH, TRUE, <<f, v, <<30>>, f>>, <<>>) : f \in {<<2>>, <<2, 3>>}, v \in {<<>>, <<6>>, <<2, 2>>}}
  \cup {Value(REDIS_HASH, z, <<<<2>>, <<3>>, <<4>>, <<5>>>>, <<>>) : z \in BOOLEAN}
  \cup {Value(REDIS_HASH, FALSE, <<<<2>>, <<3>>, <<4>>, <<5>>, <<6>>, <<7>>>>, <<>>)}

\* One key of each kind, or keys with and without an expire time in two databases.
E(k, v, e) == [key |-> k, val |-> v, exp |-> e]
Other == E(<<30>>, Value(REDIS_STRING, FALSE, <<<<31, 31>>>>, <<>>), -1)
OneKey == {[d \in DbId |-> IF d = 0 THEN <<E(<<2, 3>>, v, -1)>> ELSE <<>>] : v \in Vals}
TwoDbs == {[d \in DbId |-> IF d = 0 THEN z ELSE <<E(k, Value(REDIS_LIST, FALSE, <<<<2>>>>, <<>>), e), Other>>] :
             k \in {<<2>>, <<>>}, e \in {-1, 0, 2, 9, 2^(4 * W - 1) - 1, 2^(4 * W - 1), 2^(4 * W) - 1}, z \in {<<>>, <<Other>>}}
Empty == [d \in DbId |-> <<>>]
DatasetsMC == OneKey \cup TwoDbs \cup {Empty}

-----------------------------------------------------------------------------
(* Requests, replies and the append only file *)

\* A command with two arguments, one whose last argument is a bulk, and QUIT.
GET == 1
SET1 == 2
QUIT == 3
ArityMC == (GET :> 2) @@ (SET1 :> 3)
Asked(form, words) == [form |-> form, args |-> words]
K == <<Char(1)>>
V == <<Char(2), CR, LF, Star>>
Reqs == {Asked("inline", <<<<Name(GET)>>, K>>), Asked("bulk", <<<<Name(SET1)>>, K, V>>), Asked("bulk", <<<<Name(SET1)>>, K, <<>>>>),
         Asked("multi", <<<<Name(SET1)>>, K, V>>), Asked("multi", <<<<Name(GET)>>, <<Char(1), SP>>>>), Asked("blank", <<>>),
         Asked("inline", <<<<Name(QUIT)>>>>)}
ScriptsMC == {<<a, b>> : a \in Reqs, b \in Reqs} \cup {<<a, b, c>> : a \in Reqs, b \in {r \in Reqs : r.form = "multi"}, c \in Reqs}
ReplyMC(cmd) ==
  IF cmd = <<>> THEN <<<<Char(9)>>>>
  ELSE IF cmd[1] = <<Name(GET)>> THEN <<<<Dollar, Num(3)>>, cmd[2] \o <<Char(3)>>, <<CR>>>>
  ELSE IF cmd[3] = <<>> THEN << <<>>, <<Char(4)>> >> ELSE <<<<Char(4), Char(5), Char(6)>>>>

\* Commands alone and in transactions.
M == <<Name(1)>>
X == <<Name(2)>>
Cmds == {<< <<Name(3)>>, <<Char(1)>> >>, << <<Name(4)>>, <<>>, <<LF, Star, Char(2)>> >>}
LogsMC == {<<a>> : a \in Cmds} \cup {<<a, b>> : a, b \in Cmds}
  \cup {<<a, <<M>>, b, <<X>>, c>> : a, b, c \in Cmds} \cup {<<<<M>>, a, <<X>>, <<M>>, b, <<X>>>> : a, b \in Cmds}

-----------------------------------------------------------------------------
KeyMC == {k1, k2}
ClientMC == {c1, c2}
ThreadMC == {t1, t2}
VmSymmetry == Permutations(ThreadMC) \cup Permutations(KeyMC) \cup Permutations(ClientMC)

\* The parts that a behaviour is not about have one initial state.
Init ==
  /\ part \in {"dump", "aof", "wire", "vm"}
  /\ IF part = "dump" THEN dataset \in Datasets ELSE dataset = Empty
  /\ IF part = "aof" THEN alog \in Logs ELSE alog = CHOOSE l \in Logs : TRUE
  /\ IF part = "wire" THEN script \in Scripts ELSE script = CHOOSE s \in Scripts : TRUE
  /\ IF part = "vm" THEN data \in [Key -> Size] ELSE data = [k \in Key |-> 1]
  /\ RdbInit /\ CheckInit /\ AofInit /\ WireInit /\ VmInit
  /\ part # "aof" => aof = <<>>
  /\ part # "wire" => conn.glueoutputbuf

\* redis-check-dump looks at a file that nobody writes or reads any more.
DumpNext == (checker.state = "none" /\ RdbNext /\ UNCHANGED checkvars) \/ CheckNext

Next ==
  /\ UNCHANGED part
  /\ \/ part = "dump" /\ DumpNext /\ UNCHANGED <<aofvars, wirevars, vmvars>>
     \/ part = "aof" /\ AofNext /\ UNCHANGED <<rdbvars, checkvars, wirevars, vmvars>>
     \/ part = "wire" /\ WireNext /\ UNCHANGED <<rdbvars, checkvars, aofvars, vmvars>>
     \/ part = "vm" /\ VmNext /\ UNCHANGED <<rdbvars, checkvars, aofvars, wirevars>>
     \/ part # "vm" /\ UNCHANGED <<rdbvars, checkvars, aofvars, wirevars, vmvars>>      \* files and connections end

Spec == Init /\ [][Next]_<<rdbvars, checkvars, aofvars, wirevars, vmvars, part>>
=============================================================================
