----------------------------- MODULE MCClients ------------------------------
EXTENDS Clients, TLC

CONSTANTS c1, c2, c3

ClientMC == {c1, c2, c3}
ClientSymmetry == Permutations(ClientMC)

\* Two keys, one channel, and two patterns of which one matches it.
KeyMC == {"a", "b"}
MatchesMC == {<<"news", "n*">>}

\* Pushers and poppers, blocking clients with commands behind, transactions,
\* and subscribers.
ProgramMC ==
  {<< <<"push", "a">>, <<"rpoplpush", "a", "b">> >>,
   << <<"blpop", <<"a">>, FALSE>>, <<"blpop", <<"b">>, FALSE>>, <<"quit">> >>,
   << <<"blpop", <<"b", "a", "b">>, TRUE>>, <<"pop", "a">>, <<"push", "b">> >>,
   << <<"multi">>, <<"push", "a">>, <<"blpop", <<"b">>, TRUE>>, <<"exec">> >>,
   << <<"push", "a">>, <<"rename", "a", "b">>, <<"multi">>, <<"discard">> >>,
   << <<"subscribe", "news">>, <<"psubscribe", "n*">>, <<"psubscribe", "n*">>, <<"unsubscribe", {"news"}>>,
      <<"punsubscribe", {"n*", "x*"}>> >>}
=============================================================================
