------------------------------- MODULE DictMap -------------------------------
(***************************************************************************)
(* What the hash table of redis promises its users: a set of entries, at   *)
(* most one for a key, that only their calls change, one key at a time.    *)
(***************************************************************************)
CONSTANTS Key, Value

VARIABLE content

Others(k) == {e \in content : e.key # k}

MInit == content = {}

MSet(k, v) == content' = Others(k) \cup {[key |-> k, val |-> v]}

MDelete(k) == content' = Others(k)

MEmpty == content' = {}

MNext == (\E k \in Key : MDelete(k) \/ \E v \in Value : MSet(k, v)) \/ MEmpty

MSpec == MInit /\ [][MNext]_content
=============================================================================
