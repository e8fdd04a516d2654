----------------------------- MODULE OrderedMap -----------------------------
(***************************************************************************)
(* What an index promises its callers (sql_exec.go, secondary.go): a map   *)
(* from ordered keys to row keys, changed one key at a time.               *)
(***************************************************************************)
CONSTANTS Keys, RowKeys

VARIABLE map    \* the row key of every key that is present

Init == map = [k \in {} |-> {}]

Put(k, r) == map' = [x \in DOMAIN map \cup {k} |-> IF x = k THEN r ELSE map[x]]

Delete(k) == map' = [x \in DOMAIN map \ {k} |-> map[x]]

Next == \E k \in Keys : Delete(k) \/ \E r \in RowKeys : Put(k, r)

Spec == Init /\ [][Next]_map
=============================================================================
