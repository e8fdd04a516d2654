-------------------------------- MODULE MCSQL --------------------------------
(* SQL on small instances: the scenarios. *)
EXTENDS SQL, TLC

CONSTANTS s1, s2

St(op, by, arg, set) == [op |-> op, by |-> by, arg |-> arg, set |-> set]
DDL == {St(op, "none", Null, Null) : op \in {"create_table", "drop_table", "create_index", "drop_index"}}
Inserts(K, V) == {St("insert", "none", k, v) : k \in K, v \in V}
Where(op, K, V, set) ==
    {St(op, "pk", k, set) : k \in K} \cup {St(op, "col", v, set) : v \in V}
    \cup {St(op, "all", Null, set)}
Updates(K, V, S) == UNION {Where("update", K, V, v) : v \in S}

\* Every statement, with operands other than NULL in WHERE.
Everything(K) ==
    DDL \cup Inserts(K, Cols) \cup Updates(K, Ints, Cols)
    \cup Where("delete", K, Ints, Null) \cup Where("select", K, Ints, Null)
Sequential ==
    [existing |-> {}, script |-> [s \in Sessions |-> IF s = s1 THEN Everything({0, 1}) ELSE {}]]

\* Each session has a primary key of its own, and both insert key 2.
OwnKey(k) ==
    Inserts({k}, Cols) \cup {St("update", "pk", k, v) : v \in Cols}
    \cup {St("delete", "pk", k, Null), St("select", "pk", k, Null)}
Concurrent ==
    [existing |-> {TableKey, IndexKey},
     script |-> (s1 :> OwnKey(0) \cup Inserts({2}, {0})) @@ (s2 :> OwnKey(1) \cup Inserts({2}, {1}))]

Regular == {Sequential, Concurrent}
ASSUME RegularIsDisciplined == \A sc \in Regular : Disciplined(sc)

\* One session builds the index while the other writes.
BuildAndInsert ==
    {[existing |-> {TableKey},
      script |-> (s1 :> {St("create_index", "none", Null, Null)}) @@ (s2 :> Inserts({0}, {0}))]}
=============================================================================
