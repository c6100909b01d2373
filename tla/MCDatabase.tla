----------------------------- MODULE MCDatabase -----------------------------
(***************************************************************************)
(* An instance of Database for TLC: the default database (mandatory, user,  *)
(* defaults), with one that a client opened to write to both storages, and  *)
(* one to read them only.                                                   *)
(***************************************************************************)
EXTENDS Database, TLC

CONSTANTS r, k, s, mand, user, sys, default, opened, fixed, v1, v2, S1

(* The key /k, and the key /s where its schema is. *)
MCPath == {r, k, s}
MCUp == [p \in MCPath |-> {r, p}]

MCStack == [d \in Db |->
    CASE d = default -> <<mand, user, sys>>
      [] d = opened -> <<sys, user>>
      [] d = fixed -> <<user, sys>>]
MCWrites == [d \in Db |-> IF d = default THEN {2} ELSE IF d = opened THEN {1, 2} ELSE {}]
MCLayers == [d \in Db |->
    [i \in DOMAIN MCStack[d] |-> [src |-> MCStack[d][i], writable |-> i \in MCWrites[d]]]]
MCDbList == <<default, opened, fixed>>
MCDefaultOf == S1 :> v2

(* The mandatory storage has a schema of its own, and binds /k to it. *)
Empty == [src \in Source |-> [p \in MCPath |-> [val |-> None, schema |-> None]]]
MCShipped == {[Empty EXCEPT ![mand] = [@ EXCEPT ![k].schema = s, ![s].val = S1]]}

(* A client may also put a value that is no schema where the schema is looked for. *)
MCRequests == {[key |-> k, value |-> v1], [key |-> s, value |-> v1]}
MCDescribed == {[key |-> k, schema |-> s], [key |-> k, schema |-> None]}
=============================================================================
