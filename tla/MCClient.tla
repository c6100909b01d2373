------------------------------ MODULE MCClient ------------------------------
(***************************************************************************)
(* An instance of Client for TLC: two nested directories with a key each;   *)
(* the inner key has a schema.                                              *)
(***************************************************************************)
EXTENDS Client

CONSTANTS r, a, ab, k, abk, v1, v2

MCUp == [p \in {r, a, ab, k, abk} |->
          CASE p = r -> {r} [] p = a -> {r, a} [] p = ab -> {r, a, ab}
            [] p = k -> {r, a, k} [] p = abk -> {r, a, ab, abk}]
MCDefault == [x \in {k, abk} |-> IF x = abk THEN v2 ELSE None]
MCInitially == [x \in {k, abk} |-> IF x = k THEN v1 ELSE None]
MCMaxAdds == [d \in {a, ab} |-> IF d = a THEN 1 ELSE 2]
=============================================================================
