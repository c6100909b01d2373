----------------------------- MODULE MCDefaults -----------------------------
(***************************************************************************)
(* An instance of Defaults for TLC: the keys /a/x and /ax, whose names both  *)
(* begin with the text of the directory /a; an action is annotated with /a. *)
(***************************************************************************)
EXTENDS Defaults

CONSTANTS root, a, x, ax, v1, v2

MCUp == [p \in {root, a, x, ax} |-> {root, p} \cup (IF p = x THEN {a} ELSE {})]
MCStarts == [p \in {root, a, x, ax} |->
              CASE p = root -> {root, a, x, ax} [] p = a -> {a, x, ax} [] OTHER -> {p}]
MCInitially == [k \in {x, ax} |-> IF k = x THEN None ELSE v1]

Request(does, db, includes, excludes, value) ==
  [does |-> does, db |-> db, includes |-> includes, excludes |-> excludes, value |-> value]

MCUserChanges == {<<x, v1>>, <<ax, v2>>}

MCRequests ==
  { Request("copy", "mandatory", {x, ax}, {}, None),
    Request("copy", "system", {root}, {a}, None),
    Request("value", "system", {x}, {}, v2),
    Request("value", "system", {x}, {}, None),
    Request("check", "system", {x, ax}, {}, None),
    Request("unset", "mandatory", {a}, {}, None) }
=============================================================================
