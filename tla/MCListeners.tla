---------------------------- MODULE MCListeners ----------------------------
(* Instances of Listeners for TLC: the namespace / , /a , /a/b , /c. *)
EXTENDS Listeners

CONSTANTS r, a, ab, c

MCPath == {r, a, ab, c}
MCUp == [p \in MCPath |-> CASE p = r -> {r}
                            [] p = a -> {r, a}
                            [] p = ab -> {r, a, ab}
                            [] p = c -> {r, c}]
=============================================================================
