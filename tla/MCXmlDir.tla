------------------------------ MODULE MCXmlDir ------------------------------
(***************************************************************************)
(* An instance of XmlDir for TLC: /, /a and /a/b, with a key in each.    *)
(***************************************************************************)
EXTENDS XmlDir

CONSTANTS r, a, ab, rk, ak, abk, e1

MCUp == [p \in {r, a, ab, rk, ak, abk} |->
          CASE p = r -> {r} [] p = a -> {r, a} [] p = ab -> {r, a, ab}
            [] p = rk -> {r, rk} [] p = ak -> {r, a, ak} [] p = abk -> {r, a, ab, abk}]

\* Nothing yet, or what an earlier process saved.
MCLayouts == {[d \in {r, a, ab} |-> [NoDir EXCEPT !.made = d = r]],
              [d \in {r, a, ab} |-> [NoDir EXCEPT !.made = TRUE, !.file = [k \in KeysIn[d] |-> e1]]]}
=============================================================================
