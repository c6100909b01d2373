------------------------------ MODULE MCMarkup ------------------------------
(***************************************************************************)
(* An instance of MarkupTree for TLC: /, /a and /a/b, with a key in each of  *)
(* the two directories.                                                     *)
(***************************************************************************)
EXTENDS MarkupTree

CONSTANTS r, a, ab, ak, abk, e1, e2

MCUp == [p \in {r, a, ab, ak, abk} |->
          CASE p = r -> {r} [] p = a -> {r, a} [] p = ab -> {r, a, ab}
            [] p = ak -> {r, a, ak} [] p = abk -> {r, a, ab, abk}]

NoFiles == [plain |-> NoFile, plainNew |-> NoFile, tree |-> NoFile, treeNew |-> NoFile]
Plain(es) == [NoFiles EXCEPT !.plain = [dirs |-> {}, entries |-> es]]
\* Nothing yet, or what an earlier process saved without "merged".
MCLayouts == {[d \in {r, a, ab} |-> NoFiles],
              [d \in {r, a, ab} |->
                  IF d = r THEN NoFiles ELSE IF d = a THEN Plain(<<>>) ELSE Plain(abk :> e1)]}
=============================================================================
