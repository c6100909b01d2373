------------------------------ MODULE KeySpace ------------------------------
(***************************************************************************)
(* The namespace of GConf: absolute keys such as /, /a and /a/b.  A key and *)
(* a directory are names of the same tree, so one set Path holds both.      *)
(*                                                                          *)
(* A path is an opaque value; what the code computes from its characters is *)
(* given by Up: Up[p] holds every prefix of p that ends at a '/' boundary,   *)
(* the root and p itself.                                                    *)
(***************************************************************************)
EXTENDS Naturals, FiniteSets

CONSTANTS
    Path,   \* the names in use, closed under "directory of"
    Root,   \* "/"
    Up      \* Up[p]: p and all its ancestor directories

ASSUME PathAssumption ==
    /\ Root \in Path
    /\ Up \in [Path -> SUBSET Path]
    /\ \A p \in Path : p \in Up[p] /\ Root \in Up[p]
    /\ \A p \in Path : \A q \in Up[p] : Up[q] \subseteq Up[p]
    /\ \A p, q \in Path : p \in Up[q] /\ q \in Up[p] => p = q
    /\ \A p \in Path : \A q, r \in Up[p] : q \in Up[r] \/ r \in Up[q]

ASSUME PathFinite == \A p \in Path : IsFiniteSet(Up[p])

(***************************************************************************)
(* gconf_key_is_below: below is above itself, or a name somewhere under it. *)
(* Everything is below the root.                                            *)
(***************************************************************************)
KeyIsBelow(above, below) == above \in Up[below]

(***************************************************************************)
(* gconf_key_directory: the name up to its last '/', and / for a name of    *)
(* one component (also for / itself).                                       *)
(***************************************************************************)
KeyDirectory(p) ==
    IF p = Root THEN Root
    ELSE CHOOSE q \in Up[p] \ {p} : \A r \in Up[p] \ {p} : r \in Up[q]

Subtree(p) == {q \in Path : KeyIsBelow(p, q)}
=============================================================================
