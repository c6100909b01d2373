--------------------------- MODULE MCRegistrations --------------------------
(***************************************************************************)
(* An instance of Registrations for TLC: three connections of one client,   *)
(* two of them on one directory.                                            *)
(***************************************************************************)
EXTENDS Registrations

CONSTANTS c1, x, y, z, A, B

TwoOnOne == [n \in {x, y, z} |-> IF n = z THEN B ELSE A]
=============================================================================
