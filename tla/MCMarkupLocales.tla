--------------------------- MODULE MCMarkupLocales ---------------------------
(***************************************************************************)
(* An instance of MarkupLocales for TLC: two schemas share the file of one   *)
(* locale.                                                                  *)
(***************************************************************************)
EXTENDS MarkupLocales
=============================================================================
