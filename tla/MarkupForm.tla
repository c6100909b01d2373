----------------------------- MODULE MarkupForm -----------------------------
(***************************************************************************)
(* Values in the files of the markup backend (markup-tree.c).  A file that   *)
(* has one value the parser rejects is not read at all.                     *)
(***************************************************************************)
EXTENDS Values

CONSTANT Rejected   \* a parse error

-----------------------------------------------------------------------------
(* write_value_element: of a schema only the types that go with its own.     *)
SchemaElement(v) ==
  [type |-> "schema", stype |-> v.stype, owner |-> v.owner,
   ltype |-> IF v.stype = "list" THEN v.ltype ELSE "invalid",
   cartype |-> IF v.stype = "pair" THEN v.cartype ELSE "invalid",
   cdrtype |-> IF v.stype = "pair" THEN v.cdrtype ELSE "invalid",
   local |-> [locale |-> v.locale, short |-> v.short, long |-> v.long, default |-> v.default]]

Element(v) == IF v.type = "schema" THEN SchemaElement(v) ELSE v

-----------------------------------------------------------------------------
(* parse_value_element and text_handler, which passes over blank text.       *)
ParsedText(s) == IF Blank(s) THEN <<>> ELSE s

(* ParsedAtom with a bug in it: an element without text is an error.         *)
ParsedAtomStrict(v) ==
  IF v.type = "string" /\ Blank(v.data) THEN Rejected
  ELSE IF v.type = "float" /\ v.data = Tiny THEN Rejected
  ELSE v

ParsedAtom(v) ==
  IF v.type = "string" THEN Atom("string", ParsedText(v.data))
  ELSE IF v.type = "float" /\ v.data = Tiny THEN Rejected
  ELSE v

ParsedList(v) ==
  LET items == [i \in DOMAIN v.items |-> ParsedAtom(v.items[i])]
  IN IF \E i \in DOMAIN items : items[i] = Rejected THEN Rejected ELSE List(v.of, items)

ParsedHalf(v) == IF v = Nil THEN Nil ELSE ParsedAtom(v)

(* ParsedPair with a bug in it: the halves change places.                   *)
ParsedPairSwapped(v) ==
  IF Rejected \in {ParsedHalf(v.car), ParsedHalf(v.cdr)} THEN Rejected
  ELSE Pair(ParsedHalf(v.cdr), ParsedHalf(v.car))

ParsedPair(v) ==
  IF Rejected \in {ParsedHalf(v.car), ParsedHalf(v.cdr)} THEN Rejected
  ELSE Pair(ParsedHalf(v.car), ParsedHalf(v.cdr))

ParsedPlain(v) ==
  CASE IsAtom(v) -> ParsedAtom(v)
    [] v.type = "list" -> ParsedList(v)
    [] v.type = "pair" -> ParsedPair(v)

(* Nothing that has parts may be part of a list or a pair.                  *)
Composite == {"list", "pair", "schema"}

ParsedSchema(e) ==
  LET default == IF e.local.default = Nil THEN Nil ELSE ParsedPlain(e.local.default)
      long    == IF e.local.long = Nil THEN <<>> ELSE ParsedText(e.local.long)
  IN IF default = Rejected \/ Composite \cap {e.ltype, e.cartype, e.cdrtype} # {}
     THEN Rejected
     ELSE [Schema(e.stype, e.ltype, e.cartype, e.cdrtype) EXCEPT
             !.owner = e.owner, !.locale = e.local.locale, !.short = e.local.short,
             !.long = IF long = <<>> THEN Nil ELSE long, !.default = default]

Parsed(e) == IF e.type = "schema" THEN ParsedSchema(e) ELSE ParsedPlain(e)

-----------------------------------------------------------------------------
(* markup_entry_set_value: the localized parts of a schema are kept under a  *)
(* locale, without one under C.                                             *)
Kept(v) ==
  IF v.type = "schema" /\ v.locale = Nil THEN [v EXCEPT !.locale = <<"C">>] ELSE v
=============================================================================
