------------------------------- MODULE Values -------------------------------
(***************************************************************************)
(* Values and schemas (gconf-value.c, gconf-schema.c).  Text is a sequence  *)
(* of characters; a number, or a word that stands for itself, is one        *)
(* character.                                                              *)
(***************************************************************************)
EXTENDS Naturals, Sequences, SequencesExt

CONSTANT Nil   \* NULL

AtomTypes == {"int", "float", "bool", "string"}

(* Doubles: six digits tell it ("short") or do not ("long"; then "rounded"   *)
(* is what six digits make of it), or it is too small for strtod, which      *)
(* then reports a range error ("tiny").                                     *)
Short == <<"short">>
Long == <<"long">>
Rounded == <<"rounded">>
Tiny == <<"tiny">>

Atom(t, d) == [type |-> t, data |-> d]
List(t, vs) == [type |-> "list", of |-> t, items |-> vs]
Pair(a, b) == [type |-> "pair", car |-> a, cdr |-> b]
Schema(t, l, a, b) ==
  [type |-> "schema", stype |-> t, ltype |-> l, cartype |-> a, cdrtype |-> b,
   locale |-> Nil, short |-> Nil, long |-> Nil, owner |-> Nil, default |-> Nil]

IsAtom(v) == v.type \in AtomTypes
TypeOf(v) == IF v = Nil THEN "invalid" ELSE v.type
Blank(s) == \A i \in DOMAIN s : s[i] = " "

-----------------------------------------------------------------------------
(* gconf_value_validate: a schema of lists or pairs says of what.           *)
Valid(v) ==
  v.type = "schema" =>
    /\ v.stype = "list" => v.ltype # "invalid"
    /\ v.stype = "pair" => "invalid" \notin {v.cartype, v.cdrtype}

-----------------------------------------------------------------------------
(* SameSchema with a bug in it: the locale is not compared.                  *)
SameSchemaAnywhere(a, b) ==
  /\ a.stype = b.stype
  /\ a.short = b.short
  /\ a.long = b.long

(* gconf_value_compare gives 0.  Owner and default value of schemas are not  *)
(* compared, nor the type of a list.                                        *)
SameSchema(a, b) ==
  /\ a.stype = b.stype
  /\ a.short = b.short
  /\ a.long = b.long
  /\ a.locale = b.locale
  /\ a.stype = "list" => a.ltype = b.ltype
  /\ a.stype = "pair" => a.cartype = b.cartype /\ a.cdrtype = b.cdrtype

SameAtom(a, b) == a.type = b.type /\ a.data = b.data
SameHalf(a, b) == a = b \/ (Nil \notin {a, b} /\ SameAtom(a, b))

Same(a, b) ==
  /\ a.type = b.type
  /\ CASE IsAtom(a) -> SameAtom(a, b)
       [] a.type = "list" ->
            /\ Len(a.items) = Len(b.items)
            /\ \A i \in DOMAIN a.items : SameAtom(a.items[i], b.items[i])
       [] a.type = "pair" -> SameHalf(a.car, b.car) /\ SameHalf(a.cdr, b.cdr)
       [] a.type = "schema" -> SameSchema(a, b)

-----------------------------------------------------------------------------
(* The values a value is made of that have no parts.                        *)
PartsOfPlain(v) ==
  CASE IsAtom(v) -> {v}
    [] v.type = "list" -> {v.items[i] : i \in DOMAIN v.items}
    [] v.type = "pair" -> {v.car, v.cdr} \ {Nil}

Parts(v) ==
  IF v.type # "schema" THEN PartsOfPlain(v)
  ELSE IF v.default = Nil THEN {} ELSE PartsOfPlain(v.default)

Strings(v) == {p.data : p \in {q \in Parts(v) : q.type = "string"}}
Doubles(v) == {p.data : p \in {q \in Parts(v) : q.type = "float"}}
=============================================================================
