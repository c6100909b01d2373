-------------------------------- MODULE Wire --------------------------------
(***************************************************************************)
(* Values in D-Bus messages (gconf-dbus-utils.c).  A value alone is a        *)
(* structure of its own shape; the entries of a directory carry theirs as    *)
(* text.                                                                   *)
(***************************************************************************)
EXTENDS TextForm

CONSTANT Leftover   \* what is read behind the end of a structure

(* A boolean followed by a string.                                          *)
Optional(s) == IF s = Nil THEN [set |-> FALSE, text |-> <<>>] ELSE [set |-> TRUE, text |-> s]
GetOptional(o) == IF o.set THEN o.text ELSE Nil

SentSchema(v) ==
  [type |-> "schema", types |-> <<v.stype, v.ltype, v.cartype, v.cdrtype>>,
   texts |-> <<Optional(v.locale), Optional(v.short), Optional(v.long), Optional(v.owner)>>,
   default |-> IF v.default = Nil THEN <<>> ELSE Encode(v.default)]

(* The types of both halves, and then the halves there are.                 *)
SentPair(v) ==
  [type |-> "pair", types |-> <<TypeOf(v.car), TypeOf(v.cdr)>>,
   halves |-> SelectSeq(<<v.car, v.cdr>>, LAMBDA h : h # Nil)]

Sent(v) ==
  CASE v = Nil -> [type |-> "invalid"]
    [] v # Nil /\ v.type = "pair" -> SentPair(v)
    [] v # Nil /\ v.type = "schema" -> SentSchema(v)
    [] OTHER -> v

ReceivedSchema(m) ==
  [Schema(m.types[1], m.types[2], m.types[3], m.types[4]) EXCEPT
     !.locale = GetOptional(m.texts[1]), !.short = GetOptional(m.texts[2]),
     !.long = GetOptional(m.texts[3]), !.owner = GetOptional(m.texts[4]),
     !.default = IF m.default = <<>> THEN Nil ELSE Decode(m.default)]

(* The iterator moves on after the first half even if there is none.        *)
ReceivedPair(m) ==
  LET Half(i) ==
        IF m.types[i] = "invalid" THEN Nil
        ELSE IF i \in DOMAIN m.halves THEN m.halves[i]
        ELSE Atom(m.types[i], Leftover)
  IN Pair(Half(1), Half(2))

Received(m) ==
  CASE m.type = "invalid" -> Nil
    [] m.type = "pair" -> ReceivedPair(m)
    [] m.type = "schema" -> ReceivedSchema(m)
    [] OTHER -> m

Carried(v) == Received(Sent(v))

(* utils_append_entry_values_stringified, utils_get_entry_values_stringified *)
Stringified(v) == IF v = Nil THEN <<>> ELSE Encode(v)
Unstringified(s) == IF s = <<>> THEN Nil ELSE Decode(s)
=============================================================================
