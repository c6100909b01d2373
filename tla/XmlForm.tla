------------------------------- MODULE XmlForm -------------------------------
(***************************************************************************)
(* Values in the documents of the XML backend (xml-entry.c).  The node of    *)
(* an entry is changed in place: a schema adds a child for its locale to     *)
(* what is there, any other value takes the place of the children.          *)
(***************************************************************************)
EXTENDS TextForm

Locales == {Nil, <<"C">>}
NoChild == [short |-> Nil, long |-> Nil, default |-> Nil, there |-> FALSE]
NoNode == [type |-> "invalid", head |-> Nil, locals |-> [l \in Locales |-> NoChild]]

(* my_xmlGetProp: an empty attribute is none.                               *)
Prop(s) == IF s = <<>> THEN Nil ELSE s

-----------------------------------------------------------------------------
(* A pair that lacks a half gets two empty children.                        *)
NodePlain(v) ==
  IF v.type = "pair" /\ Nil \in {v.car, v.cdr} THEN Pair(Nil, Nil) ELSE v

NodeSchema(node, v) ==
  [type |-> "schema",
   head |-> [stype |-> v.stype, ltype |-> v.ltype, cartype |-> v.cartype, cdrtype |-> v.cdrtype,
             owner |-> Prop(v.owner)],
   locals |-> [node.locals EXCEPT ![v.locale] =
                 [short |-> Prop(v.short), long |-> v.long, there |-> TRUE,
                  default |-> IF v.default = Nil THEN Nil ELSE NodePlain(v.default)]]]

(* node_set_value                                                           *)
NodeSet(node, v) ==
  IF v.type = "schema" THEN NodeSchema(node, v)
  ELSE [NoNode EXCEPT !.type = v.type, !.head = NodePlain(v)]

-----------------------------------------------------------------------------
(* node_extract_value: an element of a list that cannot be read is left out. *)
ExtractAtom(v) ==
  IF v = Nil THEN Nil
  ELSE IF v.type = "string" THEN v ELSE AtomFromString(v.type, v.data)

ExtractList(v) ==
  List(v.of, SelectSeq([i \in DOMAIN v.items |-> ExtractAtom(v.items[i])], LAMBDA x : x # Nil))

ExtractPair(v) ==
  IF Nil \in {ExtractAtom(v.car), ExtractAtom(v.cdr)} THEN Nil
  ELSE Pair(ExtractAtom(v.car), ExtractAtom(v.cdr))

ExtractPlain(v) ==
  CASE IsAtom(v) -> ExtractAtom(v)
    [] v.type = "list" -> ExtractList(v)
    [] v.type = "pair" -> ExtractPair(v)

(* schema_subnode_extract_data                                              *)
ExtractLocal(child, sc) ==
  [sc EXCEPT !.short = child.short, !.long = child.long,
             !.default = IF child.default = Nil THEN Nil ELSE ExtractPlain(child.default)]

(* schema_node_extract_value, for the locales C.                            *)
ExtractSchema(node) ==
  LET head   == node.head
      locale == IF node.locals[<<"C">>].there THEN <<"C">> ELSE Nil
  IN ExtractLocal(node.locals[locale],
                  [Schema(head.stype, head.ltype, head.cartype, head.cdrtype) EXCEPT
                     !.owner = head.owner, !.locale = locale])

Extract(node) ==
  CASE node.type = "invalid" -> Nil
    [] node.type = "schema" -> ExtractSchema(node)
    [] OTHER -> ExtractPlain(node.head)
=============================================================================
