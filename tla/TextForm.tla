------------------------------ MODULE TextForm ------------------------------
(***************************************************************************)
(* Values as text.  gconf_value_encode and gconf_value_decode               *)
(* (gconf-internals.c) quote values inside values; gconf_value_to_string     *)
(* and gconf_value_new_list_from_string (gconf-value.c) are what gconftool   *)
(* prints and takes.                                                       *)
(***************************************************************************)
EXTENDS Values

DQ == "\""
BS == "\\"

(* Every character of S, and the backslash, gets a backslash before it.      *)
Escaped(s, S) ==
  FlattenSeq([i \in DOMAIN s |-> IF s[i] \in S \cup {BS} THEN <<BS, s[i]>> ELSE <<s[i]>>])

-----------------------------------------------------------------------------
(* Quote with a bug in it: backslashes are not escaped.                     *)
QuotePlain(s) ==
  <<DQ>> \o FlattenSeq([i \in DOMAIN s |-> IF s[i] = DQ THEN <<BS, DQ>> ELSE <<s[i]>>]) \o <<DQ>>

Quote(s) == <<DQ>> \o Escaped(s, {DQ}) \o <<DQ>>

RECURSIVE Scan(_, _)
Scan(s, out) ==
  IF s = <<>> THEN [text |-> out, rest |-> <<>>]
  ELSE IF Head(s) = DQ THEN [text |-> out, rest |-> Tail(s)]
  ELSE IF Head(s) = BS /\ Len(s) > 1 /\ s[2] \in {DQ, BS}
       THEN Scan(SubSeq(s, 3, Len(s)), Append(out, s[2]))
       ELSE Scan(Tail(s), Append(out, Head(s)))

(* gconf_unquote_string: what does not begin with a quotation mark is        *)
(* returned as it is, and nothing of it is used up.                         *)
Unquote(s) ==
  IF s # <<>> /\ Head(s) = DQ THEN Scan(Tail(s), <<>>) ELSE [text |-> s, rest |-> s]

Letters == [int |-> "i", bool |-> "b", float |-> "f", string |-> "s",
            schema |-> "c", list |-> "l", pair |-> "p", invalid |-> "v"]
ByteType(s, i) ==
  IF i \in DOMAIN s /\ \E t \in DOMAIN Letters : Letters[t] = s[i]
  THEN CHOOSE t \in DOMAIN Letters : Letters[t] = s[i]
  ELSE "invalid"

EncodeAtom(v) ==
  <<Letters[v.type]>> \o (IF v.type = "float" /\ v.data = Long THEN Rounded ELSE v.data)

(* Of no value there is no text, and g_strconcat ends there.                *)
EncodePair(v) ==
  <<"p">> \o
  IF v.car = Nil THEN <<>>
  ELSE Quote(EncodeAtom(v.car)) \o <<",">> \o
       IF v.cdr = Nil THEN <<>> ELSE Quote(EncodeAtom(v.cdr))

EncodeList(v) ==
  <<"l", Letters[v.of]>> \o
  FlattenSeq([i \in DOMAIN v.items |-> <<",">> \o Quote(EncodeAtom(v.items[i]))])

EncodePlain(v) ==
  CASE IsAtom(v) -> EncodeAtom(v)
    [] v.type = "pair" -> EncodePair(v)
    [] v.type = "list" -> EncodeList(v)

OrEmpty(s) == IF s = Nil THEN <<>> ELSE s

(* A schema has no place for its owner.                                     *)
EncodeSchema(v) ==
  <<"c", Letters[v.stype], Letters[v.ltype], Letters[v.cartype], Letters[v.cdrtype], ",">>
  \o Quote(OrEmpty(v.locale)) \o <<",">>
  \o Quote(OrEmpty(v.short)) \o <<",">>
  \o Quote(OrEmpty(v.long)) \o <<",">>
  \o Quote(IF v.default = Nil THEN <<>> ELSE EncodePlain(v.default))

Encode(v) == IF v.type = "schema" THEN EncodeSchema(v) ELSE EncodePlain(v)

-----------------------------------------------------------------------------
DecodeAtom(s) ==
  IF ByteType(s, 1) \in AtomTypes THEN Atom(ByteType(s, 1), Tail(s)) ELSE Nil

(* The comma before the first element is an element that cannot be decoded. *)
RECURSIVE Elements(_)
Elements(s) ==
  IF s = <<>> THEN <<>>
  ELSE LET u    == Unquote(s)
           elem == DecodeAtom(u.text)
       IN (IF elem = Nil THEN <<>> ELSE <<elem>>)
          \o (IF u.rest # <<>> /\ Head(u.rest) = "," THEN Elements(Tail(u.rest)) ELSE <<>>)

DecodeList(s) == List(ByteType(s, 2), Elements(SubSeq(s, 3, Len(s))))

AfterComma(s) == IF s # <<>> /\ Head(s) = "," THEN Tail(s) ELSE s

DecodePair(s) ==
  LET a == Unquote(Tail(s))
      b == Unquote(AfterComma(a.rest))
  IN Pair(DecodeAtom(a.text), DecodeAtom(b.text))

DecodePlain(s) ==
  CASE ByteType(s, 1) = "pair" -> DecodePair(s)
    [] ByteType(s, 1) = "list" -> DecodeList(s)
    [] OTHER -> DecodeAtom(s)

DecodeSchema(s) ==
  LET locale == Unquote(SubSeq(s, 7, Len(s)))
      short  == Unquote(AfterComma(locale.rest))
      long   == Unquote(AfterComma(short.rest))
      value  == Unquote(AfterComma(long.rest))
  IN [Schema(ByteType(s, 2), ByteType(s, 3), ByteType(s, 4), ByteType(s, 5)) EXCEPT
        !.locale = locale.text, !.short = short.text, !.long = long.text,
        !.default = DecodePlain(value.text)]

Decode(s) == IF ByteType(s, 1) = "schema" THEN DecodeSchema(s) ELSE DecodePlain(s)

-----------------------------------------------------------------------------
Words == {"nil"}

(* gconf_value_new_from_string; a number, or a word in its place, is one     *)
(* character.                                                              *)
AtomFromString(t, s) ==
  IF t # "string" /\ (Len(s) # 1 \/ s[1] \in Words \/ s = Tiny) THEN Nil ELSE Atom(t, s)

HalfText(v) == Escaped(IF v = Nil THEN <<"nil">> ELSE v.data, {",", ")"})

Joined(ss) == FlattenSeq([i \in DOMAIN ss |-> IF i = 1 THEN ss[i] ELSE <<",">> \o ss[i]])

(* gconf_value_to_string                                                    *)
ValueText(v) ==
  CASE IsAtom(v) -> v.data
    [] v.type = "list" ->
         <<"[">> \o Joined([i \in DOMAIN v.items |-> Escaped(v.items[i].data, {",", "]"})]) \o <<"]">>
    [] v.type = "pair" ->
         <<"(">> \o HalfText(v.car) \o <<",">> \o HalfText(v.cdr) \o <<")">>

(* A text after its opening bracket, one character more: done are the pieces *)
(* up to each comma or closing bracket that has no backslash.               *)
Piece(st, c, end) ==
  IF ~st.escaped /\ c \in {",", end}
  THEN [st EXCEPT !.done = Append(@, st.text), !.text = <<>>, !.pending = FALSE,
                  !.closed = (c = end), !.bad = @ \/ st.closed]
  ELSE IF ~st.escaped /\ c = BS
  THEN [st EXCEPT !.escaped = TRUE, !.pending = TRUE, !.bad = @ \/ st.closed]
  ELSE [st EXCEPT !.text = Append(@, c), !.escaped = FALSE, !.pending = TRUE, !.bad = @ \/ st.closed]

Pieces(s, end) ==
  LET st == FoldLeft(LAMBDA a, c : Piece(a, c, end),
                     [done |-> <<>>, text |-> <<>>, escaped |-> FALSE, pending |-> FALSE,
                      closed |-> FALSE, bad |-> FALSE],
                     Tail(s))
  IN [ok |-> ~st.bad /\ ~st.pending, done |-> st.done]

Bracketed(s, open, close) == s # <<>> /\ Head(s) = open /\ Last(s) = close

(* The two brackets anywhere in the text make it an empty list.             *)
ListFromString(t, s) ==
  LET pieces == Pieces(s, "]")
      items  == [i \in DOMAIN pieces.done |-> AtomFromString(t, pieces.done[i])]
  IN IF ~Bracketed(s, "[", "]") THEN Nil
     ELSE IF \E i \in 1..(Len(s) - 1) : s[i] = "[" /\ s[i + 1] = "]" THEN List(t, <<>>)
     ELSE IF ~pieces.ok \/ \E i \in DOMAIN items : items[i] = Nil THEN Nil
     ELSE List(t, items)

PairFromString(t, u, s) ==
  LET pieces == Pieces(s, ")")
      a == AtomFromString(t, pieces.done[1])
      b == AtomFromString(u, pieces.done[2])
  IN IF ~Bracketed(s, "(", ")") \/ ~pieces.ok \/ Len(pieces.done) # 2 THEN Nil
     ELSE IF Nil \in {a, b} THEN Nil
     ELSE Pair(a, b)
=============================================================================
