------------------------------ MODULE MCJourney ------------------------------
(* Values with everything in them that some form of theirs is careful of.    *)
EXTENDS Journey

TheLeftover == <<"?">>

Str(s) == Atom("string", s)
Texts == {<<>>, <<"a">>, <<DQ>>, <<BS>>, <<" ">>, <<",">>, <<"]">>, <<"[">>,
          <<BS, DQ>>, <<DQ, ",">>, <<"a", " ">>, <<"[", "]">>}

One == Atom("int", <<"1">>)
Atoms ==
  {Str(s) : s \in Texts} \cup
  {One, Atom("bool", <<"t">>), Atom("float", Short), Atom("float", Long), Atom("float", Tiny)}

Lists ==
  {List("int", <<>>), List("string", <<>>), List("int", <<One, One>>),
   List("float", <<Atom("float", Long)>>), List("float", <<Atom("float", Tiny)>>)}
  \cup {List("string", <<Str(s)>>) : s \in Texts \ {<<"a">>}}
  \cup {List("string", <<Str(s), Str(<<"a">>)>>) : s \in {<<>>, <<BS>>, <<DQ, ",">>, <<"]">>}}

Pairs ==
  {Pair(Str(s), One) : s \in {<<>>, <<DQ>>, <<BS>>, <<" ">>, <<",">>, <<DQ, ",">>}}
  \cup {Pair(One, Str(<<"a">>)), Pair(Nil, One), Pair(One, Nil), Pair(Nil, Nil),
        Pair(Atom("float", Tiny), One)}

Plain == Schema("string", "invalid", "invalid", "invalid")
C == <<"C">>
Full == [Plain EXCEPT !.locale = C, !.short = <<"a">>, !.long = <<"a">>, !.owner = <<"a">>]
Defaults ==
  {Str(<<DQ>>), Str(<<" ">>), List("string", <<Str(<<DQ, ",">>)>>), Pair(Str(<<BS, DQ>>), One),
   Pair(Nil, One), Pair(One, Nil), Atom("float", Long), List("int", <<>>)}

Schemas ==
  {Plain, [Plain EXCEPT !.short = <<"a">>], Full,
   [Full EXCEPT !.locale = Nil], [Full EXCEPT !.owner = Nil],
   [Full EXCEPT !.short = <<>>], [Full EXCEPT !.short = <<DQ>>], [Full EXCEPT !.short = Nil],
   [Full EXCEPT !.long = <<>>], [Full EXCEPT !.long = <<" ">>], [Full EXCEPT !.long = <<DQ, ",">>],
   [Full EXCEPT !.long = Nil], [Full EXCEPT !.owner = Nil, !.short = Nil],
   [Full EXCEPT !.owner = Nil, !.long = Nil], [Full EXCEPT !.owner = Nil, !.locale = Nil], [Full EXCEPT !.owner = <<>>],
   [Full EXCEPT !.ltype = "int"], [Full EXCEPT !.stype = "list"],
   [Full EXCEPT !.stype = "list", !.ltype = "int"], [Full EXCEPT !.stype = "list", !.ltype = "list"],
   [Full EXCEPT !.stype = "pair", !.cartype = "int", !.cdrtype = "string"],
   [Full EXCEPT !.stype = "pair", !.cartype = "int", !.cdrtype = "pair"]}
  \cup {[Full EXCEPT !.default = d] : d \in Defaults}

TheValues == Atoms \cup Lists \cup Pairs \cup Schemas
=============================================================================
