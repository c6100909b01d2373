------------------------------ MODULE Journey ------------------------------
(***************************************************************************)
(* One value on its way: a program sets it, gconfd keeps it, a backend       *)
(* writes it to a file and reads it again, and a program asks for it or is   *)
(* told of it.  Programs and gconfd run in the locale C.                    *)
(*                                                                         *)
(* A reload comes after a save; what reloading does to unsaved changes is    *)
(* the subject of Daemon.                                                  *)
(***************************************************************************)
EXTENDS Wire, MarkupForm, XmlForm

CONSTANTS Values, MaxSets, MaxTrips

VARIABLES backend,     \* "markup" or "xml"
          held,        \* the value the backend has in memory
          node, dirty, \* XML: the node of the entry; whether it is behind held
          file,        \* the last element or node saved
          neighbour,   \* markup: the other values of the file can be read
          heard,       \* what the cache of a listening client holds
          was, saved, trips, sets,  \* history: the value set; it was saved since;
                                    \* reloads since; values set so far
          answer       \* history: the value a program has just read, and how
vars == <<backend, held, node, dirty, file, neighbour, heard, was, saved, trips, sets, answer>>

NoAnswer == [way |-> "none", value |-> Nil]

Init ==
  /\ backend \in {"markup", "xml"}
  /\ node = NoNode /\ dirty = FALSE
  /\ held = Nil /\ file = Nil /\ heard = Nil /\ was = Nil
  /\ neighbour = TRUE /\ saved = FALSE
  /\ trips = 0 /\ sets = 0
  /\ answer = NoAnswer

-----------------------------------------------------------------------------
(* notify_from_server_callback: a value equal to the one in the cache is no  *)
(* change.                                                                 *)
Told(h, n) == IF h # Nil /\ Same(h, n) THEN h ELSE n

Changed(v) ==
  /\ sets < MaxSets
  /\ Valid(v)
  /\ heard' = Told(heard, Carried(Carried(v)))
  /\ was' = v /\ saved' = FALSE /\ trips' = 0 /\ sets' = sets + 1
  /\ answer' = NoAnswer
  /\ UNCHANGED <<backend, file, neighbour>>

MarkupSet(v) ==
  /\ backend = "markup"
  /\ Changed(v)
  /\ held' = Kept(Carried(v))
  /\ UNCHANGED <<node, dirty>>

IsSchema(v) == v # Nil /\ v.type = "schema"

(* entry_sync_if_needed                                                     *)
SyncedIfNeeded == IF dirty /\ IsSchema(held) THEN NodeSet(node, held) ELSE node

XmlSet(v) ==
  /\ backend = "xml"
  /\ Changed(v)
  /\ node' = SyncedIfNeeded
  /\ held' = Carried(v) /\ dirty' = TRUE

-----------------------------------------------------------------------------
MarkupSave ==
  /\ backend = "markup" /\ held # Nil /\ ~saved
  /\ file' = Element(held) /\ saved' = TRUE /\ answer' = NoAnswer
  /\ UNCHANGED <<backend, held, node, dirty, neighbour, heard, was, trips, sets>>

(* entry_sync_to_node                                                       *)
Synced == IF ~dirty THEN node ELSE IF held = Nil THEN NoNode ELSE NodeSet(node, held)

XmlSave ==
  /\ backend = "xml" /\ ~saved /\ sets > 0
  /\ node' = Synced /\ file' = Synced /\ dirty' = FALSE
  /\ saved' = TRUE /\ answer' = NoAnswer
  /\ UNCHANGED <<backend, held, neighbour, heard, was, trips, sets>>

(* A value that is rejected takes the others of its file with it.           *)
MarkupReload ==
  /\ backend = "markup" /\ saved /\ trips < MaxTrips
  /\ LET v == Parsed(file) IN
       /\ held' = IF v = Rejected THEN Nil ELSE v
       /\ neighbour' = (neighbour /\ v # Rejected)
  /\ saved' = FALSE /\ trips' = trips + 1 /\ answer' = NoAnswer
  /\ UNCHANGED <<backend, node, dirty, file, heard, was, sets>>

(* entry_fill_from_node; an entry just made is dirty.                       *)
XmlReload ==
  /\ backend = "xml" /\ saved /\ trips < MaxTrips
  /\ node' = file /\ held' = Extract(file) /\ dirty' = TRUE
  /\ saved' = FALSE /\ trips' = trips + 1 /\ answer' = NoAnswer
  /\ UNCHANGED <<backend, file, neighbour, heard, was, sets>>

-----------------------------------------------------------------------------
(* gconftool prints the value, and is given the text again with the types.  *)
Printed(v) ==
  LET text == ValueText(v)
      HalfType(h) == IF h = Nil THEN "string" ELSE h.type
  IN CASE IsAtom(v) -> AtomFromString(v.type, text)
       [] v.type = "list" -> ListFromString(v.of, text)
       [] v.type = "pair" -> PairFromString(HalfType(v.car), HalfType(v.cdr), text)

Answers(found) ==
  {[way |-> "lookup", value |-> Carried(found)],
   [way |-> "list",   value |-> Unstringified(Stringified(found))]}
  \cup (IF found = Nil \/ IsSchema(found) THEN {}
        ELSE {[way |-> "print", value |-> Printed(Carried(found))]})

MarkupAsk ==
  /\ backend = "markup" /\ sets > 0
  /\ answer' \in Answers(held)
  /\ UNCHANGED <<backend, held, node, dirty, file, neighbour, heard, was, saved, trips, sets>>

(* entry_get_value: a schema in another locale is looked for in the node,    *)
(* and replaces the one in memory.                                          *)
Elsewhere == IsSchema(held) /\ held.locale # <<"C">>

XmlAsk ==
  /\ backend = "xml" /\ sets > 0
  /\ IF Elsewhere
     THEN node' = SyncedIfNeeded /\ held' = Extract(SyncedIfNeeded) /\ dirty' = FALSE
     ELSE UNCHANGED <<node, held, dirty>>
  /\ answer' \in Answers(held')
  /\ UNCHANGED <<backend, file, neighbour, heard, was, saved, trips, sets>>

-----------------------------------------------------------------------------
Next ==
  \/ \E v \in Values : MarkupSet(v)
  \/ \E v \in Values : XmlSet(v)
  \/ MarkupSave
  \/ XmlSave
  \/ MarkupReload
  \/ XmlReload
  \/ MarkupAsk
  \/ XmlAsk

Spec == Init /\ [][Next]_vars

-----------------------------------------------------------------------------
(* Values that are known to come back as something else, and where.          *)
Lacks(v) == v.type = "pair" /\ Nil \in {v.car, v.cdr}
LacksFirst(v) == v.type = "pair" /\ v.car = Nil /\ v.cdr # Nil
DefaultOf(v) == IF v.type = "schema" THEN v.default ELSE Nil
InDefault(v, P(_)) == DefaultOf(v) # Nil /\ P(DefaultOf(v))
Rounds(v) == Long \in Doubles(v)

(* A D-Bus message: a pair of no first half is read past its end; a default  *)
(* value travels as text, which has six digits of a number.                 *)
ChangedOnTheWay(v) == LacksFirst(v) \/ InDefault(v, LacksFirst) \/ InDefault(v, Rounds)

(* A listing has every value as text.                                       *)
ChangedInListings(v) ==
  Rounds(v) \/ LacksFirst(v)
  \/ (v.type = "schema" /\ (v.owner # Nil \/ Nil \in {v.locale, v.short, v.long}))

Adjacent(text) == \E i \in 1..(Len(text) - 1) : text[i] = "[" /\ text[i + 1] = "]"

ChangedInPrint(v) ==
  Lacks(v) \/ Tiny \in Doubles(v)
  \/ (v.type = "list" /\ v.items # <<>> /\ Adjacent(ValueText(v)))

(* What the parser of the markup backend refuses though it was written.      *)
Poison(v) ==
  Tiny \in Doubles(v)
  \/ /\ v.type = "schema"
     /\ \/ v.stype = "list" /\ v.ltype \in Composite
        \/ v.stype = "pair" /\ {v.cartype, v.cdrtype} \cap Composite # {}

Blanks(v) == \E s \in Strings(v) : s # <<>> /\ Blank(s)
Irrelevant(v) ==
  \/ v.stype # "list" /\ v.ltype # "invalid"
  \/ v.stype # "pair" /\ {v.cartype, v.cdrtype} # {"invalid"}

ChangedByMarkup(v) ==
  (v.type = "schema" /\ v.locale = Nil)
  \/ (trips > 0 /\ (Poison(v) \/ Blanks(v)
                    \/ (v.type = "schema" /\ (Irrelevant(v) \/ (v.long # Nil /\ Blank(v.long))))))

ChangedByXml(v) ==
  (v.type = "schema" /\ v.locale = Nil /\ node.locals[<<"C">>].there)
  \/ (trips > 0 /\ (Lacks(v) \/ InDefault(v, Lacks) \/ Tiny \in Doubles(v)
                    \/ (v.type = "schema" /\ <<>> \in {v.short, v.owner})))

(* What a program reads, by a lookup, in a listing of the directory or by    *)
(* reading printed text, is the value that was set, before and after it has  *)
(* been through a file, for every value not of the kinds above.             *)
AnsweredAsSet ==
  answer # NoAnswer =>
    \/ answer.value = was
    \/ ChangedOnTheWay(was)
    \/ backend = "markup" /\ ChangedByMarkup(was)
    \/ backend = "xml" /\ ChangedByXml(was)
    \/ answer.way = "list" /\ ChangedInListings(was)
    \/ answer.way = "print" /\ ChangedInPrint(was)

(* Reading a file back costs a program the other values of the file only if  *)
(* one of the few values the parser refuses is in it.                       *)
NeighboursSurvive == [][neighbour' # neighbour => Poison(was)]_vars

(* What going through a file changes it changes the first time: however      *)
(* often gconfd is started again, the value is the one it read at first.     *)
SettlesAfterOneTrip == [][trips > 0 /\ trips' > trips => held' = held]_vars

(* A client that was told of a change has the value that was set, except for *)
(* what comparing values passes over: owner, default value and unused types  *)
(* of a schema and the type of a list without elements.                     *)
PassedOver(v, w) ==
  \/ v.type = "list" /\ w.type = "list" /\ v.items = <<>> /\ w.items = <<>>
  \/ /\ v.type = "schema" /\ w.type = "schema"
     /\ [v EXCEPT !.owner = w.owner, !.default = w.default, !.ltype = w.ltype,
                  !.cartype = w.cartype, !.cdrtype = w.cdrtype] = w

ToldOfChanges ==
  was # Nil => heard = was \/ ChangedOnTheWay(was) \/ PassedOver(heard, was)
=============================================================================
