--------------------------- MODULE StorageProofs ---------------------------
(***************************************************************************)
(* Proofs about the backends: MarkupLocales, for any schemas, locales, types *)
(* of values, changes and failures; and XmlDir, for any tree of directories, *)
(* any keys and entries, any files at the start and any number of changes    *)
(* and faults.                                                             *)
(***************************************************************************)
EXTENDS XmlDir, MarkupLocales, FiniteSetTheorems, WellFoundedInduction, TLAPS

-----------------------------------------------------------------------------
(* Localized descriptions.                                                   *)

\* Localized parts; the files of the locales; whether the file of l has k, and what memory and
\* that file make of it.
Locals == [Locale -> Info \cup {NoInfo}]
FilesShape ==
    /\ DOMAIN files = Other
    /\ \A l \in Other : DOMAIN files[l] \subseteq SchemaKey /\ \A k \in DOMAIN files[l] : files[l][k] \in Info
InFileOf(l, k) == k \in DOMAIN files[l]
Merged(es, k, l) == IF InFileOf(l, k) THEN Merge(es[k].locals[l], files[l][k]) ELSE es[k].locals[l]

\* An absent description is none.
LEMMA NoInfoIs == NoInfo \notin Info /\ NoInfo.short = None
<1>1. NoInfo.short = None
  BY DEF NoInfo
<1>2. ASSUME NoInfo \in Info PROVE FALSE
  <2>1. DOMAIN NoInfo = {"short", "long", "default"}
    BY <1>2 DEF Info
  <2>2. DOMAIN NoInfo = {"short"}
    BY DEF NoInfo
  <2> QED
    BY <2>1, <2>2
<1> QED
  BY <1>1, <1>2

\* What is no schema has no localized parts.
LEMMA EntryIs ==
    ASSUME NEW e \in MarkupEntry
    PROVE  /\ e.kind \in {"unset", "plain", "schema"} /\ e.locals \in Locals
           /\ e.kind = "unset" => e = Unset
           /\ e.kind = "plain" => e = Plain
           /\ IsSchema(e) => e \in [kind : {"schema"}, type : Type, locals : Locals]
           /\ ~IsSchema(e) => e.locals = NoLocals
<1>1. Unset.kind = "unset" /\ Unset.locals = NoLocals /\ Plain.kind = "plain" /\ Plain.locals = NoLocals
  BY DEF Unset, Plain
<1>2. NoLocals \in Locals
  BY DEF NoLocals, Locals
<1>3. CASE e \in {Unset, Plain}
  BY <1>1, <1>2, <1>3 DEF IsSchema
<1>4. CASE e \in [kind : {"schema"}, type : Type, locals : Locals]
  BY <1>4 DEF IsSchema
<1> QED
  BY <1>3, <1>4 DEF MarkupEntry, Locals

\* A schema is made of a type and localized parts.
LEMMA SchemaIs ==
    ASSUME NEW t \in Type, NEW ll \in Locals
    PROVE  [kind |-> "schema", type |-> t, locals |-> ll] \in MarkupEntry
BY DEF MarkupEntry, Locals

\* What is merged is a description.
LEMMA MergeIs ==
    ASSUME NEW here \in Info \cup {NoInfo}, NEW read \in Info
    PROVE  Merge(here, read) \in Info
<1>1. CASE here = NoInfo
  BY <1>1 DEF Merge
<1>2. CASE here # NoInfo
  BY <1>2 DEF Merge, Info, Text
<1> QED
  BY <1>1, <1>2

\* Reading files changes nothing but descriptions in their locales.
LEMMA EnsureIs ==
    ASSUME FilesShape, NEW es \in [SchemaKey -> MarkupEntry], NEW ls
    PROVE  /\ EnsureLoaded(es, ls) \in [SchemaKey -> MarkupEntry]
           /\ \A k \in SchemaKey :
                /\ EnsureLoaded(es, ls)[k].kind = es[k].kind
                /\ ~IsSchema(es[k]) => EnsureLoaded(es, ls)[k] = es[k]
                /\ IsSchema(es[k]) =>
                     /\ EnsureLoaded(es, ls)[k].type = es[k].type
                     /\ EnsureLoaded(es, ls)[k].locals["C"] = es[k].locals["C"]
                     /\ \A l \in Other : EnsureLoaded(es, ls)[k].locals[l] =
                           IF l \in ls /\ Loads(l) THEN Merged(es, k, l) ELSE es[k].locals[l]
<1> DEFINE ll(k) == [l \in Locale |-> IF l \in {x \in ls : Loads(x)} /\ k \in DOMAIN files[l]
                                      THEN Merge(es[k].locals[l], files[l][k]) ELSE es[k].locals[l]]
<1>1. ASSUME NEW k \in SchemaKey, ~IsSchema(es[k]) PROVE EnsureLoaded(es, ls)[k] = es[k]
  BY <1>1 DEF EnsureLoaded, Read
<1>2. ASSUME NEW k \in SchemaKey, IsSchema(es[k])
      PROVE  /\ EnsureLoaded(es, ls)[k] = [kind |-> "schema", type |-> es[k].type, locals |-> ll(k)]
             /\ es[k].type \in Type
             /\ ll(k) \in Locals
  <2>1. es[k] \in [kind : {"schema"}, type : Type, locals : Locals]
    BY <1>2, EntryIs
  <2>2. EnsureLoaded(es, ls)[k] = [es[k] EXCEPT !.locals = ll(k)]
    BY <1>2 DEF EnsureLoaded, Read
  <2>3. EnsureLoaded(es, ls)[k] = [kind |-> "schema", type |-> es[k].type, locals |-> ll(k)]
    <3> HIDE DEF ll
    <3> QED
      BY <2>1, <2>2
  <2>4. ASSUME NEW l \in Locale PROVE ll(k)[l] \in Info \cup {NoInfo}
    <3>1. es[k].locals[l] \in Info \cup {NoInfo}
      BY <2>1, <2>4 DEF Locals
    <3>2. CASE Loads(l) /\ l \in ls /\ k \in DOMAIN files[l]
      <4>1. files[l][k] \in Info
        BY <3>2 DEF FilesShape, Loads
      <4> QED
        BY <2>4, <3>1, <3>2, <4>1, MergeIs
    <3>3. CASE ~(Loads(l) /\ l \in ls /\ k \in DOMAIN files[l])
      BY <2>4, <3>1, <3>3
    <3> QED
      BY <3>2, <3>3
  <2>5. ll(k) \in Locals
    BY <2>4 DEF Locals
  <2> QED
    BY <2>1, <2>3, <2>5
<1>3. EnsureLoaded(es, ls) \in [SchemaKey -> MarkupEntry]
  <2>1. ASSUME NEW k \in SchemaKey PROVE EnsureLoaded(es, ls)[k] \in MarkupEntry
    <3>1. CASE IsSchema(es[k])
      <4> HIDE DEF ll
      <4> QED
        BY <1>2, <3>1, SchemaIs
    <3>2. CASE ~IsSchema(es[k])
      BY <1>1, <3>2
    <3> QED
      BY <3>1, <3>2
  <2>2. \E f : EnsureLoaded(es, ls) = [k \in SchemaKey |-> f[k]]
    <3>1. EnsureLoaded(es, ls) = [k \in SchemaKey |-> EnsureLoaded(es, ls)[k]]
      BY DEF EnsureLoaded, Read
    <3> QED
      BY <3>1
  <2> QED
    BY <2>1, <2>2
<1>4. ASSUME NEW k \in SchemaKey, IsSchema(es[k])
      PROVE  /\ EnsureLoaded(es, ls)[k].kind = es[k].kind
             /\ EnsureLoaded(es, ls)[k].type = es[k].type
             /\ EnsureLoaded(es, ls)[k].locals = ll(k)
  <2>1. EnsureLoaded(es, ls)[k] = [kind |-> "schema", type |-> es[k].type, locals |-> ll(k)]
    BY <1>2, <1>4
  <2>2. es[k].kind = "schema"
    BY <1>4 DEF IsSchema
  <2> HIDE DEF ll
  <2> QED
    BY <2>1, <2>2
<1>5. ASSUME NEW k \in SchemaKey, IsSchema(es[k])
      PROVE EnsureLoaded(es, ls)[k].locals["C"] = es[k].locals["C"]
  BY <1>4, <1>5, LocalesAssumption DEF Loads, Locale
<1>6. ASSUME NEW k \in SchemaKey, IsSchema(es[k]), NEW l \in Other
      PROVE EnsureLoaded(es, ls)[k].locals[l] =
                           IF l \in ls /\ Loads(l) THEN Merged(es, k, l) ELSE es[k].locals[l]
  BY <1>4, <1>6 DEF Merged, InFileOf, Locale
<1>7. ASSUME NEW k \in SchemaKey PROVE EnsureLoaded(es, ls)[k].kind = es[k].kind
  BY <1>1, <1>4
<1> QED
  BY <1>1, <1>3, <1>4, <1>5, <1>6, <1>7


-----------------------------------------------------------------------------
\* Equal but for other locales than C; without descriptions; of an entry, the parts for one locale are
\* those that were set, once its file is read if it is one of ld; and so for all, outside the gaps.
SameSchema(a, b) == a.kind = b.kind /\ (IsSchema(a) => a.type = b.type /\ a.locals["C"] = b.locals["C"])
Bare(i) == i = NoInfo \/ (i.short = None /\ i.long = None)
AsSet(es, tl, ld, k, l) ==
    IF IsSchema(es[k])
    THEN (IF l \in ld THEN Merged(es, k, l) ELSE es[k].locals[l]) = tl[k].locals[l]
    ELSE l \in ld => ~InFileOf(l, k)
AllAsSet(es, tl, gs, ld) ==
    /\ \A k \in SchemaKey : SameSchema(es[k], tl[k])
    /\ \A k \in SchemaKey, l \in ld : Bare(es[k].locals[l])
    /\ \A k \in SchemaKey, l \in Other : <<k, l>> \notin gs => AsSet(es, tl, ld, k, l)
Unread == {l \in Other : Loads(l)}
Filed == {l \in Other : files[l] # NoDescs}
Undefaulted == \A l \in Other, k \in SchemaKey : InFileOf(l, k) => files[l][k].default = None

\* What is in memory is as set but for the locales still to be read, and, with nothing to save, what
\* a new process would find is as set but for the locales that have a file.
LocalesInv ==
    /\ LocalesTypeOK /\ FilesShape /\ Undefaulted
    /\ AllAsSet(entry, asked, gaps, Unread)
    /\ ~dirty => AllAsSet(main, asked, gaps, Filed)

\* Reading the files of some locales: what was to be found there is now in memory.
LEMMA EnsureRight ==
    ASSUME FilesShape, NEW es \in [SchemaKey -> MarkupEntry], NEW tl, NEW gs, NEW ls,
           AllAsSet(es, tl, gs, Unread)
    PROVE  AllAsSet(EnsureLoaded(es, ls), tl, gs, Unread \ ls)
<1> DEFINE ne == EnsureLoaded(es, ls)
<1>1. ASSUME NEW k \in SchemaKey PROVE SameSchema(ne[k], tl[k])
  <2>1. SameSchema(es[k], tl[k])
    BY DEF AllAsSet
  <2>2. ne[k].kind = es[k].kind
    BY EnsureIs
  <2>3. CASE IsSchema(es[k])
    <3>1. ne[k].type = es[k].type /\ ne[k].locals["C"] = es[k].locals["C"]
      BY <2>3, EnsureIs
    <3> QED
      BY <2>1, <2>2, <2>3, <3>1 DEF SameSchema
  <2>4. CASE ~IsSchema(es[k])
    BY <2>1, <2>2, <2>4 DEF SameSchema, IsSchema
  <2> QED
    BY <2>3, <2>4
<1>2. ASSUME NEW k \in SchemaKey, NEW l \in Unread \ ls PROVE Bare(ne[k].locals[l])
  <2>1. Bare(es[k].locals[l]) /\ l \in Other /\ l \notin ls
    BY <1>2 DEF AllAsSet, Unread
  <2>2. ne[k].locals[l] = es[k].locals[l]
    BY <2>1, EnsureIs
  <2> QED
    BY <2>1, <2>2
<1>3. ASSUME NEW k \in SchemaKey, NEW l \in Other, <<k, l>> \notin gs
      PROVE  AsSet(ne, tl, Unread \ ls, k, l)
  <2>1. AsSet(es, tl, Unread, k, l)
    BY <1>3 DEF AllAsSet
  <2>2. IsSchema(ne[k]) <=> IsSchema(es[k])
    BY EnsureIs DEF IsSchema
  <2>3. CASE IsSchema(es[k])
    <3>1. ne[k].locals[l] = IF l \in ls /\ Loads(l) THEN Merged(es, k, l) ELSE es[k].locals[l]
      BY <2>3, EnsureIs
    <3>2. l \in Unread <=> Loads(l)
      BY DEF Unread
    <3> QED
      BY <2>1, <2>2, <2>3, <3>1, <3>2 DEF AsSet, Merged
  <2>4. CASE ~IsSchema(es[k])
    BY <2>1, <2>2, <2>4 DEF AsSet
  <2> QED
    BY <2>3, <2>4
<1> QED
  BY <1>1, <1>2, <1>3 DEF AllAsSet

\* One entry changes, here and in what was set, and is as set.
LEMMA ChangeRight ==
    ASSUME NEW es \in [SchemaKey -> MarkupEntry], NEW tl \in [SchemaKey -> MarkupEntry], NEW gs, NEW hs, NEW ld,
           AllAsSet(es, tl, gs, ld), NEW k \in SchemaKey, NEW e \in MarkupEntry, NEW f \in MarkupEntry,
           \A j \in SchemaKey, l \in Other : j # k /\ <<j, l>> \in gs => <<j, l>> \in hs,
           SameSchema(e, f),
           \A l \in ld : Bare(e.locals[l]),
           \A l \in Other : <<k, l>> \notin hs =>
                AsSet([es EXCEPT ![k] = e], [tl EXCEPT ![k] = f], ld, k, l)
    PROVE  AllAsSet([es EXCEPT ![k] = e], [tl EXCEPT ![k] = f], hs, ld)
<1> DEFINE ne == [es EXCEPT ![k] = e]
           nt == [tl EXCEPT ![k] = f]
<1>1. ne[k] = e /\ nt[k] = f /\ \A j \in SchemaKey \ {k} : ne[j] = es[j] /\ nt[j] = tl[j]
  OBVIOUS
<1> HIDE DEF ne, nt
<1>2. \A j \in SchemaKey : SameSchema(ne[j], nt[j])
  BY <1>1 DEF AllAsSet
<1>3. \A j \in SchemaKey, l \in ld : Bare(ne[j].locals[l])
  BY <1>1 DEF AllAsSet
<1>4. ASSUME NEW j \in SchemaKey, NEW l \in Other, <<j, l>> \notin hs PROVE AsSet(ne, nt, ld, j, l)
  <2>1. CASE j = k
    BY <1>4, <2>1 DEF ne, nt
  <2>2. CASE j # k
    <3>1. AsSet(es, tl, ld, j, l)
      BY <1>4, <2>2 DEF AllAsSet
    <3> QED
      BY <1>1, <2>2, <3>1 DEF AsSet, Merged
  <2> QED
    BY <2>1, <2>2
<1>5. AllAsSet(ne, nt, hs, ld)
  BY <1>2, <1>3, <1>4 DEF AllAsSet
<1> QED
  BY <1>5 DEF ne, nt

\* The flags of the locales that are read.
LEMMA MarkLoadedIs ==
    ASSUME LocalesTypeOK, NEW ls, MarkLoaded(ls)
    PROVE  /\ available' \in [Other -> {"no", "unread", "read"}] /\ allLoaded' \in BOOLEAN
           /\ allLoaded' => \A l \in Other : available'[l] # "unread"
           /\ Unread' = Unread \ ls
<1>1. available \in [Other -> {"no", "unread", "read"}] /\ allLoaded \in BOOLEAN
      /\ (allLoaded => \A l \in Other : available[l] # "unread")
  BY DEF LocalesTypeOK
<1>2. available' = [l \in Other |-> IF l \in ls /\ Loads(l) THEN "read" ELSE available[l]]
  BY DEF MarkLoaded
<1>3. allLoaded' = (allLoaded \/ ((\E l \in ls : Loads(l)) /\ \A l \in Other : available'[l] # "unread"))
  BY DEF MarkLoaded
<1>4. allLoaded' \in BOOLEAN /\ (allLoaded' => \A l \in Other : available'[l] # "unread")
  BY <1>1, <1>2, <1>3
<1>5. available' \in [Other -> {"no", "unread", "read"}]
  BY <1>1, <1>2
<1>6. ASSUME NEW l \in Other PROVE Loads(l)' <=> Loads(l) /\ l \notin ls
  BY <1>1, <1>2, <1>3 DEF Loads
<1>7. Unread' = Unread \ ls
  BY <1>6 DEF Unread
<1> QED
  BY <1>4, <1>5, <1>7

-----------------------------------------------------------------------------
\* The shapes of the variables, one by one.
LEMMA Shapes ==
    ASSUME LocalesTypeOK
    PROVE  /\ entry \in [SchemaKey -> MarkupEntry] /\ main \in [SchemaKey -> MarkupEntry] /\ asked \in [SchemaKey -> MarkupEntry]
           /\ dirty \in BOOLEAN /\ sets \in 0..MaxSets /\ failures \in 0..MaxFailures
           /\ gaps \subseteq SchemaKey \X Other
BY DEF LocalesTypeOK

\* A request: memory and what was told change.
LEMMA RequestKeeps ==
    ASSUME LocalesInv, Setting,
           entry' \in [SchemaKey -> MarkupEntry], asked' \in [SchemaKey -> MarkupEntry], gaps' \subseteq SchemaKey \X Other,
           available' \in [Other -> {"no", "unread", "read"}], allLoaded' \in BOOLEAN,
           allLoaded' => \A l \in Other : available'[l] # "unread",
           AllAsSet(entry', asked', gaps', Unread')
    PROVE  LocalesInv'
<1>1. LocalesTypeOK /\ FilesShape /\ Undefaulted
  BY DEF LocalesInv
<1>2. dirty' = TRUE /\ main' = main /\ files' = files /\ failures' = failures
      /\ sets < MaxSets /\ sets' = sets + 1
  BY DEF Setting, treeFiles
<1>3. main' \in [SchemaKey -> MarkupEntry] /\ failures' \in 0..MaxFailures /\ dirty' \in BOOLEAN
  BY <1>1, <1>2, Shapes
<1>4. sets' \in 0..MaxSets
  BY <1>1, <1>2, Shapes, LocalesAssumption
<1>5. FilesShape' /\ Undefaulted'
  BY <1>1, <1>2 DEF FilesShape, Undefaulted, InFileOf
<1>6. LocalesTypeOK'
  BY <1>3, <1>4, <1>5 DEF LocalesTypeOK, FilesShape
<1>7. AllAsSet(entry, asked, gaps, Unread)'
  BY <1>2 DEF AllAsSet, AsSet, Merged, InFileOf
<1> QED
  BY <1>2, <1>5, <1>6, <1>7 DEF LocalesInv

\* A schema with new parts for one locale has the others as they were.
LEMMA SchemaIsOf ==
    ASSUME NEW e \in MarkupEntry, NEW t \in Type, NEW l \in Locale, NEW info \in Info
    PROVE  /\ Schema(e, t, l, info) \in MarkupEntry /\ IsSchema(Schema(e, t, l, info))
           /\ Schema(e, t, l, info).kind = "schema" /\ Schema(e, t, l, info).type = t
           /\ Schema(e, t, l, info).locals[l] = info
           /\ \A m \in Locale \ {l} : Schema(e, t, l, info).locals[m] = e.locals[m]
<1> DEFINE ll == [e.locals EXCEPT ![l] = info]
<1>1. e.locals \in Locals
  BY EntryIs
<1>2. ll \in Locals /\ ll[l] = info /\ \A m \in Locale \ {l} : ll[m] = e.locals[m]
  BY <1>1 DEF Locals
<1>3. Schema(e, t, l, info) = [kind |-> "schema", type |-> t, locals |-> ll]
  BY DEF Schema
<1> HIDE DEF ll
<1> QED
  BY <1>2, <1>3, SchemaIs DEF IsSchema

\* A schema that is set is as set; one that was none before has nothing in any other locale.
LEMMA SetSchemaKeeps ==
    ASSUME LocalesInv, NEW k \in SchemaKey, NEW l \in Locale, SetSchema(k, l)
    PROVE  LocalesInv'
<1>1. PICK t \in Type : \E info \in [short : Text, long : Text, default : {t, None}] :
          /\ entry' = [EnsureLoaded(entry, {l}) EXCEPT ![k] = Schema(@, t, l, info)]
          /\ asked' = [asked EXCEPT ![k] = Schema(@, t, l, info)]
  BY DEF SetSchema
<1>2. PICK info \in [short : Text, long : Text, default : {t, None}] :
          /\ entry' = [EnsureLoaded(entry, {l}) EXCEPT ![k] = Schema(@, t, l, info)]
          /\ asked' = [asked EXCEPT ![k] = Schema(@, t, l, info)]
  BY <1>1
<1>3. info \in Info
  BY DEF Info
<1> DEFINE es == EnsureLoaded(entry, {l})
           e == Schema(es[k], t, l, info)
           f == Schema(asked[k], t, l, info)
<1>4. LocalesTypeOK /\ FilesShape /\ entry \in [SchemaKey -> MarkupEntry] /\ asked \in [SchemaKey -> MarkupEntry] /\ gaps \subseteq SchemaKey \X Other
  BY Shapes DEF LocalesInv
<1>5. Setting /\ MarkLoaded({l}) /\ gaps' = gaps \ {<<k, l>>}
  BY DEF SetSchema
<1>6. es \in [SchemaKey -> MarkupEntry]
  BY <1>4, EnsureIs
<1>7. AllAsSet(es, asked, gaps, Unread \ {l})
  BY <1>4, EnsureRight DEF LocalesInv
<1>8. entry' = [es EXCEPT ![k] = e] /\ asked' = [asked EXCEPT ![k] = f]
  BY <1>2, <1>4, <1>6
<1> HIDE DEF es
<1>9. e \in MarkupEntry /\ IsSchema(e) /\ e.kind = "schema" /\ e.type = t /\ e.locals[l] = info
      /\ \A m \in Locale \ {l} : e.locals[m] = es[k].locals[m]
  BY <1>3, <1>6, SchemaIsOf
<1>10. f \in MarkupEntry /\ IsSchema(f) /\ f.kind = "schema" /\ f.type = t /\ f.locals[l] = info
      /\ \A m \in Locale \ {l} : f.locals[m] = asked[k].locals[m]
  BY <1>3, <1>4, SchemaIsOf
<1> HIDE DEF e, f
<1>11. "C" \in Locale /\ "C" \notin Other /\ Other \subseteq Locale
  BY LocalesAssumption DEF Locale
<1>12. SameSchema(es[k], asked[k])
  BY <1>7 DEF AllAsSet
\* A key that was no schema had nothing in any locale.
<1>13. ASSUME ~IsSchema(es[k]) PROVE es[k].locals = NoLocals /\ asked[k].locals = NoLocals
  BY <1>4, <1>6, <1>12, <1>13, EntryIs DEF SameSchema, IsSchema
<1>14. SameSchema(e, f)
  <2>1. l # "C" => es[k].locals["C"] = asked[k].locals["C"]
    BY <1>12, <1>13 DEF SameSchema
  <2>2. e.locals["C"] = f.locals["C"]
    BY <1>9, <1>10, <1>11, <2>1
  <2> QED
    BY <1>9, <1>10, <2>2 DEF SameSchema
<1>15. ASSUME NEW m \in Unread \ {l} PROVE Bare(e.locals[m])
  BY <1>7, <1>9, <1>11, <1>15 DEF AllAsSet, Unread
<1>16. ASSUME NEW m \in Other, <<k, m>> \notin gaps'
       PROVE  AsSet(entry', asked', Unread \ {l}, k, m)
  <2>1. entry'[k] = e /\ asked'[k] = f
    BY <1>4, <1>6, <1>8
  <2>2. CASE m = l
    BY <1>9, <1>10, <2>1, <2>2 DEF AsSet
  <2>3. CASE m # l
    <3>1. AsSet(es, asked, Unread \ {l}, k, m)
      BY <1>5, <1>7, <1>16, <2>3 DEF AllAsSet
    <3>2. e.locals[m] = es[k].locals[m] /\ f.locals[m] = asked[k].locals[m]
      BY <1>9, <1>10, <1>11, <2>3
    <3>3. CASE IsSchema(es[k])
      BY <1>9, <2>1, <3>1, <3>2, <3>3 DEF AsSet, Merged
    <3>4. CASE ~IsSchema(es[k])
      <4>1. es[k].locals[m] = NoInfo /\ asked[k].locals[m] = NoInfo
        BY <1>11, <1>13, <3>4 DEF NoLocals
      <4>2. m \in Unread \ {l} => ~InFileOf(m, k)
        BY <3>1, <3>4 DEF AsSet
      <4> QED
        BY <1>9, <2>1, <3>2, <4>1, <4>2 DEF AsSet, Merged
    <3> QED
      BY <3>3, <3>4
  <2> QED
    BY <2>2, <2>3
<1>17. AllAsSet(entry', asked', gaps', Unread \ {l})
  <2>1. \A j \in SchemaKey, m \in Other : j # k /\ <<j, m>> \in gaps => <<j, m>> \in gaps'
    BY <1>5
  <2> QED
    BY <1>4, <1>6, <1>7, <1>8, <1>9, <1>10, <1>14, <1>15, <1>16, <2>1, ChangeRight
<1>18. entry' \in [SchemaKey -> MarkupEntry] /\ asked' \in [SchemaKey -> MarkupEntry] /\ gaps' \subseteq SchemaKey \X Other
  BY <1>4, <1>5, <1>6, <1>8, <1>9, <1>10
<1> QED
  BY <1>4, <1>5, <1>17, <1>18, MarkLoadedIs, RequestKeeps

\* Entries without localized parts.
LEMMA BlankIs ==
    /\ Unset \in MarkupEntry /\ ~IsSchema(Unset) /\ Plain \in MarkupEntry /\ ~IsSchema(Plain)
    /\ SameSchema(Unset, Unset) /\ SameSchema(Plain, Plain)
    /\ \A l \in Locale : Bare(Unset.locals[l]) /\ Bare(Plain.locals[l])
<1>1. Unset.kind = "unset" /\ Plain.kind = "plain" /\ Unset.locals = NoLocals /\ Plain.locals = NoLocals
  BY DEF Unset, Plain
<1>2. \A l \in Locale : NoLocals[l] = NoInfo
  BY DEF NoLocals
<1> QED
  BY <1>1, <1>2 DEF MarkupEntry, IsSchema, SameSchema, Bare

\* Where a file not yet read has descriptions of the old schema, there is a gap.
LEMMA SetPlainKeeps ==
    ASSUME LocalesInv, NEW k \in SchemaKey, SetPlain(k)
    PROVE  LocalesInv'
<1>1. LocalesTypeOK /\ FilesShape /\ entry \in [SchemaKey -> MarkupEntry] /\ asked \in [SchemaKey -> MarkupEntry] /\ gaps \subseteq SchemaKey \X Other
  BY Shapes DEF LocalesInv
<1>2. Setting /\ available' = available /\ allLoaded' = allLoaded
      /\ entry' = [entry EXCEPT ![k] = Plain] /\ asked' = [asked EXCEPT ![k] = Plain]
      /\ gaps' = gaps \cup {<<k, l>> : l \in {x \in Other : Loads(x) /\ k \in DOMAIN files[x]}}
  BY DEF SetPlain
<1>3. Unread' = Unread
  BY <1>2 DEF Unread, Loads
<1>4. ASSUME NEW l \in Unread PROVE Bare(Plain.locals[l])
  BY <1>4, BlankIs DEF Unread, Locale
<1>5. ASSUME NEW l \in Other, <<k, l>> \notin gaps' PROVE AsSet(entry', asked', Unread, k, l)
  <2>1. entry'[k] = Plain
    BY <1>1, <1>2
  <2>2. ~(Loads(l) /\ InFileOf(l, k))
    BY <1>2, <1>5 DEF InFileOf
  <2> QED
    BY <2>1, <2>2, BlankIs DEF AsSet, Unread
<1>6. AllAsSet(entry, asked, gaps, Unread)
  BY DEF LocalesInv
<1>7. AllAsSet(entry', asked', gaps', Unread)
  <2>1. \A j \in SchemaKey, m \in Other : j # k /\ <<j, m>> \in gaps => <<j, m>> \in gaps'
    BY <1>2
  <2> QED
    BY <1>1, <1>2, <1>4, <1>5, <1>6, <2>1, BlankIs, ChangeRight
<1>8. entry' \in [SchemaKey -> MarkupEntry] /\ asked' \in [SchemaKey -> MarkupEntry] /\ gaps' \subseteq SchemaKey \X Other
  BY <1>1, <1>2, BlankIs
<1>9. available' \in [Other -> {"no", "unread", "read"}] /\ allLoaded' \in BOOLEAN
      /\ (allLoaded' => \A l \in Other : available'[l] # "unread")
  BY <1>1, <1>2 DEF LocalesTypeOK
<1> QED
  BY <1>2, <1>3, <1>7, <1>8, <1>9, RequestKeeps

\* To unset a schema reads all files first, so nothing of it comes back.
LEMMA UnsetAllKeeps ==
    ASSUME LocalesInv, NEW k \in SchemaKey, UnsetAll(k)
    PROVE  LocalesInv'
<1>1. LocalesTypeOK /\ FilesShape /\ entry \in [SchemaKey -> MarkupEntry] /\ asked \in [SchemaKey -> MarkupEntry] /\ gaps \subseteq SchemaKey \X Other
  BY Shapes DEF LocalesInv
<1>2. Setting /\ gaps' = gaps /\ asked' = [asked EXCEPT ![k] = Unset]
  BY DEF UnsetAll
<1>3. AllAsSet(entry, asked, gaps, Unread)
  BY DEF LocalesInv
<1>4. asked' \in [SchemaKey -> MarkupEntry]
  BY <1>1, <1>2, BlankIs
<1>5. CASE IsSchema(entry[k])
  <2> DEFINE es == EnsureLoaded(entry, Other)
             ds == [entry EXCEPT ![k] = Unset]
  <2>1. entry' = EnsureLoaded(ds, Other) /\ MarkLoaded(Other)
    BY <1>5 DEF UnsetAll
  <2>2. Unread' = {}
    BY <1>1, <2>1, MarkLoadedIs DEF Unread
  <2>3. es \in [SchemaKey -> MarkupEntry] /\ AllAsSet(es, asked, gaps, {})
    <3>1. AllAsSet(es, asked, gaps, Unread \ Other)
      BY <1>1, <1>3, EnsureRight
    <3>2. Unread \ Other = {}
      BY DEF Unread
    <3> QED
      BY <1>1, <3>1, <3>2, EnsureIs
  <2>4. ds \in [SchemaKey -> MarkupEntry] /\ ds[k] = Unset /\ \A j \in SchemaKey \ {k} : ds[j] = entry[j]
    BY <1>1, BlankIs
  <2>5. entry' \in [SchemaKey -> MarkupEntry] /\ entry'[k] = Unset
    <3> HIDE DEF ds
    <3>1. EnsureLoaded(ds, Other) \in [SchemaKey -> MarkupEntry]
      BY <1>1, <2>4, EnsureIs
    <3>2. ~IsSchema(ds[k]) => EnsureLoaded(ds, Other)[k] = ds[k]
      BY <1>1, <2>4, EnsureIs
    <3>3. ~IsSchema(ds[k])
      BY <2>4, BlankIs
    <3> QED
      BY <2>1, <2>4, <3>1, <3>2, <3>3
  <2>6. ASSUME NEW j \in SchemaKey \ {k} PROVE entry'[j] = es[j]
    BY <1>1, <2>1, <2>4, <2>6 DEF EnsureLoaded, Read
  <2>7. entry' = [es EXCEPT ![k] = Unset]
    <3> HIDE DEF es
    <3> QED
      BY <2>3, <2>5, <2>6
  <2> HIDE DEF es, ds
  <2>8. AllAsSet(entry', asked', gaps', {})
    <3>1. \A l \in Other : AsSet(entry', asked', {}, k, l)
      BY <2>5, BlankIs DEF AsSet
    <3>2. \A j \in SchemaKey, m \in Other : j # k /\ <<j, m>> \in gaps => <<j, m>> \in gaps'
      BY <1>2
    <3>3. \A l \in {} : Bare(Unset.locals[l])
      OBVIOUS
    <3> QED
      BY <1>1, <1>2, <2>3, <2>7, <3>1, <3>2, <3>3, BlankIs, ChangeRight
  <2> QED
    BY <1>1, <1>2, <1>4, <2>1, <2>2, <2>5, <2>8, MarkLoadedIs, RequestKeeps
<1>6. CASE ~IsSchema(entry[k])
  <2>1. entry' = [entry EXCEPT ![k] = Unset] /\ available' = available /\ allLoaded' = allLoaded
    BY <1>6 DEF UnsetAll
  <2>2. Unread' = Unread
    BY <2>1 DEF Unread, Loads
  <2>3. \A l \in Unread : Bare(Unset.locals[l])
    BY BlankIs DEF Unread, Locale
  <2>4. ASSUME NEW l \in Other, <<k, l>> \notin gaps' PROVE AsSet(entry', asked', Unread, k, l)
    <3>1. AsSet(entry, asked, Unread, k, l)
      BY <1>2, <1>3, <2>4 DEF AllAsSet
    <3>2. entry'[k] = Unset
      BY <1>1, <2>1
    <3> QED
      BY <1>6, <3>1, <3>2, BlankIs DEF AsSet
  <2>5. AllAsSet(entry', asked', gaps', Unread)
    <3>1. \A j \in SchemaKey, m \in Other : j # k /\ <<j, m>> \in gaps => <<j, m>> \in gaps'
      BY <1>2
    <3> QED
      BY <1>1, <1>2, <1>3, <2>1, <2>3, <2>4, <3>1, BlankIs, ChangeRight
  <2>6. entry' \in [SchemaKey -> MarkupEntry]
    BY <1>1, <2>1, BlankIs
  <2>7. available' \in [Other -> {"no", "unread", "read"}] /\ allLoaded' \in BOOLEAN
        /\ (allLoaded' => \A l \in Other : available'[l] # "unread")
    BY <1>1, <2>1 DEF LocalesTypeOK
  <2>8. gaps' \subseteq SchemaKey \X Other
    BY <1>1, <1>2
  <2> QED
    BY <1>2, <1>4, <2>2, <2>5, <2>6, <2>7, <2>8, RequestKeeps
<1> QED
  BY <1>5, <1>6

\* A schema that loses the parts for one locale has the others as they were.
LEMMA DropIs ==
    ASSUME NEW e \in MarkupEntry, IsSchema(e), NEW l \in Locale
    PROVE  LET d == [e EXCEPT !.locals[l] = NoInfo]
           IN /\ d \in MarkupEntry /\ IsSchema(d) /\ d.kind = e.kind /\ d.type = e.type
              /\ d.locals[l] = NoInfo /\ \A m \in Locale \ {l} : d.locals[m] = e.locals[m]
<1> DEFINE ll == [e.locals EXCEPT ![l] = NoInfo]
           d == [e EXCEPT !.locals[l] = NoInfo]
<1>1. e \in [kind : {"schema"}, type : Type, locals : Locals] /\ e.locals \in Locals
  BY EntryIs
<1>2. ll \in Locals /\ ll[l] = NoInfo /\ \A m \in Locale \ {l} : ll[m] = e.locals[m]
  BY <1>1 DEF Locals
<1>3. d = [kind |-> "schema", type |-> e.type, locals |-> ll]
  BY <1>1
<1>4. d.kind = "schema" /\ d.type = e.type /\ d.locals = ll /\ e.kind = "schema" /\ e.type \in Type
  <2> HIDE DEF ll
  <2> QED
    BY <1>1, <1>3
<1>5. d \in MarkupEntry
  <2> HIDE DEF ll
  <2> QED
    BY <1>2, <1>3, <1>4, SchemaIs
<1> HIDE DEF ll, d
<1>6. /\ d \in MarkupEntry /\ IsSchema(d) /\ d.kind = e.kind /\ d.type = e.type
      /\ d.locals[l] = NoInfo /\ \A m \in Locale \ {l} : d.locals[m] = e.locals[m]
  BY <1>2, <1>4, <1>5 DEF IsSchema
<1> QED
  BY <1>6 DEF d

\* To unset one locale reads its file first.
LEMMA UnsetLocaleKeeps ==
    ASSUME LocalesInv, NEW k \in SchemaKey, NEW l \in Locale, UnsetLocale(k, l)
    PROVE  LocalesInv'
<1> DEFINE es == EnsureLoaded(entry, {l})
           e == [es[k] EXCEPT !.locals[l] = NoInfo]
           f == [asked[k] EXCEPT !.locals[l] = NoInfo]
<1>1. LocalesTypeOK /\ FilesShape /\ entry \in [SchemaKey -> MarkupEntry] /\ asked \in [SchemaKey -> MarkupEntry] /\ gaps \subseteq SchemaKey \X Other
  BY Shapes DEF LocalesInv
<1>2. Setting /\ MarkLoaded({l}) /\ gaps' = gaps \ {<<k, l>>} /\ IsSchema(entry[k])
  BY DEF UnsetLocale
<1>3. es \in [SchemaKey -> MarkupEntry] /\ IsSchema(es[k])
  BY <1>1, <1>2, EnsureIs DEF IsSchema
<1>4. AllAsSet(es, asked, gaps, Unread \ {l})
  BY <1>1, EnsureRight DEF LocalesInv
<1>5. entry' = [es EXCEPT ![k].locals[l] = NoInfo] /\ asked' = [asked EXCEPT ![k].locals[l] = NoInfo]
  BY DEF UnsetLocale
<1> HIDE DEF es
<1>6. entry' = [es EXCEPT ![k] = e] /\ asked' = [asked EXCEPT ![k] = f]
  BY <1>1, <1>3, <1>5
<1>7. SameSchema(es[k], asked[k])
  BY <1>4 DEF AllAsSet
<1>8. IsSchema(asked[k])
  BY <1>3, <1>7 DEF SameSchema, IsSchema
<1>9. /\ e \in MarkupEntry /\ IsSchema(e) /\ e.kind = es[k].kind /\ e.type = es[k].type
      /\ e.locals[l] = NoInfo /\ \A m \in Locale \ {l} : e.locals[m] = es[k].locals[m]
  BY <1>3, DropIs
<1>10. /\ f \in MarkupEntry /\ IsSchema(f) /\ f.kind = asked[k].kind /\ f.type = asked[k].type
       /\ f.locals[l] = NoInfo /\ \A m \in Locale \ {l} : f.locals[m] = asked[k].locals[m]
  BY <1>1, <1>8, DropIs
<1> HIDE DEF e, f
<1>11. "C" \in Locale /\ "C" \notin Other /\ Other \subseteq Locale
  BY LocalesAssumption DEF Locale
<1>12. SameSchema(e, f)
  BY <1>3, <1>7, <1>9, <1>10, <1>11 DEF SameSchema
<1>13. ASSUME NEW m \in Unread \ {l} PROVE Bare(e.locals[m])
  BY <1>4, <1>9, <1>11, <1>13 DEF AllAsSet, Unread
<1>14. ASSUME NEW m \in Other, <<k, m>> \notin gaps'
       PROVE  AsSet(entry', asked', Unread \ {l}, k, m)
  <2>1. entry'[k] = e /\ asked'[k] = f
    BY <1>1, <1>3, <1>6
  <2>2. CASE m = l
    BY <1>9, <1>10, <2>1, <2>2 DEF AsSet
  <2>3. CASE m # l
    <3>1. AsSet(es, asked, Unread \ {l}, k, m)
      BY <1>2, <1>4, <1>14, <2>3 DEF AllAsSet
    <3>2. e.locals[m] = es[k].locals[m] /\ f.locals[m] = asked[k].locals[m]
      BY <1>9, <1>10, <1>11, <2>3
    <3> QED
      BY <1>3, <1>9, <2>1, <3>1, <3>2 DEF AsSet, Merged
  <2> QED
    BY <2>2, <2>3
<1>15. AllAsSet(entry', asked', gaps', Unread \ {l})
  <2>1. \A j \in SchemaKey, m \in Other : j # k /\ <<j, m>> \in gaps => <<j, m>> \in gaps'
    BY <1>2
  <2> QED
    BY <1>1, <1>3, <1>4, <1>6, <1>9, <1>10, <1>12, <1>13, <1>14, <2>1, ChangeRight
<1>16. entry' \in [SchemaKey -> MarkupEntry] /\ asked' \in [SchemaKey -> MarkupEntry] /\ gaps' \subseteq SchemaKey \X Other
  BY <1>1, <1>2, <1>3, <1>6, <1>9, <1>10
<1> QED
  BY <1>1, <1>2, <1>15, <1>16, MarkLoadedIs, RequestKeeps

\* To read a file changes nothing that is answered.
LEMMA GetValueKeeps ==
    ASSUME LocalesInv, NEW k \in SchemaKey, NEW l \in Other, GetValue(k, l)
    PROVE  LocalesInv'
<1>1. LocalesTypeOK /\ FilesShape /\ entry \in [SchemaKey -> MarkupEntry]
  BY Shapes DEF LocalesInv
<1>2. entry' = EnsureLoaded(entry, {l}) /\ MarkLoaded({l})
      /\ main' = main /\ files' = files /\ dirty' = dirty /\ sets' = sets
      /\ failures' = failures /\ asked' = asked /\ gaps' = gaps
  BY DEF GetValue, treeFiles
<1>3. entry' \in [SchemaKey -> MarkupEntry]
  BY <1>1, <1>2, EnsureIs
<1>4. AllAsSet(entry', asked, gaps, Unread \ {l})
  BY <1>1, <1>2, EnsureRight DEF LocalesInv
<1>5. Unread' = Unread \ {l} /\ available' \in [Other -> {"no", "unread", "read"}]
      /\ allLoaded' \in BOOLEAN /\ (allLoaded' => \A m \in Other : available'[m] # "unread")
  BY <1>1, <1>2, MarkLoadedIs
<1>6. LocalesTypeOK'
  BY <1>1, <1>2, <1>3, <1>5 DEF LocalesTypeOK
<1>7. FilesShape' /\ Undefaulted' /\ Filed' = Filed
  BY <1>2 DEF LocalesInv, FilesShape, Undefaulted, InFileOf, Filed
<1>8. AllAsSet(entry, asked, gaps, Unread)'
  BY <1>2, <1>4, <1>5 DEF AllAsSet, AsSet, Merged, InFileOf
<1>9. (~dirty => AllAsSet(main, asked, gaps, Filed))'
  BY <1>2, <1>7 DEF LocalesInv, AllAsSet, AsSet, Merged, InFileOf
<1> QED
  BY <1>6, <1>7, <1>8, <1>9 DEF LocalesInv

\* A new process finds in the files what it should.
LEMMA ReadAgainKeeps ==
    ASSUME LocalesInv, ReadAgain
    PROVE  LocalesInv'
<1>1. LocalesTypeOK /\ FilesShape /\ main \in [SchemaKey -> MarkupEntry] /\ dirty \in BOOLEAN
  BY Shapes DEF LocalesInv
<1>2. /\ ~dirty /\ entry' = main
      /\ available' = [l \in Other |-> IF files[l] = NoDescs THEN "no" ELSE "unread"]
      /\ allLoaded' = \A l \in Other : files[l] = NoDescs
      /\ main' = main /\ files' = files /\ dirty' = dirty /\ sets' = sets
      /\ failures' = failures /\ asked' = asked /\ gaps' = gaps
  BY DEF ReadAgain, treeFiles
<1>3. AllAsSet(main, asked, gaps, Filed)
  BY <1>2 DEF LocalesInv
<1>4. Unread' = Filed
  BY <1>2 DEF Unread, Filed, Loads
<1>5. available' \in [Other -> {"no", "unread", "read"}]
      /\ allLoaded' \in BOOLEAN /\ (allLoaded' => \A m \in Other : available'[m] # "unread")
  BY <1>2
<1>6. LocalesTypeOK'
  BY <1>1, <1>2, <1>5 DEF LocalesTypeOK
<1>7. FilesShape' /\ Undefaulted' /\ Filed' = Filed
  BY <1>2 DEF LocalesInv, FilesShape, Undefaulted, InFileOf, Filed
<1>8. AllAsSet(entry, asked, gaps, Unread)'
  BY <1>2, <1>3, <1>4 DEF AllAsSet, AsSet, Merged, InFileOf
<1>9. (~dirty => AllAsSet(main, asked, gaps, Filed))'
  BY <1>2, <1>3, <1>7 DEF AllAsSet, AsSet, Merged, InFileOf
<1> QED
  BY <1>6, <1>7, <1>8, <1>9 DEF LocalesInv

\* With no files all is as set.
LEMMA LocalesInvInit ==
    ASSUME LocalesInit
    PROVE  LocalesInv
<1>1. /\ entry = [k \in SchemaKey |-> Unset] /\ main = entry /\ asked = entry
      /\ files = [l \in Other |-> NoDescs]
      /\ available = [l \in Other |-> "no"] /\ allLoaded = TRUE
      /\ dirty = FALSE /\ sets = 0 /\ failures = 0 /\ gaps = {}
  BY DEF LocalesInit
<1>2. entry \in [SchemaKey -> MarkupEntry]
  BY <1>1, BlankIs
<1>3. \A l \in Other : files[l] = NoDescs /\ DOMAIN files[l] = {}
  BY <1>1 DEF NoDescs
<1>4. FilesShape /\ Undefaulted
  BY <1>1, <1>3 DEF FilesShape, Undefaulted, InFileOf
<1>5. LocalesTypeOK
  <2>1. 0 \in 0..MaxSets /\ 0 \in 0..MaxFailures
    BY LocalesAssumption
  <2>2. available \in [Other -> {"no", "unread", "read"}]
        /\ (allLoaded => \A l \in Other : available[l] # "unread")
    BY <1>1
  <2> QED
    BY <1>1, <1>2, <1>3, <2>1, <2>2 DEF LocalesTypeOK
<1>6. Unread = {} /\ Filed = {}
  BY <1>1, <1>3 DEF Unread, Filed, Loads
<1>7. AllAsSet(entry, asked, gaps, {})
  <2>1. \A k \in SchemaKey : entry[k] = Unset /\ asked[k] = Unset
    BY <1>1
  <2>2. \A k \in SchemaKey : SameSchema(entry[k], asked[k])
    BY <2>1, BlankIs
  <2>3. \A k \in SchemaKey, l \in Other : AsSet(entry, asked, {}, k, l)
    BY <2>1, BlankIs DEF AsSet
  <2> QED
    BY <2>2, <2>3 DEF AllAsSet
<1> QED
  BY <1>1, <1>4, <1>5, <1>6, <1>7 DEF LocalesInv

\* Two descriptions that have a locale and C in common are answered alike.
LEMMA PickSame ==
    ASSUME NEW a, NEW b, NEW l, IsSchema(a), SameSchema(a, b), a.locals[l] = b.locals[l]
    PROVE  Pick(a, <<l>>) = Pick(b, <<l>>)
<1> DEFINE found(e) == {i \in DOMAIN <<l>> : e.locals[<<l>>[i]] # NoInfo}
<1>1. found(a) = found(b) /\ found(a) \subseteq {1}
  <2>1. \A i \in DOMAIN <<l>> : <<l>>[i] = l /\ i = 1
    OBVIOUS
  <2> QED
    BY <2>1
<1>2. a.locals["C"] = b.locals["C"] /\ a.type = b.type /\ IsSchema(b)
  BY DEF SameSchema, IsSchema
<1>3. ASSUME found(a) # {} PROVE Min(found(a)) = 1
  <2>1. found(a) = {1}
    BY <1>1, <1>3
  <2>2. Min({1}) = 1
    BY DEF Min
  <2> QED
    BY <2>1, <2>2
<1>4. <<l>>[1] = l
  OBVIOUS
<1>5. /\ Pick(a, <<l>>) = LET best == IF found(a) = {} THEN NoInfo ELSE a.locals[<<l>>[Min(found(a))]]
                             c == a.locals["C"]
                             Part(f) == IF best # NoInfo /\ best[f] # None THEN best[f]
                                        ELSE IF c # NoInfo THEN c[f] ELSE None
                         IN [type |-> a.type,
                             locale |-> IF found(a) = {} THEN "C" ELSE <<l>>[Min(found(a))],
                             default |-> Part("default"), short |-> Part("short"), long |-> Part("long")]
      /\ Pick(b, <<l>>) = LET best == IF found(b) = {} THEN NoInfo ELSE b.locals[<<l>>[Min(found(b))]]
                             c == b.locals["C"]
                             Part(f) == IF best # NoInfo /\ best[f] # None THEN best[f]
                                        ELSE IF c # NoInfo THEN c[f] ELSE None
                         IN [type |-> b.type,
                             locale |-> IF found(b) = {} THEN "C" ELSE <<l>>[Min(found(b))],
                             default |-> Part("default"), short |-> Part("short"), long |-> Part("long")]
  BY <1>2 DEF Pick
<1> HIDE DEF found
<1>6. CASE found(a) = {}
  BY <1>1, <1>2, <1>5, <1>6
<1>7. CASE found(a) # {}
  BY <1>1, <1>2, <1>3, <1>4, <1>5, <1>7
<1> QED
  BY <1>6, <1>7

-----------------------------------------------------------------------------
\* What cleaning drops.
Dropped(e, l) == e.locals[l] # NoInfo /\ e.locals[l].default \notin {e.type, None}

\* Cleaning drops parts with a default value of another type.
LEMMA CleanIs ==
    ASSUME NEW e \in MarkupEntry
    PROVE  /\ CleanOld(e) \in MarkupEntry /\ CleanOld(e).kind = e.kind
           /\ ~IsSchema(e) => CleanOld(e) = e
           /\ IsSchema(e) =>
                /\ CleanOld(e).type = e.type
                /\ \A l \in Locale : CleanOld(e).locals[l] = IF Dropped(e, l) THEN NoInfo ELSE e.locals[l]
<1>1. CASE ~IsSchema(e)
  BY <1>1 DEF CleanOld
<1>2. CASE IsSchema(e)
  <2> DEFINE ll == [l \in Locale |-> IF Dropped(e, l) THEN NoInfo ELSE e.locals[l]]
  <2>1. e \in [kind : {"schema"}, type : Type, locals : Locals] /\ e.kind = "schema"
    BY <1>2, EntryIs DEF IsSchema
  <2>2. ll \in Locals
    BY <2>1 DEF Locals
  <2>3. CleanOld(e) = [e EXCEPT !.locals = ll]
    BY <1>2 DEF CleanOld, Dropped
  <2>4. \A l \in Locale : ll[l] = IF Dropped(e, l) THEN NoInfo ELSE e.locals[l]
    OBVIOUS
  <2> HIDE DEF ll
  <2>5. CleanOld(e) = [kind |-> "schema", type |-> e.type, locals |-> ll]
    BY <2>1, <2>3
  <2> QED
    BY <1>2, <2>1, <2>2, <2>4, <2>5, SchemaIs
<1> QED
  BY <1>1, <1>2

\* What the main file has for a locale.
MainPart(e, l) ==
    IF l = "C" \/ e.locals[l] = NoInfo THEN e.locals[l]
    ELSE IF e.locals[l].default = None THEN NoInfo
    ELSE [e.locals[l] EXCEPT !.short = None, !.long = None]

\* What the main file has of a locale are the default values.
LEMMA InMainIs ==
    ASSUME NEW e \in MarkupEntry
    PROVE  /\ InMain(e) \in MarkupEntry /\ InMain(e).kind = e.kind
           /\ ~IsSchema(e) => InMain(e) = e
           /\ IsSchema(e) =>
                /\ InMain(e).type = e.type
                /\ \A l \in Locale : InMain(e).locals[l] = MainPart(e, l)
<1>1. CASE ~IsSchema(e)
  BY <1>1 DEF InMain
<1>2. CASE IsSchema(e)
  <2> DEFINE ll == [l \in Locale |-> MainPart(e, l)]
  <2>1. e \in [kind : {"schema"}, type : Type, locals : Locals] /\ e.kind = "schema"
    BY <1>2, EntryIs DEF IsSchema
  <2>2. ASSUME NEW l \in Locale PROVE MainPart(e, l) \in Info \cup {NoInfo}
    <3>1. e.locals[l] \in Info \cup {NoInfo}
      BY <2>1, <2>2 DEF Locals
    <3> QED
      BY <3>1 DEF MainPart, Info, Text
  <2>3. ll \in Locals
    BY <2>2 DEF Locals
  <2>4. InMain(e) = [e EXCEPT !.locals = ll]
    BY <1>2 DEF InMain, MainPart
  <2>5. \A l \in Locale : ll[l] = MainPart(e, l)
    OBVIOUS
  <2> HIDE DEF ll
  <2>6. InMain(e) = [kind |-> "schema", type |-> e.type, locals |-> ll]
    BY <2>1, <2>4
  <2> QED
    BY <1>2, <2>1, <2>3, <2>5, <2>6, SchemaIs
<1> QED
  BY <1>1, <1>2

\* What was written whole is read again as it was.
LEMMA WholeIsRead ==
    ASSUME NEW i \in Info, ~LosesLong(i)
    PROVE  LET here == IF i.default = None THEN NoInfo ELSE [i EXCEPT !.short = None, !.long = None]
               read == [i EXCEPT !.default = None]
           IN Merge(here, read) = i
<1>1. CASE i.default = None
  BY <1>1 DEF Merge, Info
<1>2. CASE i.default # None
  <2>1. i.long = None
    BY <1>2, NoInfoIs DEF LosesLong
  <2>2. [i EXCEPT !.short = None, !.long = None] \in Info
    BY DEF Info, Text
  <2>3. [i EXCEPT !.short = None, !.long = None] # NoInfo
    BY <2>2, NoInfoIs
  <2> QED
    BY <1>2, <2>1, <2>3 DEF Merge, Info
<1> QED
  BY <1>1, <1>2

\* Parts without descriptions are in the main file as they are.
LEMMA MainPartSame ==
    ASSUME NEW e \in MarkupEntry, NEW l \in Locale, l # "C", Bare(e.locals[l]), ~LosesMark(e.locals[l])
    PROVE  MainPart(e, l) = e.locals[l]
<1>1. e.locals[l] \in Info \cup {NoInfo}
  BY EntryIs DEF Locals
<1>2. CASE e.locals[l] = NoInfo
  BY <1>2 DEF MainPart
<1>3. CASE e.locals[l] # NoInfo
  BY <1>1, <1>3 DEF MainPart, Bare, LosesMark, Info
<1> QED
  BY <1>2, <1>3

\* The main file has no descriptions but those of C.
LEMMA MainPartBare ==
    ASSUME NEW e \in MarkupEntry, NEW l \in Locale, l # "C"
    PROVE  Bare(MainPart(e, l))
<1>1. e.locals[l] \in Info \cup {NoInfo}
  BY EntryIs DEF Locals
<1> QED
  BY <1>1 DEF MainPart, Bare, Info

\* A save, in memory and on disk: a locale that is still to be read keeps its file, and of the
\* others each schema can be read again from its two files, outside the gaps.
LEMMA SaveAllKeeps ==
    ASSUME LocalesInv, Save
    PROVE  LocalesInv'
<1> DEFINE es == [k \in SchemaKey |-> CleanOld(entry[k])]
           ls == WithFile(es)
           lost == {kl \in SchemaKey \X Other :
                         LET i == es[kl[1]].locals[kl[2]]
                         IN \/ LosesLong(i)
                            \/ LosesText(i, kl[2], ls) \/ (LosesMark(i) /\ kl[2] \notin ls)
                            \/ ComesBack(kl[1], kl[2], ls)}
<1>1. PICK failed \in SUBSET ls :
          /\ failures + Cardinality(failed) <= MaxFailures
          /\ failures' = failures + Cardinality(failed)
          /\ files' = [l \in Other |-> IF l \in ls \ failed THEN InFile(es, l) ELSE files[l]]
          /\ gaps' = gaps \cup (SchemaKey \X failed) \cup lost
  BY DEF Save
<1>2. /\ dirty' = FALSE /\ entry' = es /\ asked' = [k \in SchemaKey |-> CleanOld(asked[k])]
      /\ main' = [k \in SchemaKey |-> InMain(es[k])]
      /\ available' = available /\ allLoaded' = allLoaded /\ sets' = sets
  BY DEF Save
<1> HIDE DEF lost
<1>3. LocalesTypeOK /\ FilesShape /\ Undefaulted /\ AllAsSet(entry, asked, gaps, Unread)
      /\ entry \in [SchemaKey -> MarkupEntry] /\ asked \in [SchemaKey -> MarkupEntry] /\ gaps \subseteq SchemaKey \X Other
  BY Shapes DEF LocalesInv
<1>4. es \in [SchemaKey -> MarkupEntry] /\ \A k \in SchemaKey : es[k] = CleanOld(entry[k])
  BY <1>3, CleanIs
<1>5. asked' \in [SchemaKey -> MarkupEntry] /\ \A k \in SchemaKey : asked'[k] = CleanOld(asked[k])
  BY <1>2, <1>3, CleanIs
<1>6. main' \in [SchemaKey -> MarkupEntry] /\ \A k \in SchemaKey : main'[k] = InMain(es[k])
  BY <1>2, <1>4, InMainIs
<1>7. "C" \in Locale /\ "C" \notin Other /\ Other \subseteq Locale
  BY LocalesAssumption DEF Locale
<1>8. ls \subseteq Other
  BY DEF WithFile
<1> HIDE DEF es
<1>9. Unread' = Unread
  BY <1>2 DEF Unread, Loads
\* A locale that is still to be read has no descriptions that are new.
<1>10. ASSUME NEW l \in Unread PROVE l \notin ls /\ files'[l] = files[l] /\ \A k \in SchemaKey : Bare(es[k].locals[l])
  <2>1. l \in Other
    BY <1>10 DEF Unread
  <2>2. ASSUME NEW k \in SchemaKey PROVE Bare(es[k].locals[l])
    <3>1. Bare(entry[k].locals[l])
      BY <1>3, <1>10, <2>2 DEF AllAsSet
    <3>2. es[k].locals[l] \in {NoInfo, entry[k].locals[l]}
      BY <1>3, <1>4, <1>7, <2>1, CleanIs
    <3> QED
      BY <3>1, <3>2 DEF Bare
  <2>3. l \notin ls
    BY <2>2, NoInfoIs DEF WithFile, Complete, Bare
  <2> QED
    BY <1>1, <2>1, <2>2, <2>3
<1>11. ASSUME NEW k \in SchemaKey PROVE SameSchema(es[k], asked'[k]) /\ (IsSchema(es[k]) <=> IsSchema(entry[k]))
  <2>1. SameSchema(entry[k], asked[k]) /\ entry[k] \in MarkupEntry /\ asked[k] \in MarkupEntry
    BY <1>3 DEF AllAsSet
  <2>2. es[k] = CleanOld(entry[k]) /\ asked'[k] = CleanOld(asked[k])
    BY <1>4, <1>5
  <2>3. es[k].kind = entry[k].kind /\ asked'[k].kind = asked[k].kind
    BY <2>1, <2>2, CleanIs
  <2>4. ASSUME IsSchema(entry[k])
        PROVE  es[k].type = asked'[k].type /\ es[k].locals["C"] = asked'[k].locals["C"]
    <3>1. entry[k].type = asked[k].type /\ entry[k].locals["C"] = asked[k].locals["C"] /\ IsSchema(asked[k])
      BY <2>1, <2>4 DEF SameSchema, IsSchema
    <3>2. Dropped(entry[k], "C") <=> Dropped(asked[k], "C")
      BY <3>1 DEF Dropped
    <3> QED
      BY <1>7, <2>1, <2>2, <2>4, <3>1, <3>2, CleanIs
  <2> QED
    BY <2>1, <2>3, <2>4 DEF SameSchema, IsSchema
\* Where all is in memory, cleaning leaves it as it should be.
<1>12. ASSUME NEW k \in SchemaKey, NEW l \in Other, IsSchema(es[k]),
              entry[k].locals[l] = asked[k].locals[l]
       PROVE  es[k].locals[l] = asked'[k].locals[l]
  <2>1. SameSchema(entry[k], asked[k]) /\ IsSchema(entry[k]) /\ entry[k] \in MarkupEntry /\ asked[k] \in MarkupEntry
    BY <1>3, <1>11, <1>12 DEF AllAsSet
  <2>2. entry[k].type = asked[k].type /\ IsSchema(asked[k])
    BY <2>1 DEF SameSchema, IsSchema
  <2>3. Dropped(entry[k], l) <=> Dropped(asked[k], l)
    BY <1>12, <2>2 DEF Dropped
  <2> QED
    BY <1>4, <1>5, <1>7, <1>12, <2>1, <2>2, <2>3, CleanIs
\* Where a file is still to be read, too.
<1>13. ASSUME NEW k \in SchemaKey, NEW l \in Unread, <<k, l>> \notin gaps', IsSchema(es[k]), InFileOf(l, k)
       PROVE  /\ es[k].locals[l] = entry[k].locals[l]
              /\ Merge(es[k].locals[l], files[l][k]) = asked'[k].locals[l]
  <2>1. l \in Other /\ Loads(l) /\ l \notin ls /\ <<k, l>> \notin gaps
    BY <1>1, <1>10, <1>13 DEF Unread
  <2>2. ~ComesBack(k, l, ls)
    BY <1>1, <1>13, <2>1 DEF lost
  <2>3. es[k].locals[l] = entry[k].locals[l]
    BY <1>4, <1>13, <2>1, <2>2 DEF ComesBack, InFileOf
  <2>4. AsSet(entry, asked, Unread, k, l) /\ SameSchema(entry[k], asked[k])
    BY <1>3, <2>1 DEF AllAsSet
  <2>5. Merge(entry[k].locals[l], files[l][k]) = asked[k].locals[l]
    BY <1>11, <1>13, <2>4 DEF AsSet, Merged
  <2>6. entry[k] \in MarkupEntry /\ asked[k] \in MarkupEntry /\ IsSchema(entry[k])
    BY <1>3, <1>11, <1>13
  <2>7. IsSchema(asked[k]) /\ asked[k].type = entry[k].type
    BY <2>4, <2>6 DEF SameSchema, IsSchema
  <2>8. ~Dropped(asked[k], l)
    <3>1. files[l][k].default = None
      BY <1>3, <1>13, <2>1 DEF Undefaulted
    <3>2. CASE entry[k].locals[l] = NoInfo
      BY <2>5, <3>1, <3>2 DEF Dropped, Merge
    <3>3. CASE entry[k].locals[l] # NoInfo
      <4>1. entry[k].locals[l] \in Info
        BY <1>7, <2>1, <2>6, <3>3, EntryIs DEF Locals
      <4>2. asked[k].locals[l].default = entry[k].locals[l].default
        BY <2>5, <3>3, <4>1 DEF Merge, Info
      <4>3. ~Dropped(entry[k], l)
        <5>1. es[k].locals[l] = IF Dropped(entry[k], l) THEN NoInfo ELSE entry[k].locals[l]
          BY <1>4, <1>7, <2>1, <2>6, CleanIs
        <5> QED
          BY <2>3, <3>3, <5>1
      <4> QED
        BY <2>7, <3>3, <4>2, <4>3 DEF Dropped
    <3> QED
      BY <3>2, <3>3
  <2>9. asked'[k].locals[l] = asked[k].locals[l]
    BY <1>5, <1>7, <2>1, <2>6, <2>7, <2>8, CleanIs
  <2> QED
    BY <2>3, <2>5, <2>9
<1>14. AllAsSet(es, asked', gaps', Unread)
  <2>1. ASSUME NEW k \in SchemaKey, NEW l \in Other, <<k, l>> \notin gaps'
        PROVE  AsSet(es, asked', Unread, k, l)
    <3>1. AsSet(entry, asked, Unread, k, l)
      BY <1>1, <1>3, <2>1 DEF AllAsSet
    <3>2. CASE ~IsSchema(es[k])
      BY <1>11, <3>1, <3>2 DEF AsSet
    <3>3. CASE IsSchema(es[k]) /\ l \in Unread /\ InFileOf(l, k)
      BY <1>13, <2>1, <3>3 DEF AsSet, Merged
    <3>4. CASE IsSchema(es[k]) /\ ~(l \in Unread /\ InFileOf(l, k))
      <4>1. entry[k].locals[l] = asked[k].locals[l]
        BY <1>11, <3>1, <3>4 DEF AsSet, Merged
      <4> QED
        BY <1>12, <3>4, <4>1 DEF AsSet, Merged
    <3> QED
      BY <3>2, <3>3, <3>4
  <2> QED
    BY <1>10, <1>11, <2>1 DEF AllAsSet
<1>15. AllAsSet(entry, asked, gaps, Unread)'
  <2>1. ASSUME NEW k \in SchemaKey, NEW l \in Other, <<k, l>> \notin gaps'
        PROVE  AsSet(entry, asked, Unread, k, l)'
    <3>1. AsSet(es, asked', Unread, k, l)
      BY <1>14, <2>1 DEF AllAsSet
    <3>2. l \in Unread => files'[l] = files[l]
      BY <1>10
    <3> QED
      BY <1>2, <1>9, <3>1, <3>2 DEF AsSet, Merged, InFileOf
  <2> QED
    BY <1>2, <1>9, <1>10, <1>11, <2>1 DEF AllAsSet
<1>16. ASSUME NEW k \in SchemaKey, NEW l \in ls \ failed
       PROVE  /\ InFileOf(l, k)' <=> es[k].locals[l] # NoInfo
              /\ InFileOf(l, k)' => files'[l][k] = [es[k].locals[l] EXCEPT !.default = None]
  <2>1. files'[l] = InFile(es, l)
    BY <1>1, <1>8, <1>16
  <2> QED
    BY <2>1, <1>16 DEF InFile, InFileOf
<1>17. ASSUME NEW l \in Other, l \notin ls \ failed PROVE files'[l] = files[l]
  BY <1>1, <1>17
<1>18. ASSUME NEW k \in SchemaKey, NEW l \in Other, InFileOf(l, k)' PROVE l \in Filed'
  <2>1. DOMAIN NoDescs = {}
    BY DEF NoDescs
  <2> QED
    BY <1>18, <2>1 DEF Filed, InFileOf
<1>19. ASSUME NEW k \in SchemaKey, NEW l \in Other, <<k, l>> \notin gaps'
       PROVE  /\ l \notin failed /\ <<k, l>> \notin gaps
              /\ ~LosesLong(es[k].locals[l])
              /\ l \notin ls => /\ ~LosesText(es[k].locals[l], l, ls) /\ ~LosesMark(es[k].locals[l])
                                /\ ~ComesBack(k, l, ls)
  <2>1. <<k, l>> \notin lost /\ <<k, l>> \notin gaps /\ <<k, l>> \notin SchemaKey \X failed
    BY <1>1, <1>19
  <2> QED
    BY <2>1 DEF lost
<1>20. ASSUME NEW k \in SchemaKey, NEW l \in Other, <<k, l>> \notin gaps', ~IsSchema(es[k])
       PROVE  ~InFileOf(l, k)'
  <2>1. CASE l \in ls \ failed
    <3>1. es[k].locals = NoLocals
      BY <1>4, <1>20, EntryIs
    <3>2. es[k].locals[l] = NoInfo
      BY <1>7, <3>1 DEF NoLocals
    <3> QED
      BY <1>16, <2>1, <3>2
  <2>2. CASE l \notin ls \ failed
    <3>1. InFileOf(l, k)' <=> InFileOf(l, k)
      BY <1>17, <2>2 DEF InFileOf
    <3>2. l \notin ls /\ ~ComesBack(k, l, ls) /\ <<k, l>> \notin gaps
      BY <1>19, <1>20, <2>2
    <3>3. CASE Loads(l)
      <4>1. AsSet(entry, asked, Unread, k, l) /\ l \in Unread
        BY <1>3, <3>2, <3>3 DEF AllAsSet, Unread
      <4> QED
        BY <1>11, <1>20, <3>1, <4>1 DEF AsSet
    <3>4. CASE ~Loads(l)
      BY <3>1, <3>2, <3>4 DEF ComesBack, InFileOf
    <3> QED
      BY <3>3, <3>4
  <2> QED
    BY <2>1, <2>2
<1>21. ASSUME NEW k \in SchemaKey, NEW l \in Other, <<k, l>> \notin gaps', IsSchema(es[k]), l \in ls \ failed
       PROVE  Merged(main, k, l)' = asked'[k].locals[l]
  <2>1. l \notin Unread /\ <<k, l>> \notin gaps /\ ~LosesLong(es[k].locals[l])
    BY <1>10, <1>19, <1>21
  <2>2. AsSet(entry, asked, Unread, k, l)
    BY <1>3, <2>1 DEF AllAsSet
  <2>3. es[k].locals[l] = asked'[k].locals[l]
    BY <1>11, <1>12, <1>21, <2>1, <2>2 DEF AsSet
  <2>4. main'[k].locals[l] = MainPart(es[k], l) /\ l # "C"
    BY <1>4, <1>6, <1>7, <1>21, InMainIs
  <2>5. CASE es[k].locals[l] = NoInfo
    BY <1>16, <1>21, <2>3, <2>4, <2>5 DEF Merged, MainPart
  <2>6. CASE es[k].locals[l] # NoInfo
    <3>1. es[k].locals[l] \in Info
      BY <1>4, <1>7, <2>6, EntryIs DEF Locals
    <3>2. InFileOf(l, k)' /\ files'[l][k] = [es[k].locals[l] EXCEPT !.default = None]
      BY <1>16, <1>21, <2>6
    <3>3. Merge(MainPart(es[k], l), [es[k].locals[l] EXCEPT !.default = None]) = es[k].locals[l]
      BY <2>1, <2>4, <2>6, <3>1, WholeIsRead DEF MainPart
    <3>4. Merged(main, k, l)' = Merge(main'[k].locals[l], files'[l][k])
      BY <3>2 DEF Merged
    <3> QED
      BY <2>3, <2>4, <3>2, <3>3, <3>4
  <2> QED
    BY <2>5, <2>6
<1>22. ASSUME NEW k \in SchemaKey, NEW l \in Other, <<k, l>> \notin gaps', IsSchema(es[k]), l \notin ls \ failed
       PROVE  Merged(main, k, l)' = asked'[k].locals[l]
  <2>1. l \notin ls /\ ~ComesBack(k, l, ls) /\ <<k, l>> \notin gaps
        /\ ~LosesText(es[k].locals[l], l, ls) /\ ~LosesMark(es[k].locals[l])
    BY <1>19, <1>22
  <2>2. AsSet(entry, asked, Unread, k, l)
    BY <1>3, <2>1 DEF AllAsSet
  <2>3. main'[k].locals[l] = MainPart(es[k], l) /\ l # "C"
    BY <1>4, <1>6, <1>7, <1>22, InMainIs
  <2>4. files'[l] = files[l]
    BY <1>17, <1>22
  <2>5. Bare(es[k].locals[l])
    <3>1. CASE l \in Unread
      BY <1>10, <3>1
    <3>2. CASE l \notin Unread
      BY <2>1 DEF LosesText, Bare
    <3> QED
      BY <3>1, <3>2
  <2>6. MainPart(es[k], l) = es[k].locals[l]
    BY <1>4, <1>7, <2>1, <2>3, <2>5, MainPartSame
  <2>7. CASE l \in Unread /\ InFileOf(l, k)
    <3>1. Merge(es[k].locals[l], files[l][k]) = asked'[k].locals[l]
      BY <1>13, <1>22, <2>7
    <3> QED
      BY <2>3, <2>4, <2>6, <2>7, <3>1 DEF Merged, InFileOf
  <2>8. CASE ~(l \in Unread /\ InFileOf(l, k))
    <3>1. ~InFileOf(l, k)
      BY <2>1, <2>8 DEF ComesBack, InFileOf, Unread
    <3>2. es[k].locals[l] = asked'[k].locals[l]
      BY <1>11, <1>12, <1>22, <2>2, <2>8, <3>1 DEF AsSet, Merged
    <3> QED
      BY <2>3, <2>4, <2>6, <3>1, <3>2 DEF Merged, InFileOf
  <2> QED
    BY <2>7, <2>8
<1>23. AllAsSet(main, asked, gaps, Filed)'
  <2>1. ASSUME NEW k \in SchemaKey
        PROVE SameSchema(main'[k], asked'[k]) /\ (IsSchema(main'[k]) <=> IsSchema(es[k]))
    <3>1. main'[k].kind = es[k].kind
      BY <1>4, <1>6, InMainIs
    <3>2. ASSUME IsSchema(es[k]) PROVE main'[k].type = es[k].type /\ main'[k].locals["C"] = es[k].locals["C"]
      BY <1>4, <1>6, <1>7, <3>2, InMainIs DEF MainPart
    <3> QED
      BY <1>11, <3>1, <3>2 DEF SameSchema, IsSchema
  <2>2. ASSUME NEW k \in SchemaKey, NEW l \in Filed' PROVE Bare(main'[k].locals[l])
    <3>1. l \in Other /\ l \in Locale /\ l # "C"
      BY <1>7, <2>2 DEF Filed
    <3>2. CASE IsSchema(es[k])
      BY <1>4, <1>6, <3>1, <3>2, InMainIs, MainPartBare
    <3>3. CASE ~IsSchema(es[k])
      <4>1. main'[k].locals = NoLocals
        BY <1>6, <2>1, <3>3, EntryIs
      <4> QED
        BY <3>1, <4>1 DEF NoLocals, Bare
    <3> QED
      BY <3>2, <3>3
  <2>3. ASSUME NEW k \in SchemaKey, NEW l \in Other, <<k, l>> \notin gaps'
        PROVE  AsSet(main, asked, Filed, k, l)'
    <3>1. CASE ~IsSchema(es[k])
      BY <1>20, <2>1, <2>3, <3>1 DEF AsSet
    <3>2. CASE IsSchema(es[k])
      <4>1. Merged(main, k, l)' = asked'[k].locals[l]
        BY <1>21, <1>22, <2>3, <3>2
      <4>2. l \notin Filed' => Merged(main, k, l)' = main'[k].locals[l]
        BY <1>18 DEF Merged
      <4> QED
        BY <2>1, <3>2, <4>1, <4>2 DEF AsSet
    <3> QED
      BY <3>1, <3>2
  <2> QED
    BY <2>1, <2>2, <2>3 DEF AllAsSet
<1>24. FilesShape' /\ Undefaulted'
  <2>1. DOMAIN files' = Other
    BY <1>1
  <2>2. ASSUME NEW l \in Other
        PROVE  /\ DOMAIN files'[l] \subseteq SchemaKey
               /\ \A k \in DOMAIN files'[l] : files'[l][k] \in Info /\ files'[l][k].default = None
    <3>1. CASE l \in ls \ failed
      <4>1. files'[l] = InFile(es, l)
        BY <1>1, <3>1
      <4>2. ASSUME NEW k \in DOMAIN files'[l]
            PROVE  k \in SchemaKey /\ files'[l][k] \in Info /\ files'[l][k].default = None
        <5>1. k \in SchemaKey /\ es[k].locals[l] # NoInfo /\ files'[l][k] = [es[k].locals[l] EXCEPT !.default = None]
          BY <4>1, <4>2 DEF InFile
        <5>2. es[k].locals[l] \in Info
          BY <1>4, <1>7, <5>1, EntryIs DEF Locals
        <5> QED
          BY <5>1, <5>2 DEF Info
      <4> QED
        BY <4>2
    <3>2. CASE l \notin ls \ failed
      BY <1>3, <1>17, <3>2 DEF FilesShape, Undefaulted, InFileOf
    <3> QED
      BY <3>1, <3>2
  <2> QED
    BY <2>1, <2>2 DEF FilesShape, Undefaulted, InFileOf
<1>25. failures' \in 0..MaxFailures
  <2>1. IsFiniteSet(failed)
    BY <1>1, <1>8, FS_Subset, LocalesAssumption
  <2>2. Cardinality(failed) \in Nat
    BY <2>1, FS_CardinalityType
  <2>3. failures \in 0..MaxFailures /\ MaxFailures \in Nat
    BY <1>3, Shapes, LocalesAssumption
  <2> QED
    BY <1>1, <2>2, <2>3
<1>26. gaps' \subseteq SchemaKey \X Other
  <2>1. lost \subseteq SchemaKey \X Other
    BY DEF lost
  <2> QED
    BY <1>1, <1>3, <1>8, <2>1
<1>27. LocalesTypeOK'
  <2>1. available \in [Other -> {"no", "unread", "read"}] /\ allLoaded \in BOOLEAN
        /\ (allLoaded => \A l \in Other : available[l] # "unread") /\ sets \in 0..MaxSets
    BY <1>3 DEF LocalesTypeOK
  <2> QED
    BY <1>2, <1>4, <1>5, <1>6, <1>24, <1>25, <1>26, <2>1 DEF LocalesTypeOK, FilesShape
<1> QED
  BY <1>15, <1>23, <1>24, <1>27 DEF LocalesInv

\* Every step keeps the invariant.
LEMMA LocalesInvNext ==
    ASSUME LocalesInv, [LocalesNext]_localesVars
    PROVE  LocalesInv'
<1>1. CASE LocalesNext
  BY <1>1, SetSchemaKeeps, SetPlainKeeps, UnsetAllKeeps, UnsetLocaleKeeps, GetValueKeeps, SaveAllKeeps,
     ReadAgainKeeps DEF LocalesNext
<1>2. CASE UNCHANGED localesVars
  <2>1. entry' = entry /\ available' = available /\ allLoaded' = allLoaded /\ main' = main
        /\ files' = files /\ dirty' = dirty /\ sets' = sets /\ failures' = failures
        /\ asked' = asked /\ gaps' = gaps
    BY <1>2 DEF localesVars, treeMemory, treeFiles
  <2>2. LocalesTypeOK' /\ FilesShape' /\ Undefaulted' /\ Unread' = Unread /\ Filed' = Filed
    BY <2>1 DEF LocalesInv, LocalesTypeOK, FilesShape, Undefaulted, InFileOf, Unread, Filed, Loads
  <2>3. AllAsSet(entry, asked, gaps, Unread)' /\ (~dirty => AllAsSet(main, asked, gaps, Filed))'
    BY <2>1, <2>2 DEF LocalesInv, AllAsSet, AsSet, Merged, InFileOf
  <2> QED
    BY <2>2, <2>3 DEF LocalesInv
<1> QED
  BY <1>1, <1>2

\* The invariant has the property.
LEMMA LocalesInvAnswers ==
    ASSUME LocalesInv
    PROVE  AnsweredAsSet
<1>1. LocalesTypeOK /\ FilesShape /\ entry \in [SchemaKey -> MarkupEntry] /\ asked \in [SchemaKey -> MarkupEntry] /\ gaps \subseteq SchemaKey \X Other
      /\ AllAsSet(entry, asked, gaps, Unread)
  BY Shapes DEF LocalesInv
<1>2. ASSUME NEW k \in SchemaKey, NEW l \in Locale, <<k, l>> \notin gaps
      PROVE  Answered(k, l) = Pick(asked[k], <<l>>)
  <2> DEFINE es == EnsureLoaded(entry, {l})
  <2>1. SameSchema(entry[k], asked[k])
    BY <1>1 DEF AllAsSet
  <2>2. es \in [SchemaKey -> MarkupEntry] /\ SameSchema(es[k], asked[k]) /\ (IsSchema(es[k]) <=> IsSchema(entry[k]))
    <3>1. es \in [SchemaKey -> MarkupEntry] /\ es[k].kind = entry[k].kind
      BY <1>1, EnsureIs
    <3>2. AllAsSet(es, asked, gaps, Unread \ {l})
      BY <1>1, EnsureRight
    <3> QED
      BY <3>1, <3>2 DEF AllAsSet, IsSchema
  <2>3. CASE ~IsSchema(entry[k])
    <3>1. es[k] \in MarkupEntry /\ asked[k] \in MarkupEntry /\ es[k].kind = asked[k].kind /\ es[k].kind # "schema"
      BY <1>1, <2>2, <2>3 DEF SameSchema, IsSchema
    <3>2. es[k] = asked[k]
      BY <3>1, EntryIs
    <3> QED
      BY <3>2 DEF Answered
  <2>4. CASE IsSchema(entry[k])
    <3>1. es[k].locals[l] = asked[k].locals[l]
      <4>1. CASE l = "C"
        BY <2>2, <2>4, <4>1 DEF SameSchema
      <4>2. CASE l \in Other
        <5>1. AsSet(entry, asked, Unread, k, l)
          BY <1>1, <1>2, <4>2 DEF AllAsSet
        <5>2. es[k].locals[l] = IF Loads(l) THEN Merged(entry, k, l) ELSE entry[k].locals[l]
          BY <1>1, <2>4, <4>2, EnsureIs
        <5> QED
          BY <2>4, <4>2, <5>1, <5>2 DEF AsSet, Unread
      <4> QED
        BY <4>1, <4>2 DEF Locale
    <3> HIDE DEF es
    <3>2. Pick(es[k], <<l>>) = Pick(asked[k], <<l>>)
      BY <2>2, <2>4, <3>1, PickSame
    <3> QED
      BY <3>2 DEF Answered, es
  <2> QED
    BY <2>3, <2>4
<1> QED
  BY <1>2 DEF AnsweredAsSet

\* A schema is answered in each locale as it was set, whichever files were read before, and after it
\* was saved in parts and read again (save_tree_with_locale, ensure_schema_descs_loaded), outside
\* the gaps.
THEOREM SchemasAnswered == LocalesSpec => []AnsweredAsSet
<1>1. LocalesInit => LocalesInv
  BY LocalesInvInit
<1>2. LocalesInv /\ [LocalesNext]_localesVars => LocalesInv'
  BY LocalesInvNext
<1>3. LocalesInv => AnsweredAsSet
  BY LocalesInvAnswers
<1> QED
  BY <1>1, <1>2, <1>3, PTL DEF LocalesSpec

-----------------------------------------------------------------------------
(* The XML backend.                                                          *)
USE PathAssumption, XmlAssumption

Stored == Entry \cup {Nothing}

-----------------------------------------------------------------------------
(* Names.  Of a set of natural numbers one is the least.                     *)
LEMMA NaturalOrder ==
  \E R : /\ IsWellFoundedOn(R, Nat)
         /\ \A x \in Nat, y \in Nat : x < y => <<x, y>> \in R
<1>1. \A x \in Nat, y \in Nat : x < y => <<x, y>> \in OpToRel(<, Nat)
  BY DEF OpToRel
<1> QED
  BY <1>1, NatLessThanWellFounded

LEMMA LeastNatural ==
  ASSUME NEW T \in SUBSET Nat, T # {}
  PROVE  \E x \in T : \A y \in T : x <= y
<1>1. PICK R : /\ IsWellFoundedOn(R, Nat)
               /\ \A x \in Nat, y \in Nat : x < y => <<x, y>> \in R
  BY NaturalOrder
<1>2. PICK x \in T : \A y \in T : ~(<<y, x>> \in R)
  <2>1. T \subseteq Nat /\ T # {} /\ IsWellFoundedOn(R, Nat)
    BY <1>1
  <2> QED
    BY ONLY <2>1, WFMin, Zenon
<1>3. \A y \in T : y \in Nat /\ ~(y < x)
  BY <1>1, <1>2
<1>4. \A y \in T : x <= y
  BY <1>3
<1> QED
  BY <1>4

(* Of directories above one path, one is above the others and one below them. *)
LEMMA HighestIn ==
  ASSUME NEW p \in Path, NEW S \in SUBSET Up[p], S # {}
  PROVE  \E q \in S : \A r \in S : q \in Up[r]
<1>1. \A q \in S : q \in Path /\ Up[q] \subseteq Up[p] /\ IsFiniteSet(Up[q])
  BY PathFinite
<1> PICK T : T = {Cardinality(Up[q]) : q \in S}
  OBVIOUS
<1>2. T \in SUBSET Nat /\ T # {}
  BY <1>1, FS_CardinalityType
<1>3. PICK n \in T : \A m \in T : n <= m
  BY <1>2, LeastNatural
<1>4. PICK q \in S : n = Cardinality(Up[q])
  OBVIOUS
<1>5. ASSUME NEW r \in S PROVE q \in Up[r]
  <2> SUFFICES ASSUME q \notin Up[r] PROVE FALSE
    OBVIOUS
  <2>1. r \in Up[q] /\ Up[r] \in SUBSET Up[q] /\ Up[r] # Up[q]
    BY <1>1
  <2>2. /\ Cardinality(Up[r]) <= Cardinality(Up[q])
        /\ Cardinality(Up[q]) = Cardinality(Up[r]) => Up[q] = Up[r]
    BY <1>1, <2>1, FS_Subset
  <2>3. Cardinality(Up[r]) \in Nat /\ Cardinality(Up[q]) \in Nat /\ n <= Cardinality(Up[r])
    BY <1>1, <1>3, FS_CardinalityType
  <2> QED
    BY <1>4, <2>1, <2>2, <2>3
<1> QED
  BY <1>5

LEMMA LowestIn ==
  ASSUME NEW p \in Path, NEW S \in SUBSET Up[p], S # {}
  PROVE  \E q \in S : S \subseteq Up[q]
<1>1. \A q \in S : q \in Path /\ Up[q] \subseteq Up[p] /\ IsFiniteSet(Up[p] \ Up[q])
  <2>1. IsFiniteSet(Up[p])
    BY PathFinite
  <2> QED
    BY <2>1, FS_Subset
<1> PICK T : T = {Cardinality(Up[p] \ Up[q]) : q \in S}
  OBVIOUS
<1>2. T \in SUBSET Nat /\ T # {}
  <2>1. \A q \in S : Cardinality(Up[p] \ Up[q]) \in Nat
    BY <1>1, FS_CardinalityType
  <2> QED
    BY ONLY <2>1, S # {}, T = {Cardinality(Up[p] \ Up[q]) : q \in S}
<1>3. PICK n \in T : \A m \in T : n <= m
  BY <1>2, LeastNatural
<1>4. PICK q \in S : n = Cardinality(Up[p] \ Up[q])
  OBVIOUS
<1>5. ASSUME NEW r \in S PROVE r \in Up[q]
  <2> SUFFICES ASSUME r \notin Up[q] PROVE FALSE
    OBVIOUS
  <2>1. q \in Up[r]
    BY <1>1
  <2> PICK A : A = Up[p] \ Up[q]
    OBVIOUS
  <2> PICK B : B = Up[p] \ Up[r]
    OBVIOUS
  <2>2. B \in SUBSET A /\ A # B /\ IsFiniteSet(A) /\ IsFiniteSet(B)
    BY <1>1, <2>1
  <2>3. Cardinality(B) <= Cardinality(A) /\ (Cardinality(A) = Cardinality(B) => A = B)
    BY <2>2, FS_Subset
  <2>4. Cardinality(A) \in Nat /\ Cardinality(B) \in Nat
    BY <2>2, FS_CardinalityType
  <2>5. Cardinality(B) \in T /\ n <= Cardinality(B)
    BY <1>3
  <2> QED
    BY <1>2, <1>4, <2>2, <2>3, <2>4, <2>5
<1> QED
  BY <1>5

(* The directory a name is in: the lowest above it.                         *)
LEMMA DirectoryIs ==
  ASSUME NEW p \in Path \ {Root}, NEW q \in Up[p] \ {p}, Up[p] \ {p} \subseteq Up[q]
  PROVE  KeyDirectory(p) = q
<1> DEFINE D == CHOOSE x \in Up[p] \ {p} : \A r \in Up[p] \ {p} : r \in Up[x]
<1>1. D \in Up[p] \ {p} /\ \A r \in Up[p] \ {p} : r \in Up[D]
  <2>1. \E x \in Up[p] \ {p} : \A r \in Up[p] \ {p} : r \in Up[x]
    OBVIOUS
  <2> QED
    BY <2>1, Zenon
<1>2. KeyDirectory(p) = D
  BY DEF KeyDirectory
<1>3. D \in Path /\ D \in Up[q] /\ q \in Up[D] /\ q \in Path
  BY <1>1
<1> HIDE DEF D
<1> QED
  BY <1>2, <1>3

LEMMA Directory ==
  ASSUME NEW p \in Path \ {Root}
  PROVE  KeyDirectory(p) \in Up[p] \ {p} /\ Up[p] \ {p} \subseteq Up[KeyDirectory(p)]
<1> PICK S : S = Up[p] \ {p}
  OBVIOUS
<1>1. S \in SUBSET Up[p] /\ S # {}
  OBVIOUS
<1>2. PICK q \in S : S \subseteq Up[q]
  BY <1>1, LowestIn
<1>3. KeyDirectory(p) = q
  BY <1>2, DirectoryIs
<1> QED
  BY <1>2, <1>3

(* Directories.                                                             *)
LEMMA ParentType ==
  /\ \A d \in Dir : Up[d] \subseteq Dir /\ d \in Path
  /\ \A d \in Dir : Parent[d] \in Dir /\ Parent[d] \in Up[d]
  /\ \A d \in Dir \ {Root} : Parent[d] # d /\ Up[d] \ {d} \subseteq Up[Parent[d]]
  /\ \A k \in Key : DirOf[k] \in Dir /\ k \in KeysIn[DirOf[k]]
  /\ \A d \in Dir : \A k \in KeysIn[d] : k \in Key /\ DirOf[k] = d
<1>1. \A d \in Dir : Up[d] \subseteq Dir /\ d \in Path
  OBVIOUS
<1>2. ASSUME NEW d \in Dir \ {Root}
      PROVE  /\ Parent[d] \in Dir /\ Parent[d] \in Up[d]
             /\ Parent[d] # d /\ Up[d] \ {d} \subseteq Up[Parent[d]]
  BY <1>1, Directory DEF Parent
<1>3. Parent[Root] = Root /\ Root \in Dir /\ Root \in Up[Root]
  BY DEF Parent, KeyDirectory
<1>4. /\ \A k \in Key : DirOf[k] \in Dir /\ k \in KeysIn[DirOf[k]]
      /\ \A d \in Dir : \A k \in KeysIn[d] : k \in Key /\ DirOf[k] = d
  BY DEF DirOf, KeysIn
<1> QED
  BY <1>1, <1>2, <1>3, <1>4

-----------------------------------------------------------------------------
(* What is in memory and on disk for a directory.                           *)
EntriesOf(d) == [KeysIn[d] -> Stored]

NodeOf(d) ==
  {n \in [loaded : BOOLEAN, listed : BOOLEAN, subdirs : SUBSET Dir, dirty : BOOLEAN,
          entries : EntriesOf(d) \cup {<<>>}] : n.loaded => n.entries \in EntriesOf(d)}

FilesOf(d) == [made : BOOLEAN, file : File(d), old : File(d), tmp : BOOLEAN]

CacheOf(c) == c = [d \in Dir |-> c[d]] /\ \A d \in Dir : c[d] = Absent \/ c[d] \in NodeOf(d)
DiskOf(dk) == dk = [d \in Dir |-> dk[d]] /\ \A d \in Dir : dk[d] \in FilesOf(d)

(* A state of memory and disk.  Nothing is stored in what is thought not to  *)
(* exist.                                                                  *)
Proper(s) ==
  /\ s = [cache |-> s.cache, nonexistent |-> s.nonexistent, disk |-> s.disk]
  /\ CacheOf(s.cache) /\ DiskOf(s.disk)
  /\ s.nonexistent \subseteq Dir
  /\ \A d \in s.nonexistent : Content(s.disk, d) = EmptyFile(d)

(* What a query of a directory answers, and whether it is to be saved.       *)
Held(s, d) == IF In(s.cache, d) THEN Entries(s.cache, s.disk, d) ELSE Content(s.disk, d)
DirtyIn(s, d) == In(s.cache, d) /\ s.cache[d].dirty

(* From s to t more is read or made, and nothing else happens.               *)
Grows(s, t) ==
  /\ Proper(t)
  /\ \A e \in Dir :
       /\ Content(t.disk, e) = Content(s.disk, e) /\ t.disk[e].old = s.disk[e].old
       /\ Held(t, e) = Held(s, e)
       /\ DirtyIn(t, e) <=> DirtyIn(s, e)
       /\ In(s.cache, e) => In(t.cache, e)

(* In memory, and yet thought not to exist.                                  *)
Both(s) == {e \in s.nonexistent : In(s.cache, e)}

LEMMA NodeFacts ==
  /\ \A d \in Dir : Absent \notin NodeOf(d) /\ NewDir \in NodeOf(d) /\ NewDir # Absent
  /\ NewDir.loaded = FALSE /\ NewDir.dirty = FALSE /\ NewDir.listed = FALSE
<1>1. \A n : n = Absent => DOMAIN n = {"loaded"}
  BY DEF Absent
<1>2. \A d \in Dir : \A n \in NodeOf(d) : DOMAIN n = {"loaded", "listed", "subdirs", "dirty", "entries"}
  BY DEF NodeOf
<1>3. "dirty" # "loaded"
  OBVIOUS
<1>4. \A d \in Dir : NewDir \in NodeOf(d)
  BY DEF NewDir, NodeOf
<1>5. \A d \in Dir : Absent \notin NodeOf(d)
  BY <1>1, <1>2, <1>3
<1>6. \A d \in Dir : NewDir # Absent
  BY <1>4, <1>5
<1> QED
  BY <1>4, <1>5, <1>6 DEF NewDir

LEMMA ContentType ==
  ASSUME NEW dk, DiskOf(dk), NEW d \in Dir
  PROVE  /\ Content(dk, d) \in EntriesOf(d)
         /\ EmptyFile(d) \in EntriesOf(d) /\ EmptyFile(d) # NoFile
         /\ dk[d].file \in EntriesOf(d) \cup {NoFile} /\ dk[d].old \in EntriesOf(d) \cup {NoFile}
         /\ NoFile \notin EntriesOf(d)
<1>1. EmptyFile(d) \in EntriesOf(d)
  BY DEF EmptyFile, EntriesOf, Stored
<1>2. NoFile \notin EntriesOf(d)
  BY DEF EntriesOf, Stored, KeysIn
<1>3. dk[d].file \in EntriesOf(d) \cup {NoFile} /\ dk[d].old \in EntriesOf(d) \cup {NoFile}
  BY DEF DiskOf, FilesOf, File, EntriesOf, Stored
<1> QED
  BY <1>1, <1>2, <1>3 DEF Content, Exists

LEMMA HeldType ==
  ASSUME NEW s, Proper(s), NEW d \in Dir
  PROVE  Held(s, d) \in EntriesOf(d)
<1>1. Content(s.disk, d) \in EntriesOf(d)
  BY ContentType DEF Proper
<1>2. In(s.cache, d) => s.cache[d] \in NodeOf(d)
  BY DEF Proper, CacheOf, In
<1> QED
  BY <1>1, <1>2 DEF Held, Entries, NodeOf

LEMMA GrowsSelf ==
  ASSUME NEW s, Proper(s)
  PROVE  Grows(s, s)
BY DEF Grows

LEMMA GrowsOn ==
  ASSUME NEW s, NEW t, NEW u, Grows(s, t), Grows(t, u)
  PROVE  Grows(s, u)
BY DEF Grows

(* A node that differs from the one before, if any, only by being read and   *)
(* by what it knows of subdirectories.                                      *)
LEMMA MemoryGrows ==
  ASSUME NEW s, Proper(s), NEW t,
         t = [cache |-> t.cache, nonexistent |-> t.nonexistent, disk |-> t.disk],
         t.disk = s.disk, CacheOf(t.cache),
         t.nonexistent \subseteq Dir,
         \A e \in t.nonexistent : Content(s.disk, e) = EmptyFile(e),
         \A e \in Dir : In(s.cache, e) =>
            /\ In(t.cache, e) /\ t.cache[e].dirty = s.cache[e].dirty
            /\ Entries(t.cache, s.disk, e) = Entries(s.cache, s.disk, e),
         \A e \in Dir : ~In(s.cache, e) /\ In(t.cache, e) => t.cache[e] = NewDir
  PROVE  Grows(s, t)
<1>1. Proper(t)
  BY DEF Proper
<1>2. ASSUME NEW e \in Dir
      PROVE  /\ Held(t, e) = Held(s, e)
             /\ DirtyIn(t, e) <=> DirtyIn(s, e)
             /\ In(s.cache, e) => In(t.cache, e)
  <2>1. CASE In(s.cache, e)
    BY <2>1 DEF Held, DirtyIn
  <2>2. CASE ~In(s.cache, e) /\ In(t.cache, e)
    BY <2>2, NodeFacts DEF Held, DirtyIn, Entries
  <2>3. CASE ~In(s.cache, e) /\ ~In(t.cache, e)
    BY <2>3 DEF Held, DirtyIn
  <2> QED
    BY <2>1, <2>2, <2>3
<1> QED
  BY <1>1, <1>2 DEF Grows

-----------------------------------------------------------------------------
(* cache_lookup.  The directories it loads, and where it stops.             *)
WayOf(s, d) == {e \in Up[d] : \A f \in Up[d] : e \in Up[f] => Loadable(s, f)}
StopOf(s, d) == {e \in Up[d] \ WayOf(s, d) : Up[d] \ WayOf(s, d) \subseteq Up[e]}

LEMMA LookupIs ==
  ASSUME NEW s, Proper(s), NEW d \in Dir
  PROVE  Lookup(s, d) =
           [cache |-> [e \in Dir |->
              IF e \in WayOf(s, d) THEN NewDir
              ELSE IF e \in StopOf(s, d) /\ In(s.cache, e) /\ WayOf(s, d) # {}
                   THEN AddChild(s.cache[e], CHOOSE c \in WayOf(s, d) : Parent[c] = e)
                   ELSE s.cache[e]],
            nonexistent |-> s.nonexistent \cup {e \in StopOf(s, d) : ~In(s.cache, e)},
            disk |-> s.disk]
<1> DEFINE c1 == [e \in Dir |->
              IF e \in WayOf(s, d) THEN NewDir
              ELSE IF e \in StopOf(s, d) /\ In(s.cache, e) /\ WayOf(s, d) # {}
                   THEN AddChild(s.cache[e], CHOOSE c \in WayOf(s, d) : Parent[c] = e)
                   ELSE s.cache[e]]
<1> DEFINE n1 == s.nonexistent \cup {e \in StopOf(s, d) : ~In(s.cache, e)}
<1>1. Lookup(s, d) = [s EXCEPT !.cache = c1, !.nonexistent = n1]
  BY DEF Lookup, WayOf, StopOf
<1>2. s = [cache |-> s.cache, nonexistent |-> s.nonexistent, disk |-> s.disk]
  BY DEF Proper
<1> HIDE DEF c1, n1
<1>3. Lookup(s, d) = [cache |-> c1, nonexistent |-> n1, disk |-> s.disk]
  BY <1>1, <1>2
<1> QED
  BY <1>3 DEF c1, n1

(* Where it stops the way begins.                                           *)
LEMMA WayFromStop ==
  ASSUME NEW s, NEW d \in Dir, NEW e \in StopOf(s, d), WayOf(s, d) # {}
  PROVE  \E c \in WayOf(s, d) : Parent[c] = e
<1> PICK way : way = WayOf(s, d)
  OBVIOUS
<1> PICK rest : rest = Up[d] \ way
  OBVIOUS
<1>1. way \in SUBSET Up[d] /\ way # {} /\ d \in Path /\ Up[d] \subseteq Path /\ Up[d] \subseteq Dir
  BY DEF WayOf
<1>2. PICK c \in way : \A r \in way : c \in Up[r]
  BY ONLY <1>1, HighestIn
<1>3. e \in rest /\ rest \subseteq Up[e]
  BY DEF StopOf
<1>4. ASSUME NEW r \in rest PROVE c \notin Up[r]
  <2>1. PICK f \in Up[d] : r \in Up[f] /\ ~Loadable(s, f)
    BY DEF WayOf
  <2> SUFFICES ASSUME c \in Up[r] PROVE FALSE
    OBVIOUS
  <2>2. c \in Up[f]
    BY <1>1, <2>1
  <2> QED
    BY <2>1, <2>2 DEF WayOf
<1>5. \A r \in rest : r \in Up[c] /\ r # c
  BY <1>1, <1>4
<1>6. Up[c] \ {c} \subseteq rest
  <2> SUFFICES ASSUME NEW r \in Up[c] \ {c}, r \notin rest PROVE FALSE
    OBVIOUS
  <2>1. r \in Up[d] /\ r \in way
    BY <1>1
  <2>2. c \in Up[r] /\ c \in Path /\ r \in Path
    BY <1>1, <1>2, <2>1
  <2> QED
    BY <2>2
<1>7. c \in Path \ {Root} /\ e \in Up[c] \ {c} /\ Up[c] \ {c} \subseteq Up[e]
  <2>1. c \in Path /\ e \in Up[c] /\ e # c
    BY <1>1, <1>3, <1>5
  <2>2. c # Root
    BY <1>1, <2>1
  <2> QED
    BY <1>3, <1>6, <2>1, <2>2
<1>8. Parent[c] = e
  BY <1>1, <1>7, DirectoryIs DEF Parent
<1> QED
  BY <1>8

LEMMA LookupGrows ==
  ASSUME NEW s, Proper(s), NEW d \in Dir
  PROVE  /\ Grows(s, Lookup(s, d)) /\ Both(Lookup(s, d)) \subseteq Both(s)
         /\ Loadable(s, d) => In(Lookup(s, d).cache, d)
<1> PICK t : t = Lookup(s, d)
  OBVIOUS
<1> DEFINE way == WayOf(s, d)
<1> DEFINE stop == StopOf(s, d)
<1>1. /\ t = [cache |-> t.cache, nonexistent |-> t.nonexistent, disk |-> t.disk]
      /\ t.disk = s.disk
      /\ t.nonexistent = s.nonexistent \cup {e \in stop : ~In(s.cache, e)}
      /\ t.cache = [e \in Dir |->
              IF e \in way THEN NewDir
              ELSE IF e \in stop /\ In(s.cache, e) /\ way # {}
                   THEN AddChild(s.cache[e], CHOOSE c \in way : Parent[c] = e)
                   ELSE s.cache[e]]
  <2> DEFINE c1 == [e \in Dir |->
              IF e \in way THEN NewDir
              ELSE IF e \in stop /\ In(s.cache, e) /\ way # {}
                   THEN AddChild(s.cache[e], CHOOSE c \in way : Parent[c] = e)
                   ELSE s.cache[e]]
  <2> DEFINE n1 == s.nonexistent \cup {e \in stop : ~In(s.cache, e)}
  <2>1. t = [cache |-> c1, nonexistent |-> n1, disk |-> s.disk]
    BY LookupIs, Zenon
  <2> HIDE DEF c1, n1
  <2>2. /\ t = [cache |-> t.cache, nonexistent |-> t.nonexistent, disk |-> t.disk]
        /\ t.disk = s.disk /\ t.nonexistent = n1 /\ t.cache = c1
    BY <2>1
  <2> QED
    BY <2>2, Zenon DEF c1, n1
<1>2. /\ way \subseteq Dir /\ stop \subseteq Dir /\ way \cap stop = {}
      /\ \A e \in way : ~In(s.cache, e) /\ e \notin s.nonexistent
  BY DEF WayOf, StopOf, Loadable
<1>3. ASSUME NEW e \in Dir, In(s.cache, e)
      PROVE  /\ t.cache[e] \in NodeOf(e) /\ In(t.cache, e)
             /\ t.cache[e].dirty = s.cache[e].dirty
             /\ Entries(t.cache, s.disk, e) = Entries(s.cache, s.disk, e)
  <2>1. s.cache[e] \in NodeOf(e) /\ e \notin way
    BY <1>2, <1>3 DEF Proper, CacheOf, In
  <2>2. t.cache[e] = s.cache[e] \/ \E c \in Dir : t.cache[e] = AddChild(s.cache[e], c)
    <3>1. CASE e \in stop /\ way # {}
      <4>1. \E c \in way : Parent[c] = e
        BY <3>1, WayFromStop
      <4>2. (CHOOSE c \in way : Parent[c] = e) \in way
        BY <4>1
      <4> QED
        BY <1>1, <1>2, <1>3, <2>1, <3>1, <4>2
    <3>2. CASE ~(e \in stop /\ way # {})
      BY <1>1, <2>1, <3>2
    <3> QED
      BY <3>1, <3>2
  <2>3. ASSUME NEW c \in Dir
        PROVE  /\ AddChild(s.cache[e], c) \in NodeOf(e)
               /\ AddChild(s.cache[e], c).dirty = s.cache[e].dirty
               /\ AddChild(s.cache[e], c).loaded = s.cache[e].loaded
               /\ AddChild(s.cache[e], c).entries = s.cache[e].entries
    BY <2>1 DEF AddChild, NodeOf
  <2>4. /\ t.cache[e] \in NodeOf(e) /\ t.cache[e].dirty = s.cache[e].dirty
        /\ t.cache[e].loaded = s.cache[e].loaded /\ t.cache[e].entries = s.cache[e].entries
    BY <2>1, <2>2, <2>3
  <2> QED
    BY <2>4, NodeFacts DEF In, Entries
<1>4. ASSUME NEW e \in Dir, ~In(s.cache, e)
      PROVE  t.cache[e] = IF e \in way THEN NewDir ELSE Absent
  BY <1>1, <1>4 DEF In
<1>5. CacheOf(t.cache)
  <2>1. t.cache = [e \in Dir |-> t.cache[e]]
    BY <1>1
  <2>2. \A e \in Dir : t.cache[e] = Absent \/ t.cache[e] \in NodeOf(e)
    BY <1>3, <1>4, NodeFacts
  <2> QED
    BY <2>1, <2>2 DEF CacheOf
<1>6. ASSUME NEW e \in t.nonexistent
      PROVE  Content(s.disk, e) = EmptyFile(e)
  <2>2. CASE e \in s.nonexistent
    BY <2>2 DEF Proper
  <2>3. CASE e \in stop /\ ~In(s.cache, e) /\ e \notin s.nonexistent
    <3> e \notin way
      BY <1>2, <2>3
    <3>1. e \in Up[d] /\ Up[d] \ way \subseteq Up[e]
      BY <2>3 DEF StopOf
    <3>2. PICK f \in Up[d] : e \in Up[f] /\ ~Loadable(s, f)
      BY <3>1 DEF WayOf
    <3>3. f = e
      <4>1. f \notin way
        BY <3>2 DEF WayOf
      <4>2. f \in Up[e] /\ f \in Path /\ e \in Path
        BY <3>1, <3>2, <4>1
      <4> QED
        BY <3>2, <4>2
    <3>4. ~Exists(s.disk, e)
      BY <2>3, <3>2, <3>3 DEF Loadable
    <3> QED
      BY <3>4 DEF Content
  <2> QED
    BY <1>1, <1>6, <2>2, <2>3
<1>7. Grows(s, t)
  <2>1. t.nonexistent \subseteq Dir
    BY <1>1, <1>2 DEF Proper
  <2>2. \A e \in Dir : ~In(s.cache, e) /\ In(t.cache, e) => t.cache[e] = NewDir
    BY <1>4 DEF In
  <2>3. t = [cache |-> t.cache, nonexistent |-> t.nonexistent, disk |-> t.disk] /\ t.disk = s.disk
    BY <1>1
  <2>4. \A e \in Dir : In(s.cache, e) =>
            /\ In(t.cache, e) /\ t.cache[e].dirty = s.cache[e].dirty
            /\ Entries(t.cache, s.disk, e) = Entries(s.cache, s.disk, e)
    BY <1>3
  <2>5. \A e \in t.nonexistent : Content(s.disk, e) = EmptyFile(e)
    BY <1>6
  <2>6. Proper(s)
    OBVIOUS
  <2> QED
    BY ONLY <1>5, <2>1, <2>2, <2>3, <2>4, <2>5, <2>6, MemoryGrows
<1>8. Loadable(s, d) => In(t.cache, d)
  <2> SUFFICES ASSUME Loadable(s, d) PROVE In(t.cache, d)
    OBVIOUS
  <2>1. d \in way
    BY DEF WayOf
  <2> QED
    BY <1>1, <2>1, NodeFacts DEF In
<1>9. Both(t) \subseteq Both(s)
  <2> SUFFICES ASSUME NEW e \in t.nonexistent, In(t.cache, e)
               PROVE  e \in s.nonexistent /\ In(s.cache, e)
    BY DEF Both
  <2>1. e \in Dir
    BY <1>1, <1>2 DEF Proper
  <2>2. e \in s.nonexistent \/ (e \in stop /\ ~In(s.cache, e))
    BY <1>1
  <2>3. e \notin way
    BY <1>2, <2>2
  <2>4. In(s.cache, e)
    BY <1>1, <2>1, <2>3 DEF In
  <2> QED
    BY <2>2, <2>4
<1> QED
  BY <1>7, <1>8, <1>9

-----------------------------------------------------------------------------
(* Telling a parent, making directories, reading.                           *)
Rereads(n, s, d) ==
  /\ n.dirty = s.cache[d].dirty
  /\ (IF n.loaded THEN n.entries ELSE Content(s.disk, d)) = Entries(s.cache, s.disk, d)

LEMMA SetMemory ==
  ASSUME NEW s, Proper(s), NEW d \in Dir, In(s.cache, d), NEW n \in NodeOf(d),
         Rereads(n, s, d),
         NEW t, t = SetDir(s, d, n)
  PROVE  /\ Grows(s, t) /\ t.cache[d] = n /\ t.disk = s.disk
         /\ t.nonexistent = s.nonexistent /\ Both(t) = Both(s)
<1>1. /\ t = [cache |-> t.cache, nonexistent |-> t.nonexistent, disk |-> t.disk]
      /\ t.disk = s.disk /\ t.nonexistent = s.nonexistent
      /\ t.cache = [s.cache EXCEPT ![d] = n]
  BY DEF Proper, SetDir
<1>2. /\ s.cache = [e \in Dir |-> s.cache[e]]
      /\ \A e \in Dir : s.cache[e] = Absent \/ s.cache[e] \in NodeOf(e)
  BY DEF Proper, CacheOf
<1>3. t.cache[d] = n /\ \A e \in Dir : e # d => t.cache[e] = s.cache[e]
  BY <1>1, <1>2
<1>4. CacheOf(t.cache)
  <2>1. t.cache = [e \in Dir |-> IF e = d THEN n ELSE s.cache[e]]
    BY <1>1, <1>2
  <2>2. t.cache = [e \in Dir |-> t.cache[e]]
    BY <2>1
  <2> QED
    BY <1>2, <1>3, <2>2 DEF CacheOf
<1>5. t.nonexistent \subseteq Dir /\ \A e \in t.nonexistent : Content(s.disk, e) = EmptyFile(e)
  BY <1>1 DEF Proper
<1>6. ASSUME NEW e \in Dir, In(s.cache, e)
      PROVE  /\ In(t.cache, e) /\ t.cache[e].dirty = s.cache[e].dirty
             /\ Entries(t.cache, s.disk, e) = Entries(s.cache, s.disk, e)
  <2>1. CASE e = d
    <3>1. n # Absent
      BY NodeFacts
    <3>2. n.dirty = s.cache[d].dirty
      BY DEF Rereads
    <3>3. Entries(t.cache, s.disk, d) = Entries(s.cache, s.disk, d)
      BY <1>3 DEF Entries, Rereads
    <3> QED
      BY ONLY <1>3, <2>1, <3>1, <3>2, <3>3 DEF In
  <2>2. CASE e # d
    BY ONLY <1>3, <1>6, <2>2 DEF In, Entries
  <2> QED
    BY <2>1, <2>2
<1>7. \A e \in Dir : ~In(s.cache, e) /\ In(t.cache, e) => t.cache[e] = NewDir
  BY <1>3 DEF In
<1>8. Proper(s)
  OBVIOUS
<1>9. Grows(s, t)
  <2>1. t = [cache |-> t.cache, nonexistent |-> t.nonexistent, disk |-> t.disk] /\ t.disk = s.disk
    BY <1>1
  <2>2. \A e \in Dir : In(s.cache, e) =>
            /\ In(t.cache, e) /\ t.cache[e].dirty = s.cache[e].dirty
            /\ Entries(t.cache, s.disk, e) = Entries(s.cache, s.disk, e)
    BY ONLY <1>6
  <2>3. t.nonexistent \subseteq Dir
    BY <1>5
  <2>4. \A e \in t.nonexistent : Content(s.disk, e) = EmptyFile(e)
    BY <1>5
  <2> QED
    BY ONLY <1>4, <1>7, <1>8, <2>1, <2>2, <2>3, <2>4, MemoryGrows
<1>10. Both(t) = Both(s)
  <2>1. In(t.cache, d) /\ \A e \in Dir : In(t.cache, e) <=> In(s.cache, e)
    BY <1>3, NodeFacts DEF In
  <2>2. s.nonexistent \subseteq Dir /\ t.nonexistent = s.nonexistent
    BY <1>1 DEF Proper
  <2> QED
    BY ONLY <2>1, <2>2 DEF Both
<1> QED
  BY <1>1, <1>3, <1>9, <1>10

LEMMA AddChildGrows ==
  ASSUME NEW s, Proper(s), NEW d \in Dir, In(s.cache, d), NEW c \in Dir
  PROVE  /\ Grows(s, SetDir(s, d, AddChild(s.cache[d], c)))
         /\ Both(SetDir(s, d, AddChild(s.cache[d], c))) = Both(s)
<1> PICK n : n = AddChild(s.cache[d], c)
  OBVIOUS
<1>1. s.cache[d] \in NodeOf(d)
  BY DEF Proper, CacheOf, In
<1>2. /\ n \in NodeOf(d) /\ n.dirty = s.cache[d].dirty
      /\ n.loaded = s.cache[d].loaded /\ n.entries = s.cache[d].entries
  BY <1>1 DEF AddChild, NodeOf
<1>3. Rereads(n, s, d)
  BY <1>2 DEF Entries, Rereads
<1>4. Grows(s, SetDir(s, d, n)) /\ Both(SetDir(s, d, n)) = Both(s)
  BY <1>2, <1>3, SetMemory
<1> QED
  BY <1>4

LEMMA LoadGrows ==
  ASSUME NEW s, Proper(s), NEW d \in Dir, In(s.cache, d)
  PROVE  /\ Grows(s, Load(s, d))
         /\ Load(s, d).disk = s.disk /\ Load(s, d).nonexistent = s.nonexistent
         /\ Both(Load(s, d)) = Both(s)
         /\ Load(s, d).cache[d] \in NodeOf(d)
         /\ Load(s, d).cache[d].loaded
         /\ Load(s, d).cache[d].entries = Held(s, d)
         /\ Load(s, d).cache[d].listed = s.cache[d].listed
         /\ Load(s, d).cache[d].subdirs = s.cache[d].subdirs
<1> PICK n : n = [s.cache[d] EXCEPT !.entries = Entries(s.cache, s.disk, d), !.loaded = TRUE]
  OBVIOUS
<1>1. s.cache[d] \in NodeOf(d)
  BY DEF Proper, CacheOf, In
<1>2. Entries(s.cache, s.disk, d) \in EntriesOf(d) /\ Entries(s.cache, s.disk, d) = Held(s, d)
  BY HeldType DEF Held
<1>3. /\ n \in NodeOf(d) /\ n.dirty = s.cache[d].dirty /\ n.loaded
      /\ n.entries = Entries(s.cache, s.disk, d)
      /\ n.listed = s.cache[d].listed /\ n.subdirs = s.cache[d].subdirs
  BY <1>1, <1>2 DEF NodeOf
<1>4. Load(s, d) = SetDir(s, d, n)
  BY DEF Load
<1>5. /\ Grows(s, Load(s, d)) /\ Load(s, d).cache[d] = n /\ Load(s, d).disk = s.disk
      /\ Load(s, d).nonexistent = s.nonexistent /\ Both(Load(s, d)) = Both(s)
  <2>1. n \in NodeOf(d) /\ Rereads(n, s, d)
    BY <1>3 DEF Rereads
  <2> QED
    BY <1>4, <2>1, SetMemory
<1> QED
  BY <1>2, <1>3, <1>5

LEMMA RescanGrows ==
  ASSUME NEW s, Proper(s), NEW d \in Dir, In(s.cache, d), NEW missed
  PROVE  /\ Grows(s, Rescan(s, d, missed)) /\ Rescan(s, d, missed).disk = s.disk
         /\ Rescan(s, d, missed).nonexistent = s.nonexistent /\ Both(Rescan(s, d, missed)) = Both(s)
         /\ s.cache[d].loaded => Rescan(s, d, missed).cache[d].loaded
<1> PICK t : t = Load(s, d)
  OBVIOUS
<1> PICK found : found = Found(s, d) \ missed
  OBVIOUS
<1> PICK n : n = [t.cache[d] EXCEPT !.listed = TRUE, !.subdirs = found]
  OBVIOUS
<1>1. /\ Grows(s, t) /\ Proper(t) /\ In(t.cache, d) /\ t.cache[d] \in NodeOf(d) /\ t.cache[d].loaded
      /\ t.disk = s.disk /\ t.nonexistent = s.nonexistent /\ Both(t) = Both(s)
  BY LoadGrows DEF Grows
<1>2. found \subseteq Dir
  BY DEF Found, Children
<1>3. /\ n \in NodeOf(d) /\ n.dirty = t.cache[d].dirty /\ n.loaded
      /\ n.entries = t.cache[d].entries
  BY <1>1, <1>2 DEF NodeOf
<1>4. Rereads(n, t, d)
  BY <1>1, <1>3 DEF Entries, Rereads
<1>5. CASE s.cache[d].listed
  BY <1>5, GrowsSelf DEF Rescan
<1>6. CASE ~s.cache[d].listed
  <2>1. Rescan(s, d, missed) = SetDir(t, d, n)
    BY <1>1, <1>6 DEF Rescan
  <2>2. /\ Grows(t, Rescan(s, d, missed)) /\ Rescan(s, d, missed).cache[d] = n /\ Rescan(s, d, missed).disk = t.disk
        /\ Rescan(s, d, missed).nonexistent = t.nonexistent /\ Both(Rescan(s, d, missed)) = Both(t)
    BY ONLY <1>1, <1>3, <1>4, <2>1, d \in Dir, SetMemory
  <2> QED
    BY <1>1, <1>3, <2>2, GrowsOn
<1> QED
  BY <1>5, <1>6

LEMMA MadeGrows ==
  ASSUME NEW s, Proper(s), NEW ds \in SUBSET Dir, \A e \in ds : ~Exists(s.disk, e),
         NEW t, t = [s EXCEPT !.disk = CreateFsDir(@, ds)]
  PROVE  Grows(s, t)
<1>1. /\ t = [cache |-> t.cache, nonexistent |-> t.nonexistent, disk |-> t.disk]
      /\ t.disk = CreateFsDir(s.disk, ds) /\ t.nonexistent = s.nonexistent
      /\ t.cache = s.cache
  BY DEF Proper
<1>2. DiskOf(s.disk) /\ CacheOf(s.cache)
  BY DEF Proper
<1>3. ASSUME NEW e \in Dir
      PROVE  /\ t.disk[e] \in FilesOf(e) /\ t.disk[e].old = s.disk[e].old
             /\ Content(t.disk, e) = Content(s.disk, e)
  <2>1. s.disk[e] \in FilesOf(e) /\ EmptyFile(e) \in File(e) /\ EmptyFile(e) # NoFile
    <3>1. s.disk[e] \in FilesOf(e) /\ EmptyFile(e) # NoFile
      BY <1>2, ContentType DEF DiskOf
    <3>2. EmptyFile(e) \in File(e)
      BY DEF EmptyFile, File
    <3> QED
      BY <3>1, <3>2
  <2>2. CASE e \in ds
    <3>1. t.disk[e] = [s.disk[e] EXCEPT !.made = TRUE, !.file = EmptyFile(e)]
      BY <1>1, <2>2 DEF CreateFsDir
    <3> PICK old : old = s.disk[e]
      OBVIOUS
    <3> PICK new : new = t.disk[e]
      OBVIOUS
    <3> PICK empty : empty = EmptyFile(e)
      OBVIOUS
    <3>3. new = [old EXCEPT !.made = TRUE, !.file = empty] /\ old \in FilesOf(e) /\ empty \in File(e)
      BY <2>1, <3>1
    <3>4. new \in FilesOf(e) /\ new.old = old.old /\ new.file = empty
      BY ONLY <3>3 DEF FilesOf
    <3>2. t.disk[e] \in FilesOf(e) /\ t.disk[e].old = s.disk[e].old /\ t.disk[e].file = EmptyFile(e)
      BY <3>4
    <3>5. s.disk[e].file = NoFile
      BY <2>2 DEF Exists
    <3> QED
      BY ONLY <3>2, <3>5 DEF Content, Exists
  <2>3. CASE e \notin ds
    <3>1. t.disk[e] = s.disk[e]
      BY ONLY <1>1, <2>3, e \in Dir DEF CreateFsDir
    <3> QED
      BY <2>1, <3>1 DEF Content, Exists
  <2> QED
    BY <2>2, <2>3
<1>4. DiskOf(t.disk)
  <2>1. CreateFsDir(s.disk, ds) = [e \in Dir |-> CreateFsDir(s.disk, ds)[e]]
    BY DEF CreateFsDir
  <2>2. t.disk = [e \in Dir |-> t.disk[e]]
    BY <1>1, <2>1
  <2> QED
    BY <1>3, <2>2 DEF DiskOf
<1>5. Proper(t)
  BY <1>1, <1>2, <1>3, <1>4 DEF Proper
<1>6. \A e \in Dir : /\ Held(t, e) = Held(s, e) /\ (DirtyIn(t, e) <=> DirtyIn(s, e))
                     /\ In(s.cache, e) => In(t.cache, e)
  BY <1>1, <1>3 DEF Held, Entries, DirtyIn
<1> QED
  BY <1>3, <1>5, <1>6 DEF Grows

(* cache_lookup that makes the directory.                                   *)
LEMMA CreateGrows ==
  ASSUME NEW s, Proper(s), NEW d \in Dir, ~In(s.cache, d)
  PROVE  /\ Grows(s, Create(s, d)) /\ In(Create(s, d).cache, d)
         /\ Both(Create(s, d)) \subseteq Both(s)
<1> PICK missing : missing = Missing(s.disk, d)
  OBVIOUS
<1> PICK dug : dug = [s EXCEPT !.disk = CreateFsDir(@, missing)]
  OBVIOUS
<1> PICK made : made = SetDir(dug, d, NewDir)
  OBVIOUS
<1> PICK up : up = IF d = Root THEN made ELSE Lookup(made, Parent[d])
  OBVIOUS
<1> PICK telling : telling = SetDir(up, Parent[d], AddChild(up.cache[Parent[d]], d))
  OBVIOUS
<1> PICK told2 : told2 = IF d # Root /\ In(up.cache, Parent[d]) THEN telling ELSE up
  OBVIOUS
<1>1. Create(s, d) = UnsetNonexistent(told2, d)
  <2>1. made = SetDir([s EXCEPT !.disk = CreateFsDir(@, Missing(@, d))], d, NewDir)
    OBVIOUS
  <2> QED
    BY <2>1 DEF Create
<1>2. Grows(s, dug) /\ Proper(dug) /\ dug.cache = s.cache
  <2>1. missing \in SUBSET Dir /\ \A e \in missing : ~Exists(s.disk, e)
    BY DEF Missing
  <2>2. Grows(s, dug)
    BY <2>1, MadeGrows
  <2> QED
    BY <2>2 DEF Grows, Proper
<1>3. Grows(dug, made) /\ Proper(made) /\ In(made.cache, d)
  <2>1. /\ made = [cache |-> made.cache, nonexistent |-> made.nonexistent, disk |-> made.disk]
        /\ made.disk = dug.disk /\ made.nonexistent = dug.nonexistent
        /\ made.cache = [dug.cache EXCEPT ![d] = NewDir]
    BY <1>2 DEF Proper, SetDir
  <2>2. dug.cache = [e \in Dir |-> dug.cache[e]] /\ \A e \in Dir : dug.cache[e] = Absent \/ dug.cache[e] \in NodeOf(e)
    BY <1>2 DEF Proper, CacheOf
  <2>3. made.cache[d] = NewDir /\ \A e \in Dir : e # d => made.cache[e] = dug.cache[e]
    BY <2>1, <2>2
  <2>4. CacheOf(made.cache)
    BY <2>1, <2>2, <2>3, NodeFacts DEF CacheOf
  <2>5. made.nonexistent \subseteq Dir /\ \A e \in made.nonexistent : Content(dug.disk, e) = EmptyFile(e)
    BY <1>2, <2>1 DEF Proper
  <2>6. \A e \in Dir : In(dug.cache, e) =>
            /\ In(made.cache, e) /\ made.cache[e].dirty = dug.cache[e].dirty
            /\ Entries(made.cache, dug.disk, e) = Entries(dug.cache, dug.disk, e)
    BY <1>2, <2>3 DEF In, Entries
  <2>7. \A e \in Dir : ~In(dug.cache, e) /\ In(made.cache, e) => made.cache[e] = NewDir
    BY <2>3 DEF In
  <2>8. Grows(dug, made)
    <3>1. /\ made = [cache |-> made.cache, nonexistent |-> made.nonexistent, disk |-> made.disk]
          /\ made.disk = dug.disk /\ Proper(dug)
      BY <1>2, <2>1
    <3> QED
      BY ONLY <2>4, <2>5, <2>6, <2>7, <3>1, MemoryGrows
  <2> QED
    BY <2>3, <2>8, NodeFacts DEF Grows, In
<1>4. Parent[d] \in Dir
  BY ParentType
<1>5. Grows(made, up) /\ Proper(up)
  <2>1. Grows(made, made) /\ Grows(made, Lookup(made, Parent[d]))
    BY ONLY <1>3, <1>4, GrowsSelf, LookupGrows
  <2>2. up = made \/ up = Lookup(made, Parent[d])
    OBVIOUS
  <2> QED
    BY <2>1, <2>2 DEF Grows
<1>6. Grows(up, told2) /\ Proper(told2)
  <2>1. Grows(up, up)
    BY ONLY <1>5, GrowsSelf
  <2>2. In(up.cache, Parent[d]) => Grows(up, SetDir(up, Parent[d], AddChild(up.cache[Parent[d]], d)))
    BY ONLY <1>4, <1>5, d \in Dir, AddChildGrows
  <2>3. \/ told2 = up
        \/ In(up.cache, Parent[d]) /\ told2 = SetDir(up, Parent[d], AddChild(up.cache[Parent[d]], d))
    BY ONLY told2 = IF d # Root /\ In(up.cache, Parent[d]) THEN telling ELSE up,
            telling = SetDir(up, Parent[d], AddChild(up.cache[Parent[d]], d)), Zenon
  <2>4. Grows(up, told2)
    BY ONLY <2>1, <2>2, <2>3, Zenon
  <2> QED
    BY <2>4 DEF Grows
<1> PICK t : t = UnsetNonexistent(told2, d)
  OBVIOUS
<1>7. Grows(told2, t)
  <2>1. /\ t = [cache |-> t.cache, nonexistent |-> t.nonexistent, disk |-> t.disk]
        /\ t.disk = told2.disk /\ t.nonexistent = told2.nonexistent \ Up[d] /\ t.cache = told2.cache
    BY <1>6 DEF Proper, UnsetNonexistent
  <2>2. t.cache = told2.cache /\ t.disk = told2.disk
    BY <2>1
  <2>3. CacheOf(t.cache) /\ DiskOf(t.disk)
    BY <1>6, <2>2 DEF Proper
  <2>4. t.nonexistent \subseteq Dir /\ \A e \in t.nonexistent : Content(t.disk, e) = EmptyFile(e)
    <3>1. /\ told2.nonexistent \subseteq Dir
          /\ \A e \in told2.nonexistent : Content(told2.disk, e) = EmptyFile(e)
      BY <1>6 DEF Proper
    <3> QED
      BY ONLY <2>1, <3>1
  <2>5. Proper(t)
    BY ONLY <2>1, <2>3, <2>4 DEF Proper
  <2>6. \A e \in Dir : Held(t, e) = Held(told2, e) /\ (DirtyIn(t, e) <=> DirtyIn(told2, e))
    BY ONLY <2>2 DEF Held, DirtyIn
  <2> QED
    BY ONLY <2>2, <2>5, <2>6 DEF Grows
<1>8. Grows(s, t)
  <2>1. Grows(s, made)
    BY <1>2, <1>3, GrowsOn
  <2>2. Grows(s, up)
    BY <1>5, <2>1, GrowsOn
  <2>3. Grows(s, told2)
    BY <1>6, <2>2, GrowsOn
  <2> QED
    BY <1>7, <2>3, GrowsOn
<1>9. In(t.cache, d)
  BY <1>3, <1>5, <1>6, <1>7 DEF Grows
<1>10. Both(t) \subseteq Both(s)
  <2>1. Both(dug) = Both(s)
    BY <1>2 DEF Both, Proper
  <2>2. Both(made) \subseteq Both(dug) \cup {d}
    <3>1. /\ made.nonexistent = dug.nonexistent /\ made.cache = [dug.cache EXCEPT ![d] = NewDir]
          /\ dug.nonexistent \subseteq Dir /\ dug.cache = [e \in Dir |-> dug.cache[e]]
      BY <1>2 DEF Proper, CacheOf, SetDir
    <3> QED
      BY ONLY <3>1 DEF Both, In
  <2>3. Both(up) \subseteq Both(made)
    <3>1. Both(Lookup(made, Parent[d])) \subseteq Both(made)
      BY ONLY <1>3, <1>4, LookupGrows
    <3> QED
      BY <3>1
  <2>4. Both(told2) = Both(up)
    <3>1. In(up.cache, Parent[d]) => Both(telling) = Both(up)
      <4>1. telling = SetDir(up, Parent[d], AddChild(up.cache[Parent[d]], d))
        OBVIOUS
      <4>2. In(up.cache, Parent[d]) => Both(SetDir(up, Parent[d], AddChild(up.cache[Parent[d]], d))) = Both(up)
        BY ONLY <1>4, <1>5, d \in Dir, AddChildGrows
      <4> QED
        BY ONLY <4>1, <4>2
    <3> QED
      BY <3>1
  <2>5. Both(t) \subseteq Both(told2) \ {d}
    <3>1. t.nonexistent = told2.nonexistent \ Up[d] /\ t.cache = told2.cache /\ d \in Up[d]
      BY <1>6 DEF Proper, UnsetNonexistent
    <3> QED
      BY ONLY <3>1 DEF Both
  <2> QED
    BY ONLY <2>1, <2>2, <2>3, <2>4, <2>5
<1> QED
  BY <1>1, <1>8, <1>9, <1>10

LEMMA EnsureGrows ==
  ASSUME NEW s, Proper(s), NEW d \in Dir
  PROVE  /\ Grows(s, Ensure(s, d)) /\ In(Ensure(s, d).cache, d)
         /\ Both(Ensure(s, d)) \subseteq Both(s)
<1>1. CASE Creates(s, d)
  BY <1>1, CreateGrows DEF Ensure, Creates
<1>2. CASE ~Creates(s, d)
  <2>1. In(s.cache, d) \/ Loadable(s, d)
    BY <1>2 DEF Creates, Loadable
  <2>2. /\ Grows(s, Lookup(s, d)) /\ Both(Lookup(s, d)) \subseteq Both(s)
        /\ Loadable(s, d) => In(Lookup(s, d).cache, d)
    BY LookupGrows
  <2>3. In(Lookup(s, d).cache, d)
    BY <2>1, <2>2 DEF Grows
  <2> QED
    BY <1>2, <2>2, <2>3 DEF Ensure
<1> QED
  BY <1>1, <1>2

-----------------------------------------------------------------------------
(* One directory changes in memory, or on disk.                              *)
DirSetTo(s, t, d, n) ==
  /\ Proper(t) /\ t.disk = s.disk /\ t.nonexistent = s.nonexistent
  /\ t.cache = [s.cache EXCEPT ![d] = n] /\ t.cache[d] = n
  /\ \A e \in Dir \ {d} : /\ t.cache[e] = s.cache[e] /\ Held(t, e) = Held(s, e)
                          /\ DirtyIn(t, e) <=> DirtyIn(s, e)

FilesSetTo(s, t, d, f) ==
  /\ Proper(t) /\ t.cache = s.cache /\ t.nonexistent = s.nonexistent
  /\ Both(t) = Both(s)
  /\ t.disk[d] = f
  /\ \A e \in Dir \ {d} : /\ t.disk[e] = s.disk[e] /\ Held(t, e) = Held(s, e)
                          /\ Content(t.disk, e) = Content(s.disk, e)
  /\ \A e \in Dir : DirtyIn(t, e) <=> DirtyIn(s, e)

LEMMA DirSet ==
  ASSUME NEW s, Proper(s), NEW d \in Dir, NEW n \in NodeOf(d) \cup {Absent},
         NEW t, t = SetDir(s, d, n)
  PROVE  DirSetTo(s, t, d, n)
<1>1. /\ t = [cache |-> t.cache, nonexistent |-> t.nonexistent, disk |-> t.disk]
      /\ t.disk = s.disk /\ t.nonexistent = s.nonexistent
      /\ t.cache = [s.cache EXCEPT ![d] = n]
  BY DEF Proper, SetDir
<1>2. /\ s.cache = [e \in Dir |-> s.cache[e]]
      /\ \A e \in Dir : s.cache[e] = Absent \/ s.cache[e] \in NodeOf(e)
  BY DEF Proper, CacheOf
<1>3. t.cache[d] = n /\ \A e \in Dir : e # d => t.cache[e] = s.cache[e]
  BY <1>1, <1>2
<1>4. CacheOf(t.cache)
  <2>1. t.cache = [e \in Dir |-> IF e = d THEN n ELSE s.cache[e]]
    BY <1>1, <1>2
  <2>2. t.cache = [e \in Dir |-> t.cache[e]]
    BY <2>1
  <2> QED
    BY <1>2, <1>3, <2>2 DEF CacheOf
<1>5. Proper(t)
  <2>1. /\ DiskOf(s.disk) /\ s.nonexistent \subseteq Dir
        /\ \A e \in s.nonexistent : Content(s.disk, e) = EmptyFile(e)
    BY DEF Proper
  <2> QED
    BY ONLY <1>1, <1>4, <2>1 DEF Proper
<1>6. \A e \in Dir \ {d} : Held(t, e) = Held(s, e) /\ (DirtyIn(t, e) <=> DirtyIn(s, e))
  BY ONLY <1>1, <1>3 DEF Held, Entries, DirtyIn, In
<1> QED
  BY <1>1, <1>3, <1>5, <1>6 DEF DirSetTo

LEMMA FilesSet ==
  ASSUME NEW s, Proper(s), NEW d \in Dir, NEW f \in FilesOf(d),
         NEW t, t = SetFiles(s, d, f),
         d \in s.nonexistent => f.file \in {NoFile, EmptyFile(d)}
  PROVE  FilesSetTo(s, t, d, f)
<1>1. /\ t = [cache |-> t.cache, nonexistent |-> t.nonexistent, disk |-> t.disk]
      /\ t.cache = s.cache /\ t.nonexistent = s.nonexistent
      /\ t.disk = [s.disk EXCEPT ![d] = f]
  BY DEF Proper, SetFiles
<1>2. s.disk = [e \in Dir |-> s.disk[e]] /\ \A e \in Dir : s.disk[e] \in FilesOf(e)
  BY DEF Proper, DiskOf
<1>3. t.disk[d] = f /\ \A e \in Dir : e # d => t.disk[e] = s.disk[e]
  BY <1>1, <1>2
<1>4. DiskOf(t.disk)
  <2>1. t.disk = [e \in Dir |-> IF e = d THEN f ELSE s.disk[e]]
    BY <1>1, <1>2
  <2>2. t.disk = [e \in Dir |-> t.disk[e]]
    BY <2>1
  <2> QED
    BY <1>2, <1>3, <2>2 DEF DiskOf
<1>5. \A e \in Dir \ {d} : Content(t.disk, e) = Content(s.disk, e)
  BY ONLY <1>3 DEF Content, Exists
<1>6. ASSUME NEW e \in t.nonexistent PROVE Content(t.disk, e) = EmptyFile(e)
  <2>1. CASE e = d
    BY <1>1, <1>3, <2>1 DEF Content, Exists
  <2>2. CASE e # d
    BY <1>1, <1>5, <2>2 DEF Proper
  <2> QED
    BY <2>1, <2>2
<1>7. Proper(t)
  <2>1. CacheOf(s.cache) /\ s.nonexistent \subseteq Dir
    BY DEF Proper
  <2> QED
    BY ONLY <1>1, <1>4, <1>6, <2>1 DEF Proper
<1>8. \A e \in Dir \ {d} : Held(t, e) = Held(s, e)
  BY ONLY <1>1, <1>5 DEF Held, Entries
<1>9. Both(t) = Both(s) /\ \A e \in Dir : DirtyIn(t, e) <=> DirtyIn(s, e)
  BY ONLY <1>1 DEF DirtyIn, Both
<1> QED
  BY <1>1, <1>3, <1>5, <1>7, <1>8, <1>9 DEF FilesSetTo

(* A request for one key.                                                   *)
ChangedTo(s, t, k, d, e) ==
  /\ Proper(t) /\ Both(t) = Both(s) /\ t.disk = s.disk
  /\ Held(t, d) = [Held(s, d) EXCEPT ![k] = e] /\ DirtyIn(t, d)
  /\ \A x \in Dir : In(s.cache, x) => In(t.cache, x)
  /\ \A x \in Dir \ {d} : Held(t, x) = Held(s, x) /\ (DirtyIn(t, x) <=> DirtyIn(s, x))

LEMMA ChangeIs ==
  ASSUME NEW s, Proper(s), NEW k \in Key, NEW d \in Dir, d = DirOf[k], In(s.cache, d),
         NEW e \in Stored, NEW t, t = Change(s, k, e)
  PROVE  ChangedTo(s, t, k, d, e)
<1> PICK l : l = Load(s, d)
  OBVIOUS
<1> PICK n : n = [l.cache[d] EXCEPT !.entries = [@ EXCEPT ![k] = e], !.dirty = TRUE]
  OBVIOUS
<1>1. /\ Grows(s, l) /\ l.disk = s.disk /\ Both(l) = Both(s) /\ l.cache[d] \in NodeOf(d)
      /\ l.cache[d].loaded /\ l.cache[d].entries = Held(s, d)
  BY LoadGrows
<1>3. t = SetDir(s, d, n)
  BY DEF Change
<1>4. /\ n \in NodeOf(d) /\ n.loaded /\ n.dirty /\ n.entries = [Held(s, d) EXCEPT ![k] = e]
  <2>1. l.cache[d].entries \in EntriesOf(d)
    BY <1>1 DEF NodeOf
  <2>2. [l.cache[d].entries EXCEPT ![k] = e] \in EntriesOf(d)
    BY <2>1 DEF EntriesOf
  <2> PICK new : new = [l.cache[d].entries EXCEPT ![k] = e]
    OBVIOUS
  <2>3. n = [l.cache[d] EXCEPT !.entries = new, !.dirty = TRUE] /\ new \in EntriesOf(d)
    BY <2>2
  <2>4. n \in NodeOf(d) /\ n.loaded /\ n.dirty /\ n.entries = new
    BY ONLY <1>1, <2>3 DEF NodeOf
  <2> QED
    BY <1>1, <2>4
<1>5. /\ Proper(t) /\ t.disk = s.disk /\ t.nonexistent = s.nonexistent /\ t.cache[d] = n
      /\ \A x \in Dir \ {d} : /\ t.cache[x] = s.cache[x] /\ Held(t, x) = Held(s, x)
                              /\ DirtyIn(t, x) <=> DirtyIn(s, x)
  <2>1. n \in NodeOf(d) \cup {Absent}
    BY <1>4
  <2>2. Proper(s)
    OBVIOUS
  <2>3. DirSetTo(s, t, d, n)
    BY ONLY <1>3, <2>1, <2>2, d \in Dir, DirSet
  <2> QED
    BY ONLY <2>3 DEF DirSetTo
<1>6. In(t.cache, d)
  BY <1>4, <1>5, NodeFacts DEF In
<1>7. Both(t) = Both(s)
  <2>1. s.nonexistent \subseteq Dir /\ In(s.cache, d)
    BY DEF Proper
  <2> QED
    BY ONLY <1>5, <1>6, <2>1 DEF Both, In
<1>8. Held(t, d) = n.entries /\ DirtyIn(t, d)
  <2>1. In(t.cache, d) /\ t.cache[d] = n /\ n.loaded /\ n.dirty
    BY <1>4, <1>5, <1>6
  <2> QED
    BY ONLY <2>1 DEF Held, Entries, DirtyIn
<1>9. \A x \in Dir : In(s.cache, x) => In(t.cache, x)
  BY <1>5, <1>6 DEF In
<1> QED
  BY <1>4, <1>5, <1>7, <1>8, <1>9 DEF ChangedTo

(* The file of a directory is deleted.                                      *)
Gone(s, d) == SetFiles(s, d, [s.disk[d] EXCEPT !.file = NoFile])

LEMMA GoneIs ==
  ASSUME NEW s, Proper(s), NEW d \in Dir, NEW t, t = Gone(s, d)
  PROVE  /\ FilesSetTo(s, t, d, t.disk[d])
         /\ t.disk[d].file = NoFile /\ t.disk[d].old = s.disk[d].old
         /\ Content(t.disk, d) = EmptyFile(d)
         /\ Held(t, d) = IF In(s.cache, d) /\ s.cache[d].loaded THEN Held(s, d) ELSE EmptyFile(d)
<1> PICK f : f = [s.disk[d] EXCEPT !.file = NoFile]
  OBVIOUS
<1>1. f \in FilesOf(d) /\ f.file = NoFile /\ f.old = s.disk[d].old
  BY DEF Proper, DiskOf, FilesOf, File
<1>2. FilesSetTo(s, t, d, f)
  BY <1>1, FilesSet DEF Gone
<1>3. t.disk[d] = f /\ t.cache = s.cache
  BY <1>2 DEF FilesSetTo
<1>4. Content(t.disk, d) = EmptyFile(d)
  BY <1>1, <1>3 DEF Content, Exists
<1>5. Held(t, d) = IF In(s.cache, d) /\ s.cache[d].loaded THEN Held(s, d) ELSE EmptyFile(d)
  BY <1>3, <1>4 DEF Held, Entries
<1> QED
  BY <1>1, <1>2, <1>3, <1>4, <1>5

(* An empty directory is forgotten; its parent is to be saved.               *)
Forgotten(s, t, d) ==
  /\ Proper(t) /\ Both(t) \subseteq Both(s)
  /\ \A x \in Dir : /\ Content(t.disk, x) = Content(s.disk, x)
                    /\ Held(t, x) = Held(s, x)
  /\ \A x \in Dir \ {d} : /\ In(s.cache, x) => In(t.cache, x)
                          /\ DirtyIn(s, x) => DirtyIn(t, x)

LEMMA ForgetIs ==
  ASSUME NEW s, Proper(s), NEW d \in Dir,
         Held(s, d) = EmptyFile(d), Content(s.disk, d) = EmptyFile(d),
         NEW t, t = ForgetDir(s, d)
  PROVE  Forgotten(s, t, d)
<1> PICK p \in Dir : p = Parent[d]
  BY ParentType
<1> PICK there : there = Ensure(s, p)
  OBVIOUS
<1> PICK n : n = [there.cache[p] EXCEPT !.dirty = TRUE, !.subdirs = @ \ {d}]
  OBVIOUS
<1> PICK child : child = SetDir(there, p, n)
  OBVIOUS
<1> PICK told2 : told2 = IF d = Root THEN there ELSE child
  OBVIOUS
<1> PICK gone : gone = SetDir(told2, d, Absent)
  OBVIOUS
<1>0. Held(s, d) = EmptyFile(d) /\ Content(s.disk, d) = EmptyFile(d)
  OBVIOUS
<1>1. t = [gone EXCEPT !.nonexistent = @ \cup {d}]
  BY DEF ForgetDir
<1>2. Grows(s, there) /\ In(there.cache, p) /\ Both(there) \subseteq Both(s) /\ Proper(there)
  BY EnsureGrows DEF Grows
<1>3. there.cache[p] \in NodeOf(p)
  BY <1>2 DEF Proper, CacheOf, In
<1>4. n \in NodeOf(p) /\ n.dirty /\ n.loaded = there.cache[p].loaded /\ n.entries = there.cache[p].entries
  BY <1>3 DEF NodeOf
<1>5. DirSetTo(there, child, p, n)
  <2>1. n \in NodeOf(p) \cup {Absent}
    BY <1>4
  <2> QED
    BY ONLY <1>2, <2>1, child = SetDir(there, p, n), p \in Dir, DirSet
<1>6. /\ Proper(child) /\ child.disk = there.disk /\ Both(child) = Both(there)
      /\ \A x \in Dir : /\ Held(child, x) = Held(there, x) /\ (DirtyIn(there, x) => DirtyIn(child, x))
                        /\ In(there.cache, x) => In(child.cache, x)
  <2>1. child.cache[p] = n /\ child.disk = there.disk /\ child.nonexistent = there.nonexistent /\ Proper(child)
    BY <1>5 DEF DirSetTo
  <2>2. In(child.cache, p)
    <3>1. n # Absent
      BY ONLY <1>4, p \in Dir, NodeFacts
    <3> QED
      BY ONLY <2>1, <3>1 DEF In
  <2>3. Held(child, p) = Held(there, p) /\ DirtyIn(child, p)
    <3>1. Entries(child.cache, child.disk, p) = Entries(there.cache, there.disk, p)
      BY ONLY <1>4, <2>1 DEF Entries
    <3> QED
      BY ONLY <1>2, <1>4, <2>1, <2>2, <3>1 DEF Held, DirtyIn
  <2>4. \A x \in Dir \ {p} : /\ child.cache[x] = there.cache[x] /\ Held(child, x) = Held(there, x)
                             /\ DirtyIn(child, x) <=> DirtyIn(there, x)
    BY <1>5 DEF DirSetTo
  <2>5. \A x \in Dir : In(there.cache, x) <=> In(child.cache, x)
    BY <1>2, <2>2, <2>4 DEF In
  <2>6. Both(child) = Both(there)
    <3>1. there.nonexistent \subseteq Dir
      BY <1>2 DEF Proper
    <3> QED
      BY ONLY <2>1, <2>5, <3>1 DEF Both
  <2> QED
    BY <2>1, <2>3, <2>4, <2>5, <2>6
<1>7. /\ Proper(told2) /\ told2.disk = there.disk /\ Both(told2) = Both(there)
      /\ \A x \in Dir : /\ Held(told2, x) = Held(there, x) /\ (DirtyIn(there, x) => DirtyIn(told2, x))
                        /\ In(there.cache, x) => In(told2.cache, x)
  <2>1. told2 = there \/ told2 = child
    OBVIOUS
  <2> QED
    BY ONLY <1>2, <1>6, <2>1
<1>8. DirSetTo(told2, gone, d, Absent)
  <2>1. Absent \in NodeOf(d) \cup {Absent}
    OBVIOUS
  <2> QED
    BY ONLY <1>7, <2>1, gone = SetDir(told2, d, Absent), d \in Dir, DirSet
<1>9. /\ Proper(gone) /\ gone.disk = there.disk /\ gone.nonexistent = told2.nonexistent /\ gone.cache[d] = Absent
      /\ \A x \in Dir \ {d} : /\ gone.cache[x] = told2.cache[x] /\ Held(gone, x) = Held(told2, x)
                              /\ DirtyIn(gone, x) <=> DirtyIn(told2, x)
  BY <1>7, <1>8 DEF DirSetTo
<1>10. \A x \in Dir : Content(there.disk, x) = Content(s.disk, x)
  BY <1>2 DEF Grows
<1>11. /\ t = [cache |-> t.cache, nonexistent |-> t.nonexistent, disk |-> t.disk]
       /\ t.cache = gone.cache /\ t.disk = gone.disk /\ t.nonexistent = gone.nonexistent \cup {d}
  <2>1. gone = [cache |-> gone.cache, nonexistent |-> gone.nonexistent, disk |-> gone.disk]
    BY <1>9 DEF Proper
  <2> QED
    BY ONLY <1>1, <2>1
<1>12. Proper(t)
  <2>1. /\ CacheOf(gone.cache) /\ DiskOf(gone.disk) /\ gone.nonexistent \subseteq Dir
        /\ \A e \in gone.nonexistent : Content(gone.disk, e) = EmptyFile(e)
    BY <1>9 DEF Proper
  <2>2. Content(gone.disk, d) = EmptyFile(d)
    BY ONLY <1>0, <1>9, <1>10, d \in Dir
  <2> QED
    BY ONLY <1>11, <2>1, <2>2, d \in Dir DEF Proper
<1>13. ~In(t.cache, d)
  BY <1>9, <1>11 DEF In
<1>14. Both(t) \subseteq Both(s)
  <2>1. told2.nonexistent \subseteq Dir
    BY <1>7 DEF Proper
  <2>2. Both(t) \subseteq Both(told2)
    BY ONLY <1>9, <1>11, <1>13, <2>1 DEF Both, In
  <2> QED
    BY <1>2, <1>7, <2>2
<1>15. Held(t, d) = Held(s, d)
  <2>1. Content(t.disk, d) = EmptyFile(d)
    BY ONLY <1>0, <1>9, <1>10, <1>11, d \in Dir
  <2> QED
    BY ONLY <1>0, <1>13, <2>1 DEF Held
<1>16. ASSUME NEW x \in Dir \ {d}
       PROVE  /\ Held(t, x) = Held(s, x)
              /\ In(s.cache, x) => In(t.cache, x)
              /\ DirtyIn(s, x) => DirtyIn(t, x)
  <2>1. Held(t, x) = Held(gone, x) /\ DirtyIn(t, x) = DirtyIn(gone, x) /\ In(t.cache, x) = In(gone.cache, x)
    BY ONLY <1>11 DEF Held, Entries, DirtyIn
  <2>2. /\ Held(there, x) = Held(s, x) /\ (DirtyIn(there, x) <=> DirtyIn(s, x))
        /\ In(s.cache, x) => In(there.cache, x)
    BY <1>2 DEF Grows
  <2>3. /\ Held(gone, x) = Held(told2, x) /\ (DirtyIn(gone, x) <=> DirtyIn(told2, x))
        /\ In(gone.cache, x) <=> In(told2.cache, x)
    BY <1>9 DEF In
  <2> QED
    BY <1>7, <2>1, <2>2, <2>3
<1> QED
  <2>1. \A x \in Dir : Content(t.disk, x) = Content(s.disk, x)
    BY ONLY <1>9, <1>10, <1>11
  <2>2. \A x \in Dir : Held(t, x) = Held(s, x)
    BY ONLY <1>15, <1>16
  <2> QED
    BY ONLY <1>12, <1>14, <1>16, <2>1, <2>2 DEF Forgotten

-----------------------------------------------------------------------------
(* What a state of memory, disk and sync is to the promise.                  *)
MemOf(s) == [k \in Key |-> Held(s, DirOf[k])[k]]
Aside(y, d) == y.pc = "into" /\ d = y.dir /\ y.oldExisted
SavedOf(s, y) ==
  [k \in Key |-> IF Aside(y, DirOf[k]) THEN s.disk[DirOf[k]].old[k] ELSE Content(s.disk, DirOf[k])[k]]

SyncOf == [pc : {"idle", "dir", "rmdir", "aside", "into", "drop"}, todo : SUBSET Dir, dir : Dir,
           failed : BOOLEAN, deletedSome : BOOLEAN, oldExisted : BOOLEAN, list : Dir \cup {NoFile}]

(* What needs no saving is as on disk.                                       *)
Agree(s, sp) ==
  \A d \in Dir : \/ DirtyIn(s, d)
                 \/ \A k \in KeysIn[d] \ sp : Held(s, d)[k] = Content(s.disk, d)[k]

(* A sync has yet to look at each directory that needs saving, unless it has *)
(* failed or will go round again; and what it knows of the directory at hand. *)
SyncInv(s, y) ==
  /\ y \in SyncOf
  /\ \A d \in y.todo : In(s.cache, d)
  /\ y.pc \in {"rmdir", "aside", "into", "drop"} => y.dir \in y.todo /\ DirtyIn(s, y.dir)
  /\ y.pc = "idle" => y.todo = {}
  /\ y.pc = "rmdir" => /\ y.dir # Root /\ Held(s, y.dir) = EmptyFile(y.dir)
                       /\ s.disk[y.dir].file = NoFile
  /\ y.pc \in {"aside", "into", "drop"} => s.cache[y.dir].loaded
  /\ y.pc = "into" => /\ s.disk[y.dir].file = NoFile
                      /\ y.oldExisted => s.disk[y.dir].old # NoFile
  /\ y.pc = "drop" => s.disk[y.dir].file = s.cache[y.dir].entries
  /\ y.pc \notin {"into", "drop"} => ~y.oldExisted
  /\ y.pc # "idle" /\ ~y.failed /\ ~y.deletedSome => \A d \in Dir : DirtyIn(s, d) => d \in y.todo

StoreInv(s, y, sp) ==
  /\ Proper(s) /\ Both(s) = {} /\ Agree(s, sp) /\ SyncInv(s, y) /\ sp \subseteq Key

IInv == StoreInv(Now, sync, spoilt)

LEMMA MemType ==
  ASSUME NEW s, Proper(s)
  PROVE  MemOf(s) \in [Key -> Stored]
<1>1. ASSUME NEW k \in Key PROVE Held(s, DirOf[k])[k] \in Stored
  BY ParentType, HeldType DEF EntriesOf
<1> QED
  BY <1>1 DEF MemOf

LEMMA SavedType ==
  ASSUME NEW s, Proper(s), NEW y, SyncInv(s, y)
  PROVE  SavedOf(s, y) \in [Key -> Stored]
<1>1. ASSUME NEW k \in Key
      PROVE  (IF Aside(y, DirOf[k]) THEN s.disk[DirOf[k]].old[k] ELSE Content(s.disk, DirOf[k])[k]) \in Stored
  <2> PICK d \in Dir : d = DirOf[k]
    BY ParentType
  <2>1. k \in KeysIn[d]
    BY ParentType
  <2>2. Content(s.disk, d) \in EntriesOf(d) /\ s.disk[d].old \in EntriesOf(d) \cup {NoFile}
    BY ContentType DEF Proper
  <2>3. Aside(y, d) => s.disk[d].old # NoFile
    BY DEF Aside, SyncInv
  <2>4. (IF Aside(y, d) THEN s.disk[d].old[k] ELSE Content(s.disk, d)[k]) \in Stored
    BY ONLY <2>1, <2>2, <2>3 DEF EntriesOf
  <2> QED
    BY <2>4
<1> QED
  BY <1>1 DEF SavedOf

LEMMA MemIs ==
  ASSUME Proper(Now)
  PROVE  Mem = MemOf(Now)
<1>1. ASSUME NEW k \in Key, NEW d \in Dir, d = DirOf[k]
      PROVE  (IF In(cache, d) THEN Entries(cache, disk, d)[k]
              ELSE IF d \in nonexistent THEN Nothing ELSE Content(disk, d)[k]) = Held(Now, d)[k]
  <2>1. Now.cache = cache /\ Now.nonexistent = nonexistent /\ Now.disk = disk
    BY DEF Now
  <2>2. d \in nonexistent => Content(disk, d) = EmptyFile(d)
    BY <2>1 DEF Proper
  <2>3. EmptyFile(d)[k] = Nothing
    BY <1>1, ParentType DEF EmptyFile
  <2> QED
    BY <2>1, <2>2, <2>3 DEF Held
<1>2. \A k \in Key : DirOf[k] \in Dir
  BY ParentType
<1> QED
  BY <1>1, <1>2 DEF Mem, MemOf

LEMMA NextMemIs ==
  ASSUME Proper(Now')
  PROVE  Mem' = MemOf(Now')
<1>1. ASSUME NEW k \in Key, NEW d \in Dir, d = DirOf[k]
      PROVE  (IF In(cache', d) THEN Entries(cache', disk', d)[k]
              ELSE IF d \in nonexistent' THEN Nothing ELSE Content(disk', d)[k]) = Held(Now', d)[k]
  <2>1. Now'.cache = cache' /\ Now'.nonexistent = nonexistent' /\ Now'.disk = disk'
    BY DEF Now
  <2>2. d \in nonexistent' => Content(disk', d) = EmptyFile(d)
    BY <2>1 DEF Proper
  <2>3. EmptyFile(d)[k] = Nothing
    BY <1>1, ParentType DEF EmptyFile
  <2> QED
    BY <2>1, <2>2, <2>3 DEF Held
<1>2. \A k \in Key : DirOf[k] \in Dir
  BY ParentType
<1> QED
  BY <1>1, <1>2 DEF Mem, MemOf

LEMMA SavedIs ==
  /\ Saved = SavedOf(Now, sync)
  /\ Saved' = SavedOf(Now', sync')
<1>1. Now.disk = disk /\ Now'.disk = disk'
  BY DEF Now
<1>2. Saved = [k \in Key |-> IF Aside(sync, DirOf[k]) THEN disk[DirOf[k]].old[k] ELSE Content(disk, DirOf[k])[k]]
  BY DEF Saved, Aside, This
<1>3. Saved' = [k \in Key |-> IF Aside(sync', DirOf[k]) THEN disk'[DirOf[k]].old[k] ELSE Content(disk', DirOf[k])[k]]
  BY DEF Saved, Aside, This
<1> QED
  BY <1>1, <1>2, <1>3 DEF SavedOf

(* Steps of the promise.                                                    *)
LEMMA Mapped ==
  ASSUME IInv, IInv'
  PROVE  /\ Mem = MemOf(Now) /\ Mem' = MemOf(Now')
         /\ Saved = SavedOf(Now, sync) /\ Saved' = SavedOf(Now', sync')
         /\ Mem \in [Key -> Stored] /\ Mem' \in [Key -> Stored]
         /\ Saved \in [Key -> Stored] /\ Saved' \in [Key -> Stored]
         /\ spoilt \subseteq Key /\ spoilt' \subseteq Key
<1>1. Proper(Now) /\ SyncInv(Now, sync) /\ spoilt \subseteq Key
  BY DEF IInv, StoreInv
<1>2. Proper(Now') /\ SyncInv(Now', sync') /\ spoilt' \subseteq Key
  BY DEF IInv, StoreInv
<1>3. MemOf(Now) \in [Key -> Stored] /\ MemOf(Now') \in [Key -> Stored]
  BY <1>1, <1>2, MemType
<1>4. SavedOf(Now, sync) \in [Key -> Stored] /\ SavedOf(Now', sync') \in [Key -> Stored]
  BY <1>1, <1>2, SavedType
<1> QED
  BY <1>1, <1>2, <1>3, <1>4, MemIs, NextMemIs, SavedIs

LEMMA StutterMaps ==
  ASSUME IInv, IInv', MemOf(Now') = MemOf(Now), SavedOf(Now', sync') = SavedOf(Now, sync),
         spoilt' = spoilt, told' = told
  PROVE  [Promise!Next]_(Promise!vars)
BY Mapped DEF Promise!vars

LEMMA RequestMaps ==
  ASSUME IInv, IInv', NEW k \in Key, NEW e \in Stored,
         MemOf(Now') = [MemOf(Now) EXCEPT ![k] = e],
         SavedOf(Now', sync') = SavedOf(Now, sync), spoilt' = spoilt, told' = told
  PROVE  [Promise!Next]_(Promise!vars)
<1>1. Mem' = [Mem EXCEPT ![k] = e] /\ Saved' = Saved
  BY Mapped
<1> QED
  BY <1>1 DEF Promise!Next, Promise!Request, Promise!Stored, Stored

LEMMA SaveMaps ==
  ASSUME IInv, IInv', spoilt \subseteq spoilt', told' \in {"none", told},
         \A k \in Key \ spoilt' : /\ MemOf(Now')[k] = MemOf(Now)[k]
                                  /\ SavedOf(Now', sync')[k] \in {SavedOf(Now, sync)[k], MemOf(Now)[k]}
  PROVE  [Promise!Next]_(Promise!vars)
<1>1. \A k \in Key \ spoilt' : Mem'[k] = Mem[k] /\ Saved'[k] \in {Saved[k], Mem[k]}
  BY Mapped
<1>2. /\ Mem' \in [Key -> Stored] /\ Saved' \in [Key -> Stored]
      /\ spoilt \subseteq spoilt' /\ spoilt' \subseteq Key /\ told' \in {"none", told}
  BY Mapped
<1> QED
  BY ONLY <1>1, <1>2 DEF Promise!Next, Promise!Save, Promise!Spoil, Promise!Stored, Stored

LEMMA AnswerMaps ==
  ASSUME IInv, IInv', MemOf(Now') = MemOf(Now), SavedOf(Now', sync') = SavedOf(Now, sync),
         spoilt' = spoilt, told' \in {"saved", "failed"},
         told' = "saved" => \A k \in Key \ spoilt : SavedOf(Now, sync)[k] = MemOf(Now)[k]
  PROVE  [Promise!Next]_(Promise!vars)
<1>1. Mem' = Mem /\ Saved' = Saved
  BY Mapped
<1>2. told' = "saved" => \A k \in Key \ spoilt : Saved[k] = Mem[k]
  BY Mapped
<1> QED
  BY ONLY <1>1, <1>2, told' \in {"saved", "failed"}, spoilt' = spoilt DEF Promise!Next, Promise!Answer

LEMMA RestartMaps ==
  ASSUME IInv, IInv', MemOf(Now') = SavedOf(Now', sync'), spoilt \subseteq spoilt', told' = "none",
         \A k \in Key \ spoilt' : SavedOf(Now', sync')[k] = SavedOf(Now, sync)[k]
  PROVE  [Promise!Next]_(Promise!vars)
<1>1. Mem' = Saved' /\ \A k \in Key \ spoilt' : Saved'[k] = Saved[k]
  BY Mapped
<1>2. /\ Mem' \in [Key -> Stored] /\ Saved' \in [Key -> Stored]
      /\ spoilt \subseteq spoilt' /\ spoilt' \subseteq Key /\ told' = "none"
  BY Mapped
<1> QED
  BY ONLY <1>1, <1>2 DEF Promise!Next, Promise!Restart, Promise!Spoil, Promise!Stored, Stored

(* Reading and making directories changes nothing; and of a sync only what   *)
(* it does with a directory changes what is saved.                           *)
LEMMA GrowsKeeps ==
  ASSUME NEW s, NEW y, NEW sp, StoreInv(s, y, sp), y.pc \in {"idle", "dir"},
         NEW t, Grows(s, t), Both(t) \subseteq Both(s)
  PROVE  StoreInv(t, y, sp) /\ MemOf(t) = MemOf(s) /\ SavedOf(t, y) = SavedOf(s, y)
<1>1. /\ Proper(t) /\ Both(t) = {} /\ sp \subseteq Key
      /\ \A d \in Dir : /\ Content(t.disk, d) = Content(s.disk, d) /\ Held(t, d) = Held(s, d)
                        /\ DirtyIn(t, d) <=> DirtyIn(s, d)
                        /\ In(s.cache, d) => In(t.cache, d)
  BY DEF Grows, StoreInv
<1>2. Agree(t, sp)
  BY <1>1 DEF StoreInv, Agree
<1>3. SyncInv(t, y)
  <2>1. SyncInv(s, y) /\ y.todo \subseteq Dir
    BY DEF StoreInv, SyncInv, SyncOf
  <2> QED
    BY <1>1, <2>1 DEF SyncInv
<1>4. \A k \in Key : DirOf[k] \in Dir
  BY ParentType
<1>5. MemOf(t) = MemOf(s)
  BY <1>1, <1>4 DEF MemOf
<1>6. SavedOf(t, y) = SavedOf(s, y)
  BY <1>1, <1>4 DEF SavedOf, Aside
<1> QED
  BY <1>1, <1>2, <1>3, <1>5, <1>6 DEF StoreInv

LEMMA ChangeKeeps ==
  ASSUME NEW s, NEW y, NEW sp, StoreInv(s, y, sp), y.pc = "idle",
         NEW k \in Key, In(s.cache, DirOf[k]), NEW e \in Stored, NEW t, t = Change(s, k, e)
  PROVE  /\ StoreInv(t, y, sp) /\ MemOf(t) = [MemOf(s) EXCEPT ![k] = e]
         /\ SavedOf(t, y) = SavedOf(s, y)
<1> PICK d \in Dir : d = DirOf[k]
  BY ParentType
<1>1. /\ Proper(t) /\ Both(t) = Both(s) /\ t.disk = s.disk
      /\ Held(t, d) = [Held(s, d) EXCEPT ![k] = e] /\ DirtyIn(t, d)
      /\ \A x \in Dir : In(s.cache, x) => In(t.cache, x)
      /\ \A x \in Dir \ {d} : Held(t, x) = Held(s, x) /\ (DirtyIn(t, x) <=> DirtyIn(s, x))
  <2>1. ChangedTo(s, t, k, d, e)
    BY ChangeIs DEF StoreInv
  <2> QED
    BY <2>1 DEF ChangedTo
<1>2. Agree(t, sp)
  BY <1>1 DEF StoreInv, Agree
<1>3. SyncInv(t, y)
  <2>1. SyncInv(s, y) /\ y.todo \subseteq Dir
    BY DEF StoreInv, SyncInv, SyncOf
  <2> QED
    BY <1>1, <2>1 DEF SyncInv
<1>4. MemOf(t) = [MemOf(s) EXCEPT ![k] = e]
  <2>1. ASSUME NEW x \in Key PROVE Held(t, DirOf[x])[x] = IF x = k THEN e ELSE Held(s, DirOf[x])[x]
    <3> PICK f \in Dir : f = DirOf[x]
      BY ParentType
    <3>1. CASE f = d
      <4>1. x \in KeysIn[d] /\ k \in KeysIn[d] /\ Held(s, d) \in EntriesOf(d)
        BY <3>1, ParentType, HeldType DEF StoreInv
      <4> QED
        BY <1>1, <3>1, <4>1 DEF EntriesOf
    <3>2. CASE f # d
      BY <1>1, <3>2
    <3> QED
      BY <3>1, <3>2
  <2>2. MemOf(t) = [x \in Key |-> IF x = k THEN e ELSE Held(s, DirOf[x])[x]]
    BY <2>1 DEF MemOf
  <2> QED
    BY <2>2 DEF MemOf
<1>5. SavedOf(t, y) = SavedOf(s, y)
  BY <1>1 DEF SavedOf, Aside
<1> QED
  BY <1>1, <1>2, <1>3, <1>4, <1>5 DEF StoreInv

LEMMA Becomes ==
  ASSUME NEW t, Proper(t), Become(t)
  PROVE  Now' = t
<1>1. t = [cache |-> t.cache, nonexistent |-> t.nonexistent, disk |-> t.disk]
  BY DEF Proper
<1> QED
  BY <1>1 DEF Become, Now

(* A step that reads or makes directories, whatever happens to the sync.     *)
LEMMA GrowsMaps ==
  ASSUME IInv, sync.pc \in {"idle", "dir"}, NEW t, Become(t), Grows(Now, t), Both(t) \subseteq Both(Now),
         sync' = sync, spoilt' = spoilt, told' = told
  PROVE  IInv' /\ [Promise!Next]_(Promise!vars)
<1>1. Now' = t
  BY Becomes DEF Grows
<1>2. StoreInv(t, sync, spoilt) /\ MemOf(t) = MemOf(Now) /\ SavedOf(t, sync) = SavedOf(Now, sync)
  BY GrowsKeeps DEF IInv
<1>3. IInv'
  BY <1>1, <1>2 DEF IInv
<1> QED
  BY <1>1, <1>2, <1>3, StutterMaps

LEMMA ChangeMaps ==
  ASSUME IInv, sync.pc = "idle", NEW s, Grows(Now, s), Both(s) \subseteq Both(Now),
         NEW k \in Key, In(s.cache, DirOf[k]), NEW e \in Stored, Become(Change(s, k, e)),
         sync' = sync, spoilt' = spoilt, told' = told
  PROVE  IInv' /\ [Promise!Next]_(Promise!vars)
<1> PICK t : t = Change(s, k, e)
  OBVIOUS
<1>1. StoreInv(s, sync, spoilt) /\ MemOf(s) = MemOf(Now) /\ SavedOf(s, sync) = SavedOf(Now, sync)
  BY GrowsKeeps DEF IInv
<1>2. /\ StoreInv(t, sync, spoilt) /\ MemOf(t) = [MemOf(s) EXCEPT ![k] = e]
      /\ SavedOf(t, sync) = SavedOf(s, sync)
  BY <1>1, ChangeKeeps
<1>3. Now' = t
  BY <1>2, Becomes DEF StoreInv
<1>4. IInv'
  BY <1>2, <1>3 DEF IInv
<1> QED
  BY <1>1, <1>2, <1>3, <1>4, RequestMaps

LEMMA SetEntryMaps ==
  ASSUME IInv, NEW k \in Key, SetEntry(k)
  PROVE  IInv' /\ [Promise!Next]_(Promise!vars)
<1> PICK d \in Dir : d = DirOf[k]
  BY ParentType
<1> PICK there : there = Ensure(Now, d)
  OBVIOUS
<1>1. PICK e \in Stored : Become(Change(there, k, e))
  BY DEF SetEntry, Stored
<1>2. sync.pc = "idle" /\ sync' = sync /\ spoilt' = spoilt /\ told' = told
  BY DEF SetEntry, Changing, Free, Settled
<1>3. Grows(Now, there) /\ In(there.cache, d) /\ Both(there) \subseteq Both(Now)
  BY EnsureGrows DEF IInv, StoreInv
<1> QED
  BY <1>1, <1>2, <1>3, ChangeMaps

LEMMA SetFailsMaps ==
  ASSUME IInv, NEW k \in Key, SetFails(k)
  PROVE  IInv' /\ [Promise!Next]_(Promise!vars)
<1> PICK d \in Dir : d = DirOf[k]
  BY ParentType
<1>1. PICK ds \in SUBSET Missing(disk, d) : disk' = CreateFsDir(disk, ds)
  BY DEF SetFails
<1>2. /\ sync.pc = "idle" /\ sync' = sync /\ spoilt' = spoilt /\ told' = told
      /\ cache' = cache /\ nonexistent' = nonexistent
  BY DEF SetFails, Changing, Free, Settled, memory
<1> PICK t : t = [Now EXCEPT !.disk = CreateFsDir(@, ds)]
  OBVIOUS
<1>3. Grows(Now, t)
  <2>1. ds \in SUBSET Dir /\ \A e \in ds : ~Exists(Now.disk, e)
    BY <1>1 DEF Missing, Now
  <2> QED
    BY <2>1, MadeGrows DEF IInv, StoreInv
<1>4. t.cache = cache /\ t.nonexistent = nonexistent /\ t.disk = CreateFsDir(disk, ds)
  BY DEF Now
<1>5. Become(t) /\ Both(t) \subseteq Both(Now)
  BY <1>1, <1>2, <1>4 DEF Become, Both, Now
<1> QED
  BY <1>2, <1>3, <1>5, GrowsMaps

LEMMA LoadedFrom ==
  ASSUME NEW s, Proper(s), NEW d \in Dir, NEW t, Grows(s, t), Both(t) \subseteq Both(s), In(t.cache, d)
  PROVE  Grows(s, Load(t, d)) /\ Both(Load(t, d)) \subseteq Both(s)
<1>1. Proper(t)
  BY DEF Grows
<1>2. Grows(t, Load(t, d)) /\ Both(Load(t, d)) = Both(t)
  BY <1>1, LoadGrows
<1> QED
  BY <1>2, GrowsOn

LEMMA UnsetEntryMaps ==
  ASSUME IInv, NEW k \in Key, UnsetEntry(k)
  PROVE  IInv' /\ [Promise!Next]_(Promise!vars)
<1> PICK d \in Dir : d = DirOf[k]
  BY ParentType
<1> PICK there : there = Lookup(Now, d)
  OBVIOUS
<1>1. \/ Become(there)
      \/ In(there.cache, d) /\ Become(Load(there, d))
      \/ In(there.cache, d) /\ \E e \in Stored : Become(Change(there, k, e))
  BY DEF UnsetEntry, Stored
<1>2. sync.pc = "idle" /\ sync' = sync /\ spoilt' = spoilt /\ told' = told
  BY DEF UnsetEntry, Changing, Free, Settled
<1>3. Grows(Now, there) /\ Both(there) \subseteq Both(Now) /\ Proper(Now)
  BY LookupGrows DEF IInv, StoreInv
<1>4. CASE Become(there)
  BY <1>2, <1>3, <1>4, GrowsMaps
<1>5. CASE In(there.cache, d) /\ Become(Load(there, d))
  <2>1. Grows(Now, Load(there, d)) /\ Both(Load(there, d)) \subseteq Both(Now)
    BY <1>3, <1>5, LoadedFrom
  <2> QED
    BY <1>2, <1>5, <2>1, GrowsMaps
<1>6. CASE In(there.cache, d) /\ \E e \in Stored : Become(Change(there, k, e))
  BY <1>2, <1>3, <1>6, ChangeMaps
<1> QED
  BY <1>1, <1>4, <1>5, <1>6

LEMMA QueryMaps ==
  ASSUME IInv, NEW d \in Dir, Query(d)
  PROVE  IInv' /\ [Promise!Next]_(Promise!vars)
<1> PICK there : there = Lookup(Now, d)
  OBVIOUS
<1>1. \/ Become(there)
      \/ In(there.cache, d) /\ Become(Load(there, d))
  BY DEF Query
<1>2. sync.pc = "idle" /\ sync' = sync /\ spoilt' = spoilt /\ told' = told
  BY DEF Query, Free, Settled
<1>3. Grows(Now, there) /\ Both(there) \subseteq Both(Now) /\ Proper(Now)
  BY LookupGrows DEF IInv, StoreInv
<1>4. CASE Become(there)
  BY <1>2, <1>3, <1>4, GrowsMaps
<1>5. CASE In(there.cache, d) /\ Become(Load(there, d))
  <2>1. Grows(Now, Load(there, d)) /\ Both(Load(there, d)) \subseteq Both(Now)
    BY <1>3, <1>5, LoadedFrom
  <2> QED
    BY <1>2, <1>5, <2>1, GrowsMaps
<1> QED
  BY <1>1, <1>4, <1>5

(* What goes from memory agrees with the disk, but for what is spoilt.       *)
LEMMA CleanMaps ==
  ASSUME IInv, NEW ds \in SUBSET Dir, Clean(ds)
  PROVE  IInv' /\ [Promise!Next]_(Promise!vars)
<1> PICK s : s = Now
  OBVIOUS
<1> PICK t : t = Now'
  OBVIOUS
<1>1. StoreInv(s, sync, spoilt) /\ sync.pc = "idle" /\ sync' = sync /\ spoilt' = spoilt /\ told' = told
  BY DEF Clean, Free, Settled, IInv
<1>2. /\ t = [cache |-> t.cache, nonexistent |-> t.nonexistent, disk |-> t.disk]
      /\ t.disk = s.disk /\ t.nonexistent = s.nonexistent
      /\ t.cache = [d \in Dir |-> IF d \in ds THEN Absent ELSE s.cache[d]]
  BY DEF Clean, Now
<1>3. \A d \in ds : ~DirtyIn(s, d)
  BY DEF Clean, DirtyIn, Now
<1>4. Proper(t)
  <2>1. /\ DiskOf(s.disk) /\ s.nonexistent \subseteq Dir
        /\ \A e \in s.nonexistent : Content(s.disk, e) = EmptyFile(e)
        /\ \A e \in Dir : s.cache[e] = Absent \/ s.cache[e] \in NodeOf(e)
    BY <1>1 DEF StoreInv, Proper, CacheOf
  <2>2. CacheOf(t.cache)
    <3>1. t.cache = [d \in Dir |-> t.cache[d]]
      BY <1>2
    <3>2. \A d \in Dir : t.cache[d] = Absent \/ t.cache[d] \in NodeOf(d)
      BY <1>2, <2>1
    <3> QED
      BY <3>1, <3>2 DEF CacheOf
  <2> QED
    BY ONLY <1>2, <2>1, <2>2 DEF Proper
<1>5. ASSUME NEW d \in Dir
      PROVE  /\ DirtyIn(t, d) <=> DirtyIn(s, d)
             /\ d \notin ds => Held(t, d) = Held(s, d)
             /\ d \in ds => ~In(t.cache, d) /\ Held(t, d) = Content(s.disk, d)
             /\ In(t.cache, d) => In(s.cache, d)
  <2>1. CASE d \in ds
    BY <1>2, <1>3, <2>1 DEF DirtyIn, Held, In
  <2>2. CASE d \notin ds
    <3>1. t.cache[d] = s.cache[d] /\ t.disk = s.disk
      BY <1>2, <2>2
    <3> QED
      BY <2>2, <3>1 DEF DirtyIn, Held, In, Entries
  <2> QED
    BY <2>1, <2>2
<1>6. Agree(t, spoilt)
  BY <1>1, <1>2, <1>5 DEF StoreInv, Agree
<1>7. Both(t) = {}
  BY <1>1, <1>2, <1>5 DEF StoreInv, Both, Proper
<1>8. SyncInv(t, sync)
  <2>1. sync.todo = {}
    BY <1>1 DEF StoreInv, SyncInv
  <2> QED
    BY <1>1, <2>1 DEF StoreInv, SyncInv
<1>9. IInv'
  BY <1>1, <1>4, <1>6, <1>7, <1>8 DEF StoreInv, IInv
<1>10. \A k \in Key \ spoilt : MemOf(t)[k] = MemOf(s)[k]
  <2> SUFFICES ASSUME NEW k \in Key \ spoilt PROVE Held(t, DirOf[k])[k] = Held(s, DirOf[k])[k]
    BY DEF MemOf
  <2> PICK d \in Dir : d = DirOf[k]
    BY ParentType
  <2>1. CASE d \in ds
    <3>1. k \in KeysIn[d] \ spoilt /\ ~DirtyIn(s, d)
      BY <1>3, <2>1, ParentType
    <3>2. Held(s, d)[k] = Content(s.disk, d)[k]
      BY <1>1, <3>1 DEF StoreInv, Agree
    <3> QED
      BY <1>5, <2>1, <3>2
  <2>2. CASE d \notin ds
    BY <1>5, <2>2
  <2> QED
    BY <2>1, <2>2
<1>11. SavedOf(t, sync) = SavedOf(s, sync)
  BY <1>2 DEF SavedOf
<1> QED
  BY <1>1, <1>9, <1>10, <1>11, SaveMaps

-----------------------------------------------------------------------------
(* cache_sync.                                                              *)
LEMMA DoneIs ==
  ASSUME sync \in SyncOf, NEW d \in Dir
  PROVE  /\ \A z \in {Done(d), Failed(d), Deleted(d)} :
              /\ z \in SyncOf /\ z.pc = "dir" /\ ~z.oldExisted
              /\ z.todo = sync.todo \ {d}
         /\ Done(d).failed = sync.failed /\ Done(d).deletedSome = sync.deletedSome
         /\ Failed(d).failed /\ Deleted(d).deletedSome
<1> PICK z : z = Done(d)
  OBVIOUS
<1>1. /\ z \in SyncOf /\ z.pc = "dir" /\ ~z.oldExisted /\ z.todo = sync.todo \ {d}
      /\ z.failed = sync.failed /\ z.deletedSome = sync.deletedSome
  BY DEF Done, SyncOf
<1> PICK f : f = Failed(d)
  OBVIOUS
<1>2. f \in SyncOf /\ f.pc = "dir" /\ ~f.oldExisted /\ f.todo = z.todo /\ f.failed
  BY <1>1 DEF Failed, SyncOf
<1> PICK x : x = Deleted(d)
  OBVIOUS
<1>3. x \in SyncOf /\ x.pc = "dir" /\ ~x.oldExisted /\ x.todo = z.todo /\ x.deletedSome
  BY <1>1 DEF Deleted, SyncOf
<1> QED
  BY <1>1, <1>2, <1>3

LEMMA BackToDir ==
  ASSUME NEW t, NEW z \in SyncOf, z.pc = "dir", ~z.oldExisted,
         \A e \in z.todo : In(t.cache, e),
         ~z.failed /\ ~z.deletedSome => \A e \in Dir : DirtyIn(t, e) => e \in z.todo
  PROVE  SyncInv(t, z)
BY DEF SyncInv

LEMMA SavedSame ==
  ASSUME NEW s, NEW t, NEW y, NEW z, y.pc # "into", z.pc # "into",
         \A d \in Dir : Content(t.disk, d) = Content(s.disk, d)
  PROVE  SavedOf(t, z) = SavedOf(s, y)
BY ParentType DEF SavedOf, Aside

(* A directory needs no saving, or fails to be saved.                        *)
LEMMA LeftMaps ==
  ASSUME IInv, sync.pc = "dir", NEW d \in Dir, NEW t, Grows(Now, t), Both(t) \subseteq Both(Now),
         Become(t), sync' = Failed(d) \/ (sync' = Done(d) /\ ~DirtyIn(Now, d)),
         spoilt' = spoilt, told' = told
  PROVE  IInv' /\ [Promise!Next]_(Promise!vars)
<1> PICK z : z = sync'
  OBVIOUS
<1>1. Now' = t
  BY Becomes DEF Grows
<1>2. StoreInv(t, sync, spoilt) /\ MemOf(t) = MemOf(Now)
  BY GrowsKeeps DEF IInv
<1>3. sync \in SyncOf
  BY DEF IInv, StoreInv, SyncInv
<1>4. /\ z \in SyncOf /\ z.pc = "dir" /\ ~z.oldExisted /\ z.todo = sync.todo \ {d}
      /\ z.failed \/ (z.failed = sync.failed /\ z.deletedSome = sync.deletedSome /\ ~DirtyIn(Now, d))
  BY <1>3, DoneIs
<1>5. \A e \in Dir : DirtyIn(t, e) <=> DirtyIn(Now, e)
  BY DEF Grows
<1>6. SyncInv(t, z)
  <2>1. \A e \in z.todo : In(t.cache, e)
    BY <1>2, <1>4 DEF StoreInv, SyncInv
  <2>2. ~z.failed /\ ~z.deletedSome => \A e \in Dir : DirtyIn(t, e) => e \in z.todo
    BY <1>2, <1>4, <1>5 DEF StoreInv, SyncInv
  <2> QED
    BY ONLY <1>4, <2>1, <2>2, BackToDir
<1>7. IInv'
  BY <1>1, <1>2, <1>6 DEF IInv, StoreInv
<1>8. SavedOf(t, z) = SavedOf(Now, sync)
  <2>1. \A e \in Dir : Content(t.disk, e) = Content(Now.disk, e)
    BY DEF Grows
  <2>2. sync.pc # "into" /\ z.pc # "into"
    BY <1>4
  <2> QED
    BY ONLY <2>1, <2>2, SavedSame
<1> QED
  BY <1>1, <1>2, <1>7, <1>8, StutterMaps

LEMMA StartMaps ==
  ASSUME IInv, NEW what \in Dir \cup {NoFile}, Start(what)
  PROVE  IInv' /\ [Promise!Next]_(Promise!vars)
<1> PICK z : z = sync'
  OBVIOUS
<1>1. Now' = Now
  BY DEF Start, memory, Now
<1>2. sync.pc = "idle" /\ spoilt' = spoilt /\ told' = "none"
  BY DEF Start, Free
<1>3. /\ z \in SyncOf /\ z.pc = "dir" /\ ~z.oldExisted /\ z.todo = AllCached
  BY DEF Start, Idle, SyncOf, AllCached
<1>4. SyncInv(Now, z)
  <2>1. \A e \in z.todo : In(Now.cache, e)
    BY <1>3 DEF AllCached, Now
  <2>2. \A e \in Dir : DirtyIn(Now, e) => e \in z.todo
    BY <1>3 DEF AllCached, Now, DirtyIn
  <2> QED
    BY ONLY <1>3, <2>1, <2>2, BackToDir
<1>5. IInv'
  BY <1>1, <1>2, <1>4 DEF IInv, StoreInv
<1>6. SavedOf(Now, z) = SavedOf(Now, sync)
  <2>1. sync.pc # "into" /\ z.pc # "into"
    BY <1>2, <1>3
  <2> QED
    BY ONLY <2>1, SavedSame
<1> QED
  BY <1>1, <1>2, <1>5, <1>6, SaveMaps

LEMMA SyncCleanMaps ==
  ASSUME IInv, NEW d \in Dir, SyncClean(d)
  PROVE  IInv' /\ [Promise!Next]_(Promise!vars)
<1>1. /\ sync.pc = "dir" /\ sync' = Done(d) /\ ~DirtyIn(Now, d)
      /\ Become(Now) /\ spoilt' = spoilt /\ told' = told
  BY DEF SyncClean, At, DirtyIn, Now, Become, memory
<1>2. Grows(Now, Now)
  BY GrowsSelf DEF IInv, StoreInv
<1> QED
  BY <1>1, <1>2, LeftMaps

LEMMA ExaminedIs ==
  ASSUME IInv, NEW d \in Dir, In(cache, d), NEW missed, NEW t, t = Examined(d, missed)
  PROVE  /\ Grows(Now, t) /\ Both(t) = Both(Now) /\ t.disk = disk
         /\ t.cache[d] \in NodeOf(d) /\ t.cache[d].loaded
<1> PICK l : l = Load(Now, d)
  OBVIOUS
<1>1. Proper(Now) /\ In(Now.cache, d) /\ Now.disk = disk
  BY DEF IInv, StoreInv, Now
<1>2. /\ Grows(Now, l) /\ Proper(l) /\ In(l.cache, d) /\ l.disk = disk /\ Both(l) = Both(Now)
      /\ l.cache[d].loaded
  BY <1>1, LoadGrows DEF Grows
<1>3. t = Rescan(l, d, missed)
  BY DEF Examined
<1>4. Grows(l, t) /\ t.disk = l.disk /\ Both(t) = Both(l) /\ t.cache[d].loaded
  BY ONLY <1>2, <1>3, d \in Dir, RescanGrows
<1>5. t.cache[d] \in NodeOf(d)
  BY <1>2, <1>4 DEF Grows, Proper, CacheOf, In
<1> QED
  BY <1>2, <1>4, <1>5, GrowsOn

LEMMA SyncUnlinkFailsMaps ==
  ASSUME IInv, NEW d \in Dir, SyncUnlinkFails(d)
  PROVE  IInv' /\ [Promise!Next]_(Promise!vars)
<1> PICK missed : Become(Examined(d, missed))
  BY DEF SyncUnlinkFails
<1> PICK t : t = Examined(d, missed)
  OBVIOUS
<1>1. /\ sync.pc = "dir" /\ sync' = Failed(d) /\ d \in sync.todo
      /\ Become(t) /\ spoilt' = spoilt /\ told' = told
  BY DEF SyncUnlinkFails, At, Due
<1>2. In(cache, d)
  BY <1>1 DEF IInv, StoreInv, SyncInv, Now
<1>3. Grows(Now, t) /\ Both(t) = Both(Now)
  BY <1>2, ExaminedIs
<1> QED
  BY <1>1, <1>3, LeftMaps

(* The end of a pass, and of the sync.                                      *)
LEMMA SyncEndMaps ==
  ASSUME IInv, SyncEnd
  PROVE  IInv' /\ [Promise!Next]_(Promise!vars)
<1> PICK z : z = sync'
  OBVIOUS
<1>1. /\ sync.pc = "dir" /\ sync.todo = {} /\ spoilt' = spoilt
      /\ Proper(Now) /\ StoreInv(Now, sync, spoilt)
  BY DEF SyncEnd, At, IInv, StoreInv
<1>2. sync \in SyncOf
  BY <1>1 DEF StoreInv, SyncInv
<1>3. CASE Again
  <2>1. z = [sync EXCEPT !.todo = AllCached, !.deletedSome = FALSE] /\ Now' = Now /\ told' = told
    BY <1>3 DEF SyncEnd, memory, Now
  <2>2. z \in SyncOf /\ z.pc = "dir" /\ ~z.oldExisted /\ z.todo = AllCached
    <3>1. ~sync.oldExisted
      BY <1>1 DEF StoreInv, SyncInv
    <3>2. AllCached \in SUBSET Dir
      BY DEF AllCached
    <3> QED
      BY ONLY <1>1, <1>2, <2>1, <3>1, <3>2 DEF SyncOf
  <2>3. /\ \A e \in z.todo : In(Now.cache, e)
        /\ \A e \in Dir : DirtyIn(Now, e) => e \in z.todo
    BY <2>2 DEF AllCached, Now, DirtyIn
  <2>4. SyncInv(Now, z)
    BY ONLY <2>2, <2>3, BackToDir
  <2>5. IInv'
    BY <1>1, <2>1, <2>4 DEF IInv, StoreInv
  <2>6. sync.pc # "into" /\ z.pc # "into"
    BY <1>1, <2>2
  <2>7. SavedOf(Now, z) = SavedOf(Now, sync)
    BY ONLY <2>6, SavedSame
  <2> QED
    BY <1>1, <2>1, <2>5, <2>7, StutterMaps
<1>4. CASE ~Again
  <2>1. z = Idle
    BY <1>4 DEF SyncEnd
  <2>2. z \in SyncOf /\ z.pc = "idle" /\ z.todo = {} /\ ~z.oldExisted
    BY <2>1 DEF Idle, SyncOf
  <2>3. \A t : SyncInv(t, z)
    BY <2>2 DEF SyncInv
  <2>4. sync.pc # "into" /\ z.pc # "into"
    BY <1>1, <2>2
  <2>5. CASE sync.list = NoFile
    <3>1. Now' = Now /\ told' = (IF sync.failed THEN "failed" ELSE "saved")
      BY <1>4, <2>5 DEF SyncEnd, memory, Now
    <3>2. IInv'
      BY <1>1, <2>3, <3>1 DEF IInv, StoreInv
    <3>3. SavedOf(Now, z) = SavedOf(Now, sync)
      BY ONLY <2>4, SavedSame
    <3>4. ASSUME ~sync.failed, NEW k \in Key \ spoilt PROVE SavedOf(Now, sync)[k] = MemOf(Now)[k]
      <4> PICK d \in Dir : d = DirOf[k]
        BY ParentType
      <4>1. ~sync.failed /\ ~sync.deletedSome
        BY <1>4, <3>4 DEF Again
      <4>2. ~DirtyIn(Now, d)
        BY <1>1, <4>1 DEF StoreInv, SyncInv
      <4>3. k \in KeysIn[d] \ spoilt
        BY ParentType
      <4>4. Held(Now, d)[k] = Content(Now.disk, d)[k]
        BY <1>1, <4>2, <4>3 DEF StoreInv, Agree
      <4> QED
        BY <1>1, <4>4 DEF SavedOf, MemOf, Aside
    <3>5. told' = "saved" => ~sync.failed
      BY <3>1
    <3>6. told' \in {"saved", "failed"}
      BY <3>1
    <3> QED
      BY <1>1, <3>1, <3>2, <3>3, <3>4, <3>5, <3>6, AnswerMaps
  <2>6. CASE sync.list # NoFile
    <3> PICK d \in Dir : d = sync.list
      BY <1>2, <2>6 DEF SyncOf
    <3> PICK there : there = Lookup(Now, d)
      OBVIOUS
    <3> PICK missed : Become(IF In(there.cache, d) THEN Rescan(there, d, missed) ELSE there)
      BY <1>4, <2>6 DEF SyncEnd, AnswerSubdirs
    <3> PICK t : t = IF In(there.cache, d) THEN Rescan(there, d, missed) ELSE there
      OBVIOUS
    <3>1. Become(t) /\ told' = told
      BY <1>4, <2>6 DEF SyncEnd
    <3>2. Grows(Now, there) /\ Both(there) \subseteq Both(Now) /\ Proper(there)
      BY <1>1, LookupGrows DEF Grows
    <3>3. Grows(Now, t) /\ Both(t) \subseteq Both(Now)
      <4>1. CASE In(there.cache, d)
        <5>1. /\ Grows(there, Rescan(there, d, missed))
              /\ Both(Rescan(there, d, missed)) = Both(there)
          BY <3>2, <4>1, RescanGrows
        <5> QED
          BY <3>2, <4>1, <5>1, GrowsOn
      <4>2. CASE ~In(there.cache, d)
        BY <3>2, <4>2
      <4> QED
        BY <4>1, <4>2
    <3>4. Now' = t
      BY <3>1, <3>3, Becomes DEF Grows
    <3>5. StoreInv(t, sync, spoilt) /\ MemOf(t) = MemOf(Now)
      BY <1>1, <3>3, GrowsKeeps
    <3>6. IInv'
      BY <1>1, <2>3, <3>4, <3>5 DEF IInv, StoreInv
    <3>7. SavedOf(t, z) = SavedOf(Now, sync)
      <4>1. \A e \in Dir : Content(t.disk, e) = Content(Now.disk, e)
        BY <3>3 DEF Grows
      <4> QED
        BY ONLY <2>4, <4>1, SavedSame
    <3> QED
      BY <1>1, <3>1, <3>4, <3>5, <3>6, <3>7, StutterMaps
  <2> QED
    BY <2>5, <2>6
<1> QED
  BY <1>3, <1>4

(* A directory that was deleted is forgotten.                               *)
LEMMA ForgetKeeps ==
  ASSUME NEW s, Proper(s), Both(s) = {}, NEW sp \in SUBSET Key, Agree(s, sp),
         NEW d \in Dir, Held(s, d) = EmptyFile(d), Content(s.disk, d) = EmptyFile(d),
         NEW z \in SyncOf, z.pc = "dir", ~z.oldExisted, z.deletedSome, d \notin z.todo,
         \A e \in z.todo : In(s.cache, e),
         NEW t, t = ForgetDir(s, d)
  PROVE  /\ StoreInv(t, z, sp) /\ MemOf(t) = MemOf(s)
         /\ \A e \in Dir : Content(t.disk, e) = Content(s.disk, e)
<1>0. Proper(s) /\ Held(s, d) = EmptyFile(d) /\ Content(s.disk, d) = EmptyFile(d) /\ t = ForgetDir(s, d)
  OBVIOUS
<1>1. Forgotten(s, t, d)
  BY ONLY <1>0, d \in Dir, ForgetIs
<1>2. /\ Proper(t) /\ Both(t) = {}
      /\ \A x \in Dir : Content(t.disk, x) = Content(s.disk, x) /\ Held(t, x) = Held(s, x)
      /\ \A x \in Dir \ {d} : /\ In(s.cache, x) => In(t.cache, x)
                              /\ DirtyIn(s, x) => DirtyIn(t, x)
  BY <1>1 DEF Forgotten
<1>3. Agree(t, sp)
  <2>1. \A k \in KeysIn[d] \ sp : Held(t, d)[k] = Content(t.disk, d)[k]
    BY <1>0, <1>2
  <2>2. Agree(s, sp)
    OBVIOUS
  <2> QED
    BY ONLY <1>2, <2>1, <2>2 DEF Agree
<1>4. SyncInv(t, z)
  <2>1. z.todo \subseteq Dir
    BY DEF SyncOf
  <2>2. \A e \in z.todo : In(t.cache, e)
    BY <1>2, <2>1
  <2> QED
    BY <2>2, BackToDir
<1>5. MemOf(t) = MemOf(s)
  BY <1>2, ParentType DEF MemOf
<1> QED
  BY <1>2, <1>3, <1>4, <1>5 DEF StoreInv

LEMMA UnlinkMaps ==
  ASSUME IInv, sync.pc = "dir", NEW d \in sync.todo, DirtyIn(Now, d),
         NEW s, Grows(Now, s), Both(s) \subseteq Both(Now),
         s.cache[d].loaded => Held(s, d) = EmptyFile(d),
         spoilt \subseteq spoilt', spoilt' \subseteq Key,
         \A k \in KeysIn[d] \ spoilt' : Held(s, d)[k] = Nothing,
         Unlinked(s, d), told' = told
  PROVE  IInv' /\ [Promise!Next]_(Promise!vars)
<1> PICK z : z = sync'
  OBVIOUS
<1> PICK sp : sp = spoilt'
  OBVIOUS
<1> PICK g : g = Gone(s, d)
  OBVIOUS
<1>1. StoreInv(s, sync, spoilt) /\ MemOf(s) = MemOf(Now) /\ SavedOf(s, sync) = SavedOf(Now, sync)
  BY GrowsKeeps DEF IInv
<1>2. /\ sync \in SyncOf /\ d \in Dir /\ Proper(s) /\ Both(s) = {} /\ ~sync.oldExisted
      /\ \A e \in sync.todo : In(s.cache, e)
  BY <1>1 DEF StoreInv, SyncInv, SyncOf
<1>3. DirtyIn(s, d)
  BY <1>2 DEF Grows
<1>4. /\ FilesSetTo(s, g, d, g.disk[d]) /\ g.disk[d].file = NoFile
      /\ Content(g.disk, d) = EmptyFile(d) /\ Held(g, d) = EmptyFile(d)
  <2>1. /\ FilesSetTo(s, g, d, g.disk[d]) /\ g.disk[d].file = NoFile
        /\ Content(g.disk, d) = EmptyFile(d)
        /\ Held(g, d) = IF In(s.cache, d) /\ s.cache[d].loaded THEN Held(s, d) ELSE EmptyFile(d)
    BY <1>2, GoneIs
  <2> QED
    BY <2>1
<1>5. /\ Proper(g) /\ g.cache = s.cache /\ Both(g) = {}
      /\ \A e \in Dir \ {d} : Held(g, e) = Held(s, e) /\ Content(g.disk, e) = Content(s.disk, e)
      /\ \A e \in Dir : DirtyIn(g, e) <=> DirtyIn(s, e)
  BY <1>2, <1>4 DEF FilesSetTo
<1>6. Agree(g, sp)
  BY <1>1, <1>3, <1>5 DEF StoreInv, Agree
<1>7. \A k \in Key \ sp : /\ MemOf(g)[k] = MemOf(Now)[k]
                          /\ Content(g.disk, DirOf[k])[k] \in {SavedOf(Now, sync)[k], MemOf(Now)[k]}
  <2> SUFFICES ASSUME NEW k \in Key \ sp
               PROVE  /\ Held(g, DirOf[k])[k] = Held(s, DirOf[k])[k]
                      /\ Content(g.disk, DirOf[k])[k] \in {Content(s.disk, DirOf[k])[k], Held(s, DirOf[k])[k]}
    BY <1>1 DEF MemOf, SavedOf, Aside
  <2> PICK e \in Dir : e = DirOf[k]
    BY ParentType
  <2>1. CASE e = d
    <3>1. k \in KeysIn[d] /\ k \notin spoilt'
      BY <2>1, ParentType
    <3>2. Held(s, d)[k] = Nothing /\ EmptyFile(d)[k] = Nothing
      BY <3>1 DEF EmptyFile
    <3> QED
      BY <1>4, <2>1, <3>1, <3>2
  <2>2. CASE e # d
    BY <1>5, <2>2
  <2> QED
    BY <2>1, <2>2
<1>9. CASE d # Root
  <2>1. Become(g) /\ z = [sync EXCEPT !.pc = "rmdir", !.dir = d]
    BY <1>9 DEF Unlinked, Gone, Go
  <2>2. Now' = g
    BY <1>5, <2>1, Becomes
  <2>3. /\ z \in SyncOf /\ z.pc = "rmdir" /\ z.dir = d /\ z.todo = sync.todo /\ ~z.oldExisted
        /\ z.failed = sync.failed /\ z.deletedSome = sync.deletedSome
    BY ONLY <1>2, <2>1 DEF SyncOf
  <2>4. ~sync.failed /\ ~sync.deletedSome => \A e \in Dir : DirtyIn(s, e) => e \in sync.todo
    BY <1>1 DEF StoreInv, SyncInv
  <2>5. SyncInv(g, z)
    BY ONLY <1>2, <1>3, <1>4, <1>5, <1>9, <2>3, <2>4, d \in sync.todo DEF SyncInv
  <2>6. IInv'
    BY <1>5, <1>6, <2>2, <2>5 DEF IInv, StoreInv
  <2>7. \A k \in Key : SavedOf(g, z)[k] = Content(g.disk, DirOf[k])[k]
    BY <2>3 DEF SavedOf, Aside
  <2> QED
    BY <1>7, <2>2, <2>6, <2>7, SaveMaps
<1>10. CASE d = Root
  <2> PICK f : f = ForgetDir(g, d)
    OBVIOUS
  <2>1. Become(f) /\ z = Deleted(d)
    BY <1>10 DEF Unlinked, Gone
  <2>2. z \in SyncOf /\ z.pc = "dir" /\ ~z.oldExisted /\ z.deletedSome /\ z.todo = sync.todo \ {d}
    BY <1>2, <2>1, DoneIs
  <2>3. \A e \in z.todo : In(g.cache, e)
    BY <1>2, <1>5, <2>2
  <2>4. d \notin z.todo /\ sp \in SUBSET Key
    BY <2>2
  <2>5. /\ StoreInv(f, z, sp) /\ MemOf(f) = MemOf(g)
        /\ \A e \in Dir : Content(f.disk, e) = Content(g.disk, e)
    BY ONLY <1>2, <1>4, <1>5, <1>6, <2>2, <2>3, <2>4, f = ForgetDir(g, d), ForgetKeeps
  <2>6. Now' = f
    BY <2>1, <2>5, Becomes DEF StoreInv
  <2>7. IInv'
    BY <2>5, <2>6 DEF IInv
  <2>8. \A k \in Key : SavedOf(f, z)[k] = Content(g.disk, DirOf[k])[k]
    BY <2>2, <2>5, ParentType DEF SavedOf, Aside
  <2> QED
    BY <1>7, <2>5, <2>6, <2>7, <2>8, SaveMaps
<1> QED
  BY <1>9, <1>10

LEMMA SyncUnlinkMaps ==
  ASSUME IInv, NEW d \in Dir, SyncUnlink(d)
  PROVE  IInv' /\ [Promise!Next]_(Promise!vars)
<1>1. /\ sync.pc = "dir" /\ d \in sync.todo /\ told' = told /\ DirtyIn(Now, d) /\ In(cache, d)
      /\ Proper(Now) /\ spoilt \subseteq Key
  <2>1. sync.pc = "dir" /\ d \in sync.todo /\ told' = told /\ cache[d].dirty
    BY DEF SyncUnlink, At, Due
  <2> QED
    BY <2>1 DEF IInv, StoreInv, SyncInv, DirtyIn, Now
<1>2. ASSUME NEW missed, NEW t, t = Examined(d, missed), Useless(t.cache[d]), Unlinked(t, d),
             UNCHANGED spoilt
      PROVE  IInv' /\ [Promise!Next]_(Promise!vars)
  <2>1. /\ Grows(Now, t) /\ Both(t) = Both(Now) /\ t.disk = disk
        /\ t.cache[d] \in NodeOf(d) /\ t.cache[d].loaded
    BY <1>1, <1>2, ExaminedIs
  <2>2. In(t.cache, d)
    BY <2>1, NodeFacts DEF In
  <2>3. t.cache[d].entries \in EntriesOf(d) /\ Held(t, d) = t.cache[d].entries
    BY <2>1, <2>2 DEF NodeOf, Held, Entries
  <2>4. \A k \in KeysIn[d] : Held(t, d)[k] = Nothing
    BY <1>2, <2>3 DEF Useless, EntriesOf
  <2>5. Held(t, d) = EmptyFile(d)
    BY <2>3, <2>4 DEF EmptyFile, EntriesOf
  <2> QED
    BY <1>1, <1>2, <2>1, <2>4, <2>5, UnlinkMaps
<1>3. CASE /\ ~cache[d].loaded /\ Unlinked(Now, d) /\ Exists(disk, d)
           /\ spoilt' = spoilt \cup {k \in KeysIn[d] : disk[d].file[k] # Nothing}
  <2>1. Grows(Now, Now)
    BY <1>1, GrowsSelf
  <2>2. ~Now.cache[d].loaded /\ Held(Now, d) = disk[d].file
    BY <1>1, <1>3 DEF Held, Entries, Content, Now
  <2>3. spoilt \subseteq spoilt' /\ spoilt' \subseteq Key
    BY <1>1, <1>3, ParentType
  <2>4. \A k \in KeysIn[d] \ spoilt' : Held(Now, d)[k] = Nothing
    BY <1>3, <2>2
  <2> QED
    BY <1>1, <1>3, <2>1, <2>2, <2>3, <2>4, UnlinkMaps
<1>4. CASE \E missed \in Missable(Now, d) : /\ Useless(Examined(d, missed).cache[d])
                                            /\ Unlinked(Examined(d, missed), d)
                                            /\ UNCHANGED spoilt
  BY <1>2, <1>4
<1> QED
  BY <1>3, <1>4 DEF SyncUnlink

(* The files of a directory change while what it holds is in memory and to   *)
(* be saved.                                                                *)
LEMMA FilesKeep ==
  ASSUME NEW s, NEW y, NEW sp, StoreInv(s, y, sp), NEW d \in Dir, DirtyIn(s, d),
         NEW f \in FilesOf(d), f.file = NoFile \/ s.cache[d].loaded,
         NEW t, t = SetFiles(s, d, f),
         Held(s, d) = EmptyFile(d) \/ s.cache[d].loaded,
         NEW sp2 \in SUBSET Key, sp \subseteq sp2
  PROVE  /\ FilesSetTo(s, t, d, f) /\ Proper(t) /\ Both(t) = {} /\ Agree(t, sp2)
         /\ MemOf(t) = MemOf(s) /\ Held(t, d) = Held(s, d) /\ DirtyIn(t, d)
<1>1. Proper(s) /\ Both(s) = {} /\ In(s.cache, d) /\ Agree(s, sp)
  BY DEF StoreInv, DirtyIn
<1>2. d \notin s.nonexistent
  BY <1>1 DEF Both
<1>3. FilesSetTo(s, t, d, f)
  BY <1>1, <1>2, FilesSet
<1>4. /\ Proper(t) /\ Both(t) = {} /\ t.cache = s.cache /\ t.disk[d] = f
      /\ \A e \in Dir \ {d} : Held(t, e) = Held(s, e) /\ Content(t.disk, e) = Content(s.disk, e)
      /\ \A e \in Dir : DirtyIn(t, e) <=> DirtyIn(s, e)
  BY <1>1, <1>3 DEF FilesSetTo
<1>5. Held(t, d) = Held(s, d)
  <2>1. CASE s.cache[d].loaded
    BY ONLY <1>1, <1>4, <2>1 DEF Held, Entries
  <2>2. CASE ~s.cache[d].loaded
    <3>1. Held(s, d) = EmptyFile(d) /\ f.file = NoFile
      BY <2>2
    <3>2. Content(t.disk, d) = EmptyFile(d)
      BY ONLY <1>4, <3>1 DEF Content, Exists
    <3>3. Held(t, d) = Content(t.disk, d)
      BY ONLY <1>1, <1>4, <2>2 DEF Held, Entries
    <3> QED
      BY <3>1, <3>2, <3>3
  <2> QED
    BY <2>1, <2>2
<1>6. Agree(t, sp2)
  <2>1. DirtyIn(t, d)
    BY <1>4
  <2>2. sp \subseteq sp2
    OBVIOUS
  <2> QED
    BY ONLY <1>1, <1>4, <2>1, <2>2 DEF Agree
<1>7. MemOf(t) = MemOf(s)
  BY <1>4, <1>5, ParentType DEF MemOf
<1> QED
  BY <1>3, <1>4, <1>5, <1>6, <1>7

LEMMA SyncRmdirMaps ==
  ASSUME IInv, SyncRmdir
  PROVE  IInv' /\ [Promise!Next]_(Promise!vars)
<1> PICK z : z = sync'
  OBVIOUS
<1> PICK d : d = sync.dir
  OBVIOUS
<1>1. /\ sync.pc = "rmdir" /\ told' = told /\ spoilt' = spoilt
      /\ StoreInv(Now, sync, spoilt)
  BY DEF SyncRmdir, At, IInv
<1>2. /\ sync \in SyncOf /\ d \in sync.todo /\ DirtyIn(Now, d) /\ d \in Dir
      /\ Held(Now, d) = EmptyFile(d) /\ Now.disk[d].file = NoFile
      /\ \A e \in sync.todo : In(Now.cache, e)
  <2>1. SyncInv(Now, sync)
    BY <1>1 DEF StoreInv
  <2> QED
    BY <1>1, <2>1 DEF SyncInv, SyncOf
<1>3. /\ \A x \in {Failed(d), Deleted(d)} : /\ x \in SyncOf /\ x.pc = "dir" /\ ~x.oldExisted
                                            /\ x.todo = sync.todo \ {d}
      /\ Failed(d).failed /\ Deleted(d).deletedSome
  BY <1>2, DoneIs
<1>4. \A e \in sync.todo \ {d} : In(Now.cache, e)
  BY <1>2
<1>5. CASE Become(ForgetDir(SetFiles(Now, d, NoDir), d)) /\ z = Deleted(d)
  <2> PICK g : g = SetFiles(Now, d, NoDir)
    OBVIOUS
  <2> PICK t : t = ForgetDir(g, d)
    OBVIOUS
  <2>1. NoDir \in FilesOf(d) /\ NoDir.file = NoFile
    BY DEF NoDir, FilesOf, File
  <2>2. spoilt \in SUBSET Key
    BY <1>1 DEF StoreInv
  <2>3. /\ FilesSetTo(Now, g, d, NoDir) /\ Proper(g) /\ Both(g) = {} /\ Agree(g, spoilt)
        /\ MemOf(g) = MemOf(Now) /\ Held(g, d) = Held(Now, d)
    BY <1>1, <1>2, <2>1, <2>2, FilesKeep
  <2>4. g.cache = Now.cache /\ g.disk[d] = NoDir
        /\ \A e \in Dir \ {d} : Content(g.disk, e) = Content(Now.disk, e)
    BY <2>3 DEF FilesSetTo
  <2>5. Content(g.disk, d) = EmptyFile(d) /\ Content(Now.disk, d) = EmptyFile(d)
    BY <1>2, <2>1, <2>4 DEF Content, Exists
  <2>6. /\ z \in SyncOf /\ z.pc = "dir" /\ ~z.oldExisted /\ z.deletedSome /\ d \notin z.todo
        /\ \A e \in z.todo : In(g.cache, e)
    BY <1>3, <1>4, <1>5, <2>4
  <2>7. Held(g, d) = EmptyFile(d)
    BY <1>2, <2>3
  <2>8. /\ StoreInv(t, z, spoilt) /\ MemOf(t) = MemOf(g)
        /\ \A e \in Dir : Content(t.disk, e) = Content(g.disk, e)
    BY ONLY <1>2, <2>2, <2>3, <2>5, <2>6, <2>7, t = ForgetDir(g, d), ForgetKeeps
  <2>9. Now' = t
    BY <1>5, <2>8, Becomes DEF StoreInv
  <2>10. IInv'
    BY <1>1, <2>8, <2>9 DEF IInv
  <2>11. \A e \in Dir : Content(t.disk, e) = Content(Now.disk, e)
    BY <2>4, <2>5, <2>8
  <2>12. SavedOf(t, z) = SavedOf(Now, sync)
    <3>1. sync.pc # "into" /\ z.pc # "into"
      BY <1>1, <2>6
    <3> QED
      BY ONLY <2>11, <3>1, SavedSame
  <2> QED
    BY <1>1, <2>3, <2>8, <2>9, <2>10, <2>12, StutterMaps
<1>6. CASE Become(Now) /\ z = Failed(d)
  <2>1. Now' = Now
    BY <1>1, <1>6, Becomes DEF StoreInv
  <2>2. z \in SyncOf /\ z.pc = "dir" /\ ~z.oldExisted /\ z.failed /\ z.todo = sync.todo \ {d}
    BY <1>3, <1>6
  <2>3. SyncInv(Now, z)
    BY <1>4, <2>2, BackToDir
  <2>4. IInv'
    BY <1>1, <2>1, <2>3 DEF IInv, StoreInv
  <2>5. SavedOf(Now, z) = SavedOf(Now, sync)
    <3>1. sync.pc # "into" /\ z.pc # "into"
      BY <1>1, <2>2
    <3> QED
      BY ONLY <3>1, SavedSame
  <2> QED
    BY <1>1, <2>1, <2>4, <2>5, StutterMaps
<1> QED
  BY <1>5, <1>6 DEF SyncRmdir, This

LEMMA TmpGrows ==
  ASSUME NEW s, Proper(s), NEW d \in Dir, NEW left \in BOOLEAN,
         NEW t, t = SetFiles(s, d, [s.disk[d] EXCEPT !.tmp = left])
  PROVE  Grows(s, t) /\ Both(t) = Both(s) /\ t.cache = s.cache
<1> PICK f : f = [s.disk[d] EXCEPT !.tmp = left]
  OBVIOUS
<1>1. f \in FilesOf(d) /\ f.file = s.disk[d].file /\ f.old = s.disk[d].old
  BY DEF Proper, DiskOf, FilesOf, File
<1>2. d \in s.nonexistent => f.file \in {NoFile, EmptyFile(d)}
  BY <1>1 DEF Proper, Content, Exists
<1>3. FilesSetTo(s, t, d, f)
  BY <1>1, <1>2, FilesSet
<1>4. /\ Proper(t) /\ t.cache = s.cache /\ Both(t) = Both(s) /\ t.disk[d] = f
      /\ \A e \in Dir \ {d} : /\ t.disk[e] = s.disk[e] /\ Held(t, e) = Held(s, e)
                              /\ Content(t.disk, e) = Content(s.disk, e)
      /\ \A e \in Dir : DirtyIn(t, e) <=> DirtyIn(s, e)
  BY <1>3 DEF FilesSetTo
<1>5. Content(t.disk, d) = Content(s.disk, d)
  BY ONLY <1>1, <1>4 DEF Content, Exists
<1>6. Held(t, d) = Held(s, d)
  BY ONLY <1>4, <1>5 DEF Held, Entries
<1>7. \A e \in Dir : /\ Content(t.disk, e) = Content(s.disk, e) /\ t.disk[e].old = s.disk[e].old
                     /\ Held(t, e) = Held(s, e)
  BY ONLY <1>1, <1>4, <1>5, <1>6
<1> QED
  BY ONLY <1>4, <1>7 DEF Grows

\* The first file is written, or is not, over what is read.
Wrote(d, s) ==
  \/ /\ Become(SetFiles(s, d, [disk[d] EXCEPT !.tmp = TRUE]))
     /\ sync' = [sync EXCEPT !.pc = "aside", !.dir = d]
  \/ /\ \E left \in {TRUE, disk[d].tmp} : Become(SetFiles(s, d, [disk[d] EXCEPT !.tmp = left]))
     /\ sync' = Failed(d)

LEMMA SyncWriteMaps ==
  ASSUME IInv, NEW d \in Dir, SyncWrite(d)
  PROVE  IInv' /\ [Promise!Next]_(Promise!vars)
<1> PICK z : z = sync'
  OBVIOUS
<1> PICK missed \in Missable(Now, d) : Wrote(d, Examined(d, missed))
  BY DEF SyncWrite, Wrote, Go
<1> PICK s : s = Examined(d, missed)
  OBVIOUS
<1>1. sync.pc = "dir" /\ d \in sync.todo /\ told' = told /\ spoilt' = spoilt /\ cache[d].dirty
  BY DEF SyncWrite, At, Due
<1>2. /\ StoreInv(Now, sync, spoilt) /\ sync \in SyncOf /\ DirtyIn(Now, d) /\ In(cache, d)
  BY <1>1 DEF IInv, StoreInv, SyncInv, DirtyIn, Now
<1>3. /\ Grows(Now, s) /\ Both(s) = Both(Now) /\ s.disk = disk
      /\ s.cache[d] \in NodeOf(d) /\ s.cache[d].loaded /\ Proper(s)
  BY <1>2, ExaminedIs DEF Grows
<1>4. disk[d].tmp \in BOOLEAN
  BY <1>3 DEF Proper, DiskOf, FilesOf
<1>5. PICK left \in BOOLEAN : /\ Become(SetFiles(s, d, [s.disk[d] EXCEPT !.tmp = left]))
                              /\ z = Failed(d) \/ z = [sync EXCEPT !.pc = "aside", !.dir = d]
  BY <1>3, <1>4 DEF Wrote
<1> PICK t : t = SetFiles(s, d, [s.disk[d] EXCEPT !.tmp = left])
  OBVIOUS
<1>6. Grows(s, t) /\ Both(t) = Both(s) /\ t.cache = s.cache
  BY <1>3, TmpGrows
<1>7. Grows(Now, t) /\ Both(t) \subseteq Both(Now)
  BY <1>3, <1>6, GrowsOn
<1>8. CASE z = Failed(d)
  BY <1>1, <1>5, <1>7, <1>8, LeftMaps
<1>9. CASE z = [sync EXCEPT !.pc = "aside", !.dir = d]
  <2>1. StoreInv(t, sync, spoilt) /\ MemOf(t) = MemOf(Now)
    BY <1>1, <1>2, <1>7, GrowsKeeps
  <2>2. Now' = t
    BY <1>5, <2>1, Becomes DEF StoreInv
  <2>3. /\ z \in SyncOf /\ z.pc = "aside" /\ z.dir = d /\ z.todo = sync.todo
        /\ z.failed = sync.failed /\ z.deletedSome = sync.deletedSome
        /\ z.oldExisted = sync.oldExisted
    BY ONLY <1>2, <1>9, d \in Dir DEF SyncOf
  <2>4. SyncInv(t, sync) /\ DirtyIn(t, d) /\ t.cache[d].loaded
    BY <1>2, <1>3, <1>6, <1>7, <2>1 DEF StoreInv, Grows
  <2>5. SyncInv(t, z)
    BY ONLY <1>1, <2>3, <2>4 DEF SyncInv
  <2>6. IInv'
    BY <1>1, <2>1, <2>2, <2>5 DEF IInv, StoreInv
  <2>7. SavedOf(t, z) = SavedOf(Now, sync)
    <3>1. sync.pc # "into" /\ z.pc # "into"
      BY <1>1, <2>3
    <3>2. \A e \in Dir : Content(t.disk, e) = Content(Now.disk, e)
      BY <1>7 DEF Grows
    <3> QED
      BY ONLY <3>1, <3>2, SavedSame
  <2> QED
    BY <1>1, <2>1, <2>2, <2>6, <2>7, StutterMaps
<1> QED
  BY <1>5, <1>8, <1>9

(* The directory at hand.                                                   *)
LEMMA AtHand ==
  ASSUME IInv, sync.pc \in {"aside", "into", "drop"}, NEW d, d = sync.dir
  PROVE  /\ StoreInv(Now, sync, spoilt) /\ sync \in SyncOf /\ Proper(Now) /\ Both(Now) = {}
         /\ spoilt \in SUBSET Key
         /\ d \in Dir /\ d \in sync.todo /\ DirtyIn(Now, d) /\ In(cache, d)
         /\ cache[d] \in NodeOf(d) /\ cache[d].loaded /\ cache[d].entries \in EntriesOf(d)
         /\ Held(Now, d) = cache[d].entries
         /\ disk[d] \in FilesOf(d)
         /\ \A e \in sync.todo : In(cache, e)
         /\ ~sync.failed /\ ~sync.deletedSome => \A e \in Dir : DirtyIn(Now, e) => e \in sync.todo
<1>1. StoreInv(Now, sync, spoilt) /\ SyncInv(Now, sync) /\ Proper(Now) /\ Both(Now) = {} /\ spoilt \in SUBSET Key
  BY DEF IInv, StoreInv
<1>2. Now.cache = cache /\ Now.disk = disk
  BY DEF Now
<1>3. /\ sync \in SyncOf /\ d \in Dir /\ d \in sync.todo /\ DirtyIn(Now, d) /\ cache[d].loaded
      /\ \A e \in sync.todo : In(cache, e)
      /\ ~sync.failed /\ ~sync.deletedSome => \A e \in Dir : DirtyIn(Now, e) => e \in sync.todo
  BY <1>1, <1>2 DEF SyncInv, SyncOf
<1>4. In(cache, d)
  BY <1>2, <1>3 DEF DirtyIn
<1>5. cache[d] \in NodeOf(d) /\ disk[d] \in FilesOf(d)
  BY <1>1, <1>2, <1>3, <1>4 DEF Proper, CacheOf, DiskOf, In
<1>6. cache[d].entries \in EntriesOf(d)
  BY <1>3, <1>5 DEF NodeOf
<1>7. Held(Now, d) = cache[d].entries
  BY <1>2, <1>3, <1>4 DEF Held, Entries
<1> QED
  BY <1>1, <1>3, <1>4, <1>5, <1>6, <1>7

LEMMA SyncAsideMaps ==
  ASSUME IInv, SyncAside
  PROVE  IInv' /\ [Promise!Next]_(Promise!vars)
<1> PICK z : z = sync'
  OBVIOUS
<1> PICK d : d = sync.dir
  OBVIOUS
<1>0. sync.pc = "aside" /\ told' = told /\ spoilt' = spoilt
  BY DEF SyncAside, At
<1>1. /\ StoreInv(Now, sync, spoilt) /\ sync \in SyncOf /\ Proper(Now)
      /\ spoilt \in SUBSET Key
      /\ d \in Dir /\ d \in sync.todo /\ DirtyIn(Now, d)
      /\ cache[d].loaded /\ disk[d] \in FilesOf(d)
      /\ \A e \in sync.todo : In(cache, e)
      /\ ~sync.failed /\ ~sync.deletedSome => \A e \in Dir : DirtyIn(Now, e) => e \in sync.todo
  BY <1>0, AtHand
<1>2. Now.cache = cache /\ Now.disk = disk
  BY DEF Now
<1>3. SyncInv(Now, sync) /\ ~sync.oldExisted
  BY <1>0, <1>1 DEF StoreInv, SyncInv
<1>4. CASE ~Exists(disk, d) /\ z = [sync EXCEPT !.pc = "into"] /\ Become(Now)
  <2>1. Now' = Now
    BY <1>1, <1>4, Becomes
  <2>2. /\ z \in SyncOf /\ z.pc = "into" /\ z.dir = d /\ z.todo = sync.todo
        /\ z.failed = sync.failed /\ z.deletedSome = sync.deletedSome
        /\ z.oldExisted = sync.oldExisted
    BY ONLY <1>1, <1>4, d = sync.dir DEF SyncOf
  <2>3. Now.disk[d].file = NoFile
    BY <1>2, <1>4 DEF Exists
  <2>4. SyncInv(Now, z)
    BY ONLY <1>0, <1>1, <1>2, <1>3, <2>2, <2>3 DEF SyncInv
  <2>5. IInv'
    BY <1>0, <1>1, <2>1, <2>4 DEF IInv, StoreInv
  <2>6. SavedOf(Now, z) = SavedOf(Now, sync)
    BY <1>3, <2>2 DEF SavedOf, Aside
  <2> QED
    BY <1>0, <2>1, <2>5, <2>6, StutterMaps
<1>5. CASE /\ Exists(disk, d) /\ z = [sync EXCEPT !.pc = "into", !.oldExisted = TRUE]
           /\ Become(SetFiles(Now, d, [disk[d] EXCEPT !.old = disk[d].file, !.file = NoFile]))
  <2> PICK f : f = [disk[d] EXCEPT !.old = disk[d].file, !.file = NoFile]
    OBVIOUS
  <2> PICK t : t = SetFiles(Now, d, f)
    OBVIOUS
  <2>1. f \in FilesOf(d) /\ f.file = NoFile /\ f.old = disk[d].file
    BY <1>1 DEF FilesOf, File
  <2>2. f.file = NoFile \/ Now.cache[d].loaded
    BY <2>1
  <2>3. Held(Now, d) = EmptyFile(d) \/ Now.cache[d].loaded
    BY <1>1, <1>2
  <2>4. /\ FilesSetTo(Now, t, d, f) /\ Proper(t) /\ Both(t) = {} /\ Agree(t, spoilt)
        /\ MemOf(t) = MemOf(Now) /\ DirtyIn(t, d)
    BY ONLY <1>1, <2>1, <2>2, <2>3, t = SetFiles(Now, d, f), FilesKeep
  <2>5. /\ t.cache = cache /\ t.disk[d] = f
        /\ \A e \in Dir \ {d} : Content(t.disk, e) = Content(disk, e)
        /\ \A e \in Dir : DirtyIn(t, e) <=> DirtyIn(Now, e)
    BY <1>2, <2>4 DEF FilesSetTo
  <2>6. Now' = t
    BY <1>5, <2>4, Becomes
  <2>7. /\ z \in SyncOf /\ z.pc = "into" /\ z.dir = d /\ z.todo = sync.todo
        /\ z.failed = sync.failed /\ z.deletedSome = sync.deletedSome /\ z.oldExisted
    BY ONLY <1>1, <1>5, d = sync.dir DEF SyncOf
  <2>8. t.disk[d].file = NoFile /\ t.disk[d].old # NoFile
    BY <1>5, <2>1, <2>5 DEF Exists
  <2>9. SyncInv(t, z)
    BY ONLY <1>1, <2>4, <2>5, <2>7, <2>8 DEF SyncInv
  <2>10. IInv'
    BY <1>0, <1>1, <2>4, <2>6, <2>9 DEF IInv, StoreInv
  <2>11. SavedOf(t, z) = SavedOf(Now, sync)
    <3>1. ASSUME NEW k \in Key
          PROVE  (IF Aside(z, DirOf[k]) THEN t.disk[DirOf[k]].old[k] ELSE Content(t.disk, DirOf[k])[k])
                   = Content(disk, DirOf[k])[k]
      <4> PICK e \in Dir : e = DirOf[k]
        BY ParentType
      <4>1. CASE e = d
        <5>1. Aside(z, d) /\ t.disk[d].old = Content(disk, d)
          BY <1>5, <2>1, <2>5, <2>7 DEF Aside, Content
        <5> QED
          BY <4>1, <5>1
      <4>2. CASE e # d
        BY <2>5, <2>7, <4>2 DEF Aside
      <4> QED
        BY <4>1, <4>2
    <3>2. SavedOf(Now, sync) = [k \in Key |-> Content(disk, DirOf[k])[k]]
      BY <1>2, <1>3 DEF SavedOf, Aside
    <3>3. SavedOf(t, z) = [k \in Key |-> Content(disk, DirOf[k])[k]]
      BY ONLY <3>1 DEF SavedOf
    <3> QED
      BY ONLY <3>2, <3>3
  <2> QED
    BY <1>0, <2>4, <2>6, <2>10, <2>11, StutterMaps
<1>6. CASE z = Failed(d) /\ Become(Now)
  <2>1. Now' = Now
    BY <1>1, <1>6, Becomes
  <2>2. z \in SyncOf /\ z.pc = "dir" /\ ~z.oldExisted /\ z.failed /\ z.todo = sync.todo \ {d}
    BY <1>1, <1>6, DoneIs
  <2>3. \A e \in z.todo : In(Now.cache, e)
    BY <1>1, <1>2, <2>2
  <2>4. SyncInv(Now, z)
    BY <2>2, <2>3, BackToDir
  <2>5. IInv'
    BY <1>0, <1>1, <2>1, <2>4 DEF IInv, StoreInv
  <2>6. SavedOf(Now, z) = SavedOf(Now, sync)
    BY <1>3, <2>2 DEF SavedOf, Aside
  <2> QED
    BY <1>0, <2>1, <2>5, <2>6, StutterMaps
<1>7. \/ ~Exists(disk, d) /\ z = [sync EXCEPT !.pc = "into"] /\ Become(Now)
      \/ /\ Exists(disk, d) /\ z = [sync EXCEPT !.pc = "into", !.oldExisted = TRUE]
         /\ Become(SetFiles(Now, d, [disk[d] EXCEPT !.old = disk[d].file, !.file = NoFile]))
      \/ z = Failed(d) /\ Become(Now)
  BY DEF SyncAside, This, Goto
<1> QED
  BY <1>4, <1>5, <1>6, <1>7

(* What was saved is marked clean.                                          *)
LEMMA NotDirtyKeeps ==
  ASSUME NEW s, Proper(s), Both(s) = {}, NEW sp \in SUBSET Key, Agree(s, sp),
         NEW d \in Dir, In(s.cache, d), s.cache[d].loaded, s.disk[d].file = s.cache[d].entries,
         NEW z \in SyncOf, z.pc = "dir", ~z.oldExisted,
         \A e \in z.todo : In(s.cache, e),
         ~z.failed /\ ~z.deletedSome => \A e \in Dir : DirtyIn(s, e) => e \in z.todo \cup {d},
         NEW t, t = NotDirty(s, d)
  PROVE  StoreInv(t, z, sp) /\ MemOf(t) = MemOf(s) /\ t.disk = s.disk
<1> PICK n : n = [s.cache[d] EXCEPT !.dirty = FALSE]
  OBVIOUS
<1>1. s.cache[d] \in NodeOf(d)
  BY DEF Proper, CacheOf, In
<1>2. n \in NodeOf(d) /\ ~n.dirty /\ n.loaded /\ n.entries = s.cache[d].entries
  BY <1>1 DEF NodeOf
<1>3. DirSetTo(s, t, d, n)
  <2>1. n \in NodeOf(d) \cup {Absent} /\ t = SetDir(s, d, n) /\ Proper(s)
    BY <1>2 DEF NotDirty
  <2> QED
    BY ONLY <2>1, d \in Dir, DirSet
<1>4. /\ Proper(t) /\ t.disk = s.disk /\ t.nonexistent = s.nonexistent /\ t.cache[d] = n
      /\ \A e \in Dir \ {d} : /\ t.cache[e] = s.cache[e] /\ Held(t, e) = Held(s, e)
                              /\ DirtyIn(t, e) <=> DirtyIn(s, e)
  BY <1>3 DEF DirSetTo
<1>5. In(t.cache, d)
  <2>1. n # Absent
    BY ONLY <1>2, d \in Dir, NodeFacts
  <2>2. t.cache[d] = n
    BY <1>4
  <2> QED
    BY ONLY <2>1, <2>2 DEF In
<1>6. /\ Held(t, d) = n.entries /\ Held(s, d) = n.entries /\ ~DirtyIn(t, d)
  BY <1>2, <1>4, <1>5 DEF Held, Entries, DirtyIn
<1>7. Content(t.disk, d) = n.entries
  <2>1. n.entries \in EntriesOf(d) /\ NoFile \notin EntriesOf(d)
    BY <1>2, ContentType DEF NodeOf, Proper
  <2>2. t.disk[d].file = n.entries
    BY <1>2, <1>4
  <2> QED
    BY ONLY <2>1, <2>2 DEF Content, Exists
<1>8. Agree(t, sp)
  <2>1. Agree(s, sp)
    OBVIOUS
  <2> QED
    BY ONLY <1>4, <1>6, <1>7, <2>1 DEF Agree
<1>9. \A e \in Dir : In(t.cache, e) <=> In(s.cache, e)
  BY <1>4, <1>5 DEF In
<1>10. Both(t) = {}
  <2>1. Both(s) = {} /\ s.nonexistent \subseteq Dir
    BY DEF Proper
  <2> QED
    BY ONLY <1>4, <1>9, <2>1 DEF Both
<1>11. SyncInv(t, z)
  <2>1. \A e \in z.todo : In(t.cache, e)
    BY <1>9 DEF SyncOf
  <2>2. ~z.failed /\ ~z.deletedSome => \A e \in Dir : DirtyIn(t, e) => e \in z.todo
    BY <1>4, <1>6
  <2> QED
    BY <2>1, <2>2, BackToDir
<1>12. MemOf(t) = MemOf(s)
  BY <1>4, <1>6, ParentType DEF MemOf
<1> QED
  BY <1>4, <1>8, <1>10, <1>11, <1>12 DEF StoreInv

LEMMA SyncDropMaps ==
  ASSUME IInv, SyncDrop
  PROVE  IInv' /\ [Promise!Next]_(Promise!vars)
<1> PICK z : z = sync'
  OBVIOUS
<1> PICK d : d = sync.dir
  OBVIOUS
<1>0. sync.pc = "drop" /\ told' = told /\ spoilt' = spoilt /\ z = Done(d)
  BY DEF SyncDrop, At, This
<1>1. /\ StoreInv(Now, sync, spoilt) /\ sync \in SyncOf /\ Proper(Now) /\ Both(Now) = {}
      /\ spoilt \in SUBSET Key /\ Agree(Now, spoilt)
      /\ d \in Dir /\ d \in sync.todo /\ DirtyIn(Now, d) /\ In(cache, d)
      /\ cache[d].loaded /\ cache[d].entries \in EntriesOf(d) /\ disk[d] \in FilesOf(d)
      /\ \A e \in sync.todo : In(cache, e)
      /\ ~sync.failed /\ ~sync.deletedSome => \A e \in Dir : DirtyIn(Now, e) => e \in sync.todo
  BY <1>0, AtHand DEF StoreInv
<1>2. Now.cache = cache /\ Now.disk = disk
  BY DEF Now
<1>3. disk[d].file = cache[d].entries
  BY <1>0, <1>1, <1>2 DEF StoreInv, SyncInv
<1>4. /\ z \in SyncOf /\ z.pc = "dir" /\ ~z.oldExisted /\ z.todo = sync.todo \ {d}
      /\ z.failed = sync.failed /\ z.deletedSome = sync.deletedSome
  BY <1>0, <1>1, DoneIs
<1> PICK f : f = [disk[d] EXCEPT !.old = NoFile]
  OBVIOUS
<1>5. PICK s : s \in {Now, SetFiles(Now, d, f)} /\ Become(NotDirty(s, d))
  BY DEF SyncDrop, This
<1>6. /\ Proper(s) /\ Both(s) = {} /\ Agree(s, spoilt) /\ MemOf(s) = MemOf(Now)
      /\ s.cache = cache /\ s.disk[d].file = disk[d].file
      /\ \A e \in Dir : Content(s.disk, e) = Content(disk, e)
      /\ \A e \in Dir : DirtyIn(s, e) <=> DirtyIn(Now, e)
  <2>1. CASE s = Now
    BY <1>1, <1>2, <2>1
  <2>2. CASE s = SetFiles(Now, d, f)
    <3>1. f \in FilesOf(d) /\ f.file = disk[d].file
      BY <1>1 DEF FilesOf, File
    <3>2. f.file = NoFile \/ Now.cache[d].loaded
      BY <1>1, <1>2
    <3>3. Held(Now, d) = EmptyFile(d) \/ Now.cache[d].loaded
      BY <1>1, <1>2
    <3>4. /\ FilesSetTo(Now, s, d, f) /\ Proper(s) /\ Both(s) = {} /\ Agree(s, spoilt)
          /\ MemOf(s) = MemOf(Now)
      BY ONLY <1>1, <2>2, <3>1, <3>2, <3>3, FilesKeep
    <3>5. /\ s.cache = cache /\ s.disk[d] = f
          /\ \A e \in Dir \ {d} : Content(s.disk, e) = Content(disk, e)
          /\ \A e \in Dir : DirtyIn(s, e) <=> DirtyIn(Now, e)
      BY <1>2, <3>4 DEF FilesSetTo
    <3>6. Content(s.disk, d) = Content(disk, d)
      BY ONLY <3>1, <3>5 DEF Content, Exists
    <3> QED
      BY <3>1, <3>4, <3>5, <3>6
  <2> QED
    BY <1>5, <2>1, <2>2
<1> PICK t : t = NotDirty(s, d)
  OBVIOUS
<1>7. /\ In(s.cache, d) /\ s.cache[d].loaded /\ s.disk[d].file = s.cache[d].entries
      /\ \A e \in z.todo : In(s.cache, e)
      /\ ~z.failed /\ ~z.deletedSome => \A e \in Dir : DirtyIn(s, e) => e \in z.todo \cup {d}
  BY <1>1, <1>3, <1>4, <1>6
<1>8. StoreInv(t, z, spoilt) /\ MemOf(t) = MemOf(s) /\ t.disk = s.disk
  BY ONLY <1>1, <1>4, <1>6, <1>7, t = NotDirty(s, d), NotDirtyKeeps
<1>9. Now' = t
  BY <1>5, <1>8, Becomes DEF StoreInv
<1>10. IInv'
  BY <1>0, <1>8, <1>9 DEF IInv
<1>11. SavedOf(t, z) = SavedOf(Now, sync)
  <2>1. sync.pc # "into" /\ z.pc # "into"
    BY <1>0, <1>4
  <2>2. \A e \in Dir : Content(t.disk, e) = Content(Now.disk, e)
    BY <1>2, <1>6, <1>8
  <2> QED
    BY ONLY <2>1, <2>2, SavedSame
<1> QED
  BY <1>0, <1>6, <1>8, <1>9, <1>10, <1>11, StutterMaps

(* The process ends: what is in memory is lost.                             *)
LEMMA RestartKeeps ==
  ASSUME IInv, Restart
  PROVE  IInv' /\ [Promise!Next]_(Promise!vars)
<1> PICK t : t = Now'
  OBVIOUS
<1>1. /\ t = [cache |-> t.cache, nonexistent |-> t.nonexistent, disk |-> t.disk]
      /\ t.cache = [d \in Dir |-> Absent] /\ t.nonexistent = {} /\ t.disk = disk
      /\ sync' = Idle /\ told' = "none"
  BY DEF Restart, Now
<1>2. Proper(Now) /\ SyncInv(Now, sync) /\ spoilt \subseteq Key /\ Now.disk = disk
  BY DEF IInv, StoreInv, Now
<1>3. /\ spoilt \subseteq spoilt' /\ spoilt' \subseteq Key
      /\ \A d \in Dir : Aside(sync, d) => \A k \in KeysIn[d] \ spoilt' : disk[d].old[k] = Nothing
  <2>1. spoilt' = spoilt \cup IF sync.pc = "into" /\ sync.oldExisted
                            THEN {k \in KeysIn[sync.dir] : disk[sync.dir].old[k] # Nothing} ELSE {}
    BY DEF Restart, At, This
  <2>2. sync.dir \in Dir
    BY <1>2 DEF SyncInv, SyncOf
  <2> QED
    BY <1>2, <2>1, <2>2, ParentType DEF Aside
<1>4. Proper(t)
  <2>1. DiskOf(disk)
    BY <1>2 DEF Proper
  <2>2. CacheOf(t.cache)
    BY <1>1 DEF CacheOf
  <2> QED
    BY ONLY <1>1, <2>1, <2>2 DEF Proper
<1>5. \A d \in Dir : Held(t, d) = Content(disk, d) /\ ~DirtyIn(t, d)
  BY <1>1 DEF Held, In, DirtyIn
<1>6. Agree(t, spoilt') /\ Both(t) = {}
  BY <1>1, <1>5 DEF Agree, Both
<1>7. Idle \in SyncOf /\ Idle.pc = "idle" /\ Idle.todo = {} /\ ~Idle.oldExisted
  BY DEF Idle, SyncOf
<1>8. SyncInv(t, Idle)
  BY ONLY <1>7 DEF SyncInv
<1>9. IInv'
  BY <1>1, <1>3, <1>4, <1>6, <1>8 DEF IInv, StoreInv
<1>10. MemOf(t) = SavedOf(t, Idle)
  BY <1>1, <1>5, <1>7, ParentType DEF MemOf, SavedOf, Aside
<1>11. \A k \in Key \ spoilt' : SavedOf(t, Idle)[k] = SavedOf(Now, sync)[k]
  <2> SUFFICES ASSUME NEW k \in Key \ spoilt'
               PROVE  Content(disk, DirOf[k])[k] =
                        IF Aside(sync, DirOf[k]) THEN disk[DirOf[k]].old[k] ELSE Content(disk, DirOf[k])[k]
    BY <1>1, <1>2, <1>7 DEF SavedOf, Aside
  <2> PICK d \in Dir : d = DirOf[k]
    BY ParentType
  <2>1. CASE Aside(sync, d)
    <3>1. k \in KeysIn[d] /\ k \notin spoilt'
      BY ParentType
    <3>2. disk[d].file = NoFile
      BY <1>2, <2>1 DEF SyncInv, Aside
    <3>3. Content(disk, d)[k] = Nothing
      BY <3>1, <3>2 DEF Content, Exists, EmptyFile
    <3> QED
      BY <1>3, <2>1, <3>1, <3>3
  <2>2. CASE ~Aside(sync, d)
    BY <2>2
  <2> QED
    BY <2>1, <2>2
<1> QED
  BY <1>1, <1>3, <1>9, <1>10, <1>11, RestartMaps

(* The new file is moved to its place, or what was there is put back.        *)
LEMMA IntoMaps ==
  ASSUME IInv, sync.pc = "into", NEW d \in Dir, d = sync.dir,
         NEW t, Now' = t, StoreInv(t, sync', spoilt'), sync'.pc # "into", MemOf(t) = MemOf(Now),
         \A e \in Dir \ {d} : Content(t.disk, e) = Content(disk, e),
         \A k \in KeysIn[d] \ spoilt' :
            Content(t.disk, d)[k] \in {IF sync.oldExisted THEN disk[d].old[k] ELSE Content(disk, d)[k],
                                       Held(Now, d)[k]},
         spoilt \subseteq spoilt', told' = told
  PROVE  IInv' /\ [Promise!Next]_(Promise!vars)
<1>1. IInv'
  BY DEF IInv
<1>2. \A k \in Key \ spoilt' : SavedOf(t, sync')[k] \in {SavedOf(Now, sync)[k], MemOf(Now)[k]}
  <2> SUFFICES ASSUME NEW k \in Key \ spoilt'
               PROVE  Content(t.disk, DirOf[k])[k] \in
                        {IF Aside(sync, DirOf[k]) THEN disk[DirOf[k]].old[k] ELSE Content(disk, DirOf[k])[k],
                         Held(Now, DirOf[k])[k]}
    <3>1. Now.disk = disk
      BY DEF Now
    <3>2. \A k \in Key : SavedOf(t, sync')[k] = Content(t.disk, DirOf[k])[k]
      BY DEF SavedOf, Aside
    <3>3. \A k \in Key : SavedOf(Now, sync)[k] =
            IF Aside(sync, DirOf[k]) THEN disk[DirOf[k]].old[k] ELSE Content(disk, DirOf[k])[k]
      BY <3>1 DEF SavedOf
    <3>4. \A k \in Key : MemOf(Now)[k] = Held(Now, DirOf[k])[k]
      BY DEF MemOf
    <3> QED
      BY <3>2, <3>3, <3>4
  <2> PICK e \in Dir : e = DirOf[k]
    BY ParentType
  <2>1. CASE e = d
    <3>1. k \in KeysIn[d] \ spoilt'
      BY ONLY <2>1, k \in Key \ spoilt', e = DirOf[k], ParentType
    <3>2. Aside(sync, d) <=> sync.oldExisted
      BY DEF Aside
    <3> QED
      BY <2>1, <3>1, <3>2
  <2>2. CASE e # d
    BY <2>2 DEF Aside
  <2> QED
    BY <2>1, <2>2
<1>3. \A k \in Key \ spoilt' : MemOf(Now')[k] = MemOf(Now)[k]
  OBVIOUS
<1> QED
  BY <1>1, <1>2, <1>3, SaveMaps

LEMMA SyncIntoMaps ==
  ASSUME IInv, SyncInto
  PROVE  IInv' /\ [Promise!Next]_(Promise!vars)
<1> PICK z : z = sync'
  OBVIOUS
<1> PICK d : d = sync.dir
  OBVIOUS
<1>0. sync.pc = "into" /\ told' = told
  BY DEF SyncInto, At
<1>1. /\ StoreInv(Now, sync, spoilt) /\ sync \in SyncOf /\ Proper(Now) /\ Both(Now) = {}
      /\ spoilt \in SUBSET Key /\ Agree(Now, spoilt)
      /\ d \in Dir /\ d \in sync.todo /\ DirtyIn(Now, d) /\ In(cache, d)
      /\ cache[d].loaded /\ cache[d].entries \in EntriesOf(d) /\ Held(Now, d) = cache[d].entries
      /\ disk[d] \in FilesOf(d)
      /\ \A e \in sync.todo : In(cache, e)
      /\ ~sync.failed /\ ~sync.deletedSome => \A e \in Dir : DirtyIn(Now, e) => e \in sync.todo
  BY <1>0, AtHand DEF StoreInv
<1>2. Now.cache = cache /\ Now.disk = disk
  BY DEF Now
<1>3. disk[d].file = NoFile /\ (sync.oldExisted => disk[d].old # NoFile)
  BY <1>0, <1>1, <1>2 DEF StoreInv, SyncInv
<1>4. KeysIn[d] \in SUBSET Key
  BY <1>1, ParentType
<1>5. Held(Now, d) = EmptyFile(d) \/ Now.cache[d].loaded
  BY <1>1, <1>2
<1>6. CASE /\ spoilt' = spoilt
           /\ IF sync.oldExisted
              THEN Become(Saving(d)) /\ z = [sync EXCEPT !.pc = "drop"]
              ELSE Become(NotDirty(Saving(d), d)) /\ z = Done(d)
  <2> PICK f : f = [disk[d] EXCEPT !.file = cache[d].entries, !.tmp = FALSE]
    OBVIOUS
  <2> PICK s : s = SetFiles(Now, d, f)
    OBVIOUS
  <2>1. f \in FilesOf(d) /\ f.file = cache[d].entries /\ f.old = disk[d].old
    BY <1>1 DEF FilesOf, File, EntriesOf, Stored
  <2>2. f.file = NoFile \/ Now.cache[d].loaded
    BY <1>1, <1>2
  <2>3. /\ FilesSetTo(Now, s, d, f) /\ Proper(s) /\ Both(s) = {} /\ Agree(s, spoilt)
        /\ MemOf(s) = MemOf(Now) /\ DirtyIn(s, d)
    BY ONLY <1>1, <1>5, <2>1, <2>2, s = SetFiles(Now, d, f), FilesKeep
  <2>4. /\ s.cache = cache /\ s.disk[d] = f
        /\ \A e \in Dir \ {d} : Content(s.disk, e) = Content(disk, e)
        /\ \A e \in Dir : DirtyIn(s, e) <=> DirtyIn(Now, e)
    BY <1>2, <2>3 DEF FilesSetTo
  <2>5. Content(s.disk, d) = Held(Now, d)
    <3>1. NoFile \notin EntriesOf(d)
      BY <1>1, ContentType DEF Proper
    <3> QED
      BY ONLY <1>1, <2>1, <2>4, <3>1 DEF Content, Exists
  <2>6. Saving(d) = s
    BY DEF Saving
  <2>7. CASE sync.oldExisted
    <3>1. Now' = s
      BY <1>6, <2>3, <2>6, <2>7, Becomes
    <3>2. /\ z \in SyncOf /\ z.pc = "drop" /\ z.dir = d /\ z.todo = sync.todo
          /\ z.failed = sync.failed /\ z.deletedSome = sync.deletedSome
          /\ z.oldExisted = sync.oldExisted
      BY ONLY <1>1, <1>6, <2>7, d = sync.dir DEF SyncOf
    <3>3. s.disk[d].file = s.cache[d].entries
      BY <2>1, <2>4
    <3>4. SyncInv(s, z)
      BY ONLY <1>1, <2>3, <2>4, <3>2, <3>3 DEF SyncInv
    <3>5. StoreInv(s, sync', spoilt')
      BY <1>1, <1>6, <2>3, <3>4 DEF StoreInv
    <3>6. \A k \in KeysIn[d] \ spoilt' :
            Content(s.disk, d)[k] \in {IF sync.oldExisted THEN disk[d].old[k] ELSE Content(disk, d)[k],
                                       Held(Now, d)[k]}
      BY <2>5
    <3>7. z = sync' /\ d = sync.dir
      OBVIOUS
    <3> QED
      BY ONLY IInv, <1>0, <1>1, <1>6, <2>3, <2>4, <3>1, <3>2, <3>5, <3>6, <3>7, IntoMaps
  <2>8. CASE ~sync.oldExisted
    <3> PICK t : t = NotDirty(s, d)
      OBVIOUS
    <3>1. /\ z \in SyncOf /\ z.pc = "dir" /\ ~z.oldExisted /\ z.todo = sync.todo \ {d}
          /\ z.failed = sync.failed /\ z.deletedSome = sync.deletedSome
      BY <1>1, <1>6, <2>8, DoneIs
    <3>2. /\ In(s.cache, d) /\ s.cache[d].loaded /\ s.disk[d].file = s.cache[d].entries
          /\ \A e \in z.todo : In(s.cache, e)
          /\ ~z.failed /\ ~z.deletedSome => \A e \in Dir : DirtyIn(s, e) => e \in z.todo \cup {d}
      <4>1. In(s.cache, d) /\ s.cache[d].loaded /\ s.disk[d].file = s.cache[d].entries
        BY ONLY <1>1, <2>1, <2>4
      <4>2. \A e \in z.todo : In(s.cache, e)
        BY ONLY <1>1, <2>4, <3>1
      <4>3. ~z.failed /\ ~z.deletedSome => \A e \in Dir : DirtyIn(s, e) => e \in z.todo \cup {d}
        BY ONLY <1>1, <2>4, <3>1
      <4> QED
        BY <4>1, <4>2, <4>3
    <3>3. StoreInv(t, z, spoilt) /\ MemOf(t) = MemOf(s) /\ t.disk = s.disk
      BY ONLY <1>1, <2>3, <3>1, <3>2, t = NotDirty(s, d), NotDirtyKeeps
    <3>4. Now' = t
      BY <1>6, <2>6, <2>8, <3>3, Becomes DEF StoreInv
    <3>5. StoreInv(t, sync', spoilt') /\ MemOf(t) = MemOf(Now) /\ sync'.pc # "into"
      BY <1>6, <2>3, <3>1, <3>3
    <3>6. /\ \A e \in Dir \ {d} : Content(t.disk, e) = Content(disk, e)
          /\ \A k \in KeysIn[d] \ spoilt' :
               Content(t.disk, d)[k] \in {IF sync.oldExisted THEN disk[d].old[k] ELSE Content(disk, d)[k],
                                          Held(Now, d)[k]}
      BY <2>4, <2>5, <3>3
    <3>7. d = sync.dir
      OBVIOUS
    <3> QED
      BY ONLY IInv, <1>0, <1>1, <1>6, <3>4, <3>5, <3>6, <3>7, IntoMaps
  <2> QED
    BY <2>7, <2>8
<1>7. ASSUME z = Failed(d)
      PROVE  z \in SyncOf /\ z.pc = "dir" /\ ~z.oldExisted /\ z.failed /\ z.todo = sync.todo \ {d}
  BY <1>1, <1>7, DoneIs
<1>8. CASE /\ Become(Restored(d)) /\ z = Failed(d)
           /\ spoilt' = spoilt \cup IF sync.oldExisted THEN {} ELSE KeysIn[d]
  <2> PICK f : f = [disk[d] EXCEPT !.file = disk[d].old, !.old = NoFile]
    OBVIOUS
  <2> PICK s : s = SetFiles(Now, d, f)
    OBVIOUS
  <2>1. f \in FilesOf(d) /\ f.file = disk[d].old
    BY <1>1 DEF FilesOf, File
  <2>2. f.file = NoFile \/ Now.cache[d].loaded
    BY <1>1, <1>2
  <2>3. spoilt' \in SUBSET Key /\ spoilt \subseteq spoilt'
    BY <1>1, <1>4, <1>8
  <2>4. /\ FilesSetTo(Now, s, d, f) /\ Proper(s) /\ Both(s) = {} /\ Agree(s, spoilt')
        /\ MemOf(s) = MemOf(Now) /\ DirtyIn(s, d)
    BY ONLY <1>1, <1>5, <2>1, <2>2, <2>3, s = SetFiles(Now, d, f), FilesKeep
  <2>5. /\ s.cache = cache /\ s.disk[d] = f
        /\ \A e \in Dir \ {d} : Content(s.disk, e) = Content(disk, e)
    BY <1>2, <2>4 DEF FilesSetTo
  <2>6. Now' = s
    BY <1>8, <2>4, Becomes DEF Restored
  <2>7. SyncInv(s, z)
    <3>1. \A e \in z.todo : In(s.cache, e)
      BY <1>1, <1>7, <1>8, <2>5
    <3> QED
      BY ONLY <1>7, <1>8, <3>1, BackToDir
  <2>8. StoreInv(s, sync', spoilt')
    BY <2>3, <2>4, <2>7 DEF StoreInv
  <2>9. \A k \in KeysIn[d] \ spoilt' :
          Content(s.disk, d)[k] \in {IF sync.oldExisted THEN disk[d].old[k] ELSE Content(disk, d)[k],
                                     Held(Now, d)[k]}
    <3>1. CASE sync.oldExisted
      <4>1. Content(s.disk, d) = disk[d].old
        BY ONLY <1>3, <2>1, <2>5, <3>1 DEF Content, Exists
      <4> QED
        BY <3>1, <4>1
    <3>2. CASE ~sync.oldExisted
      BY <1>8, <3>2
    <3> QED
      BY <3>1, <3>2
  <2>10. z = sync' /\ d = sync.dir /\ z.pc # "into"
    BY <1>7, <1>8
  <2> QED
    BY ONLY IInv, <1>0, <1>1, <2>3, <2>4, <2>5, <2>6, <2>8, <2>9, <2>10, IntoMaps
<1>9. CASE Become(Now) /\ z = Failed(d) /\ spoilt' = spoilt \cup KeysIn[d]
  <2>1. Now' = Now
    BY <1>1, <1>9, Becomes
  <2>2. SyncInv(Now, z)
    <3>1. \A e \in z.todo : In(Now.cache, e)
      BY <1>1, <1>2, <1>7, <1>9
    <3> QED
      BY ONLY <1>7, <1>9, <3>1, BackToDir
  <2>3. Agree(Now, spoilt')
    BY <1>1, <1>9 DEF Agree
  <2>4. StoreInv(Now, sync', spoilt')
    BY <1>1, <1>4, <1>9, <2>2, <2>3 DEF StoreInv
  <2>5. /\ z = sync' /\ d = sync.dir /\ z.pc # "into" /\ spoilt \subseteq spoilt'
        /\ KeysIn[d] \ spoilt' = {}
    BY <1>7, <1>9
  <2> QED
    BY ONLY IInv, <1>0, <1>1, <1>2, <2>1, <2>4, <2>5, IntoMaps
<1> QED
  BY <1>6, <1>8, <1>9 DEF SyncInto, This, Goto

-----------------------------------------------------------------------------
(* The start, and any step.                                                 *)
LEMMA InitMaps ==
  ASSUME Init
  PROVE  IInv /\ Promise!Init
<1>1. /\ Now = [cache |-> Now.cache, nonexistent |-> Now.nonexistent, disk |-> Now.disk]
      /\ Now.cache = [d \in Dir |-> Absent] /\ Now.nonexistent = {} /\ Now.disk = disk
      /\ sync = Idle /\ spoilt = {} /\ told = "none"
  BY DEF Init, Now
<1>2. DiskOf(disk)
  BY LayoutsAssumption DEF Init, DiskOf, FilesOf
<1>3. CacheOf(Now.cache)
  BY <1>1 DEF CacheOf
<1>4. Proper(Now)
  BY ONLY <1>1, <1>2, <1>3 DEF Proper
<1>5. \A d \in Dir : Held(Now, d) = Content(disk, d) /\ ~DirtyIn(Now, d)
  BY <1>1 DEF Held, In, DirtyIn
<1>6. Agree(Now, spoilt) /\ Both(Now) = {}
  BY <1>1, <1>5 DEF Agree, Both
<1>7. Idle \in SyncOf /\ Idle.pc = "idle" /\ Idle.todo = {} /\ ~Idle.oldExisted
  BY DEF Idle, SyncOf
<1>8. SyncInv(Now, Idle)
  BY ONLY <1>7 DEF SyncInv
<1>9. IInv
  BY <1>1, <1>4, <1>6, <1>8 DEF IInv, StoreInv
<1>10. Mem = MemOf(Now) /\ Saved = SavedOf(Now, Idle)
  BY <1>1, <1>4, MemIs, SavedIs
<1>11. MemOf(Now) = SavedOf(Now, Idle)
  BY <1>1, <1>5, <1>7, ParentType DEF MemOf, SavedOf, Aside
<1>12. SavedOf(Now, Idle) \in [Key -> Stored]
  BY <1>4, <1>8, SavedType
<1> QED
  BY <1>1, <1>9, <1>10, <1>11, <1>12 DEF Promise!Init, Promise!Stored, Stored

LEMMA NextMaps ==
  ASSUME IInv, [Next]_vars
  PROVE  IInv' /\ [Promise!Next]_(Promise!vars)
<1>1. CASE UNCHANGED vars
  <2>1. Now' = Now /\ sync' = sync /\ spoilt' = spoilt /\ told' = told
    BY <1>1 DEF vars, memory, Now
  <2>2. IInv'
    BY <2>1 DEF IInv
  <2> QED
    BY <2>1, <2>2, StutterMaps
<1>2. CASE \E k \in Key : SetEntry(k) \/ SetFails(k) \/ UnsetEntry(k)
  BY <1>2, SetEntryMaps, SetFailsMaps, UnsetEntryMaps
<1>3. CASE \E d \in Dir : Query(d)
  BY <1>3, QueryMaps
<1>4. CASE \E ds \in SUBSET Dir \ {{}} : Clean(ds)
  BY <1>4, CleanMaps
<1>5. CASE SyncAll \/ \E d \in Dir : AllSubdirs(d)
  <2>1. PICK what \in Dir \cup {NoFile} : Start(what)
    BY <1>5 DEF SyncAll, AllSubdirs
  <2> QED
    BY <2>1, StartMaps
<1>6. CASE \E d \in Dir : SyncClean(d) \/ SyncUnlink(d) \/ SyncUnlinkFails(d) \/ SyncWrite(d)
  BY <1>6, SyncCleanMaps, SyncUnlinkMaps, SyncUnlinkFailsMaps, SyncWriteMaps
<1>7. CASE SyncRmdir
  BY <1>7, SyncRmdirMaps
<1>8. CASE SyncAside
  BY <1>8, SyncAsideMaps
<1>9. CASE SyncInto
  BY <1>9, SyncIntoMaps
<1>10. CASE SyncDrop
  BY <1>10, SyncDropMaps
<1>11. CASE SyncEnd
  BY <1>11, SyncEndMaps
<1>12. CASE Restart
  BY <1>12, RestartKeeps
<1> QED
  BY <1>1, <1>2, <1>3, <1>4, <1>5, <1>6, <1>7, <1>8, <1>9, <1>10, <1>11, <1>12 DEF Next

(* The inductive invariant: whatever is not marked for saving is as on disk, *)
(* but for spoilt keys; nothing is stored in a directory thought not to       *)
(* exist; and cache_sync has every directory that is to be saved still before *)
(* it, unless it has failed or will go round again.                          *)
THEOREM Stays == Spec => []IInv
<1>1. Init => IInv
  BY InitMaps
<1>2. IInv /\ [Next]_vars => IInv'
  BY NextMaps
<1> QED
  BY <1>1, <1>2, PTL DEF Spec

(* The XML backend implements what gconfd relies on (PersistentStore): a      *)
(* request changes the entry of one key in memory; a save, cut short wherever *)
(* the process is killed or the disk fails, leaves the old or the new entry   *)
(* of each key that is not counted as spoilt; a sync_all that reports success *)
(* has saved everything; and a new process reads what was saved.             *)
THEOREM Implements == Spec => KeepsPromise
<1>1. Init => IInv /\ Promise!Init
  BY InitMaps
<1>2. IInv /\ [Next]_vars => IInv' /\ [Promise!Next]_(Promise!vars)
  BY NextMaps
<1> QED
  BY <1>1, <1>2, PTL DEF Spec, KeepsPromise, Promise!Spec

-----------------------------------------------------------------------------
(***************************************************************************)
(* Listings.  A directory that is in the middle of being saved or deleted    *)
(* counts as there, as its parent still has its name.                        *)
(***************************************************************************)
Loose(y) == IF y.pc = "rmdir" \/ (y.pc = "into" /\ y.oldExisted) THEN {y.dir} ELSE {}
There(s, X, c) == Exists(s.disk, c) \/ c \in X
ListedIn(s, d) == In(s.cache, d) /\ s.cache[d].listed

(* A parent in memory has the names of those that are there, and what is in   *)
(* memory but not on disk is not trusted to be known.                         *)
Lists(s, X, known) ==
  /\ \A d \in Dir : ListedIn(s, d) =>
       \A c \in Children[d] \ known : c \in s.cache[d].subdirs <=> There(s, X, c)
  /\ \A c \in Dir : In(s.cache, c) /\ ~There(s, X, c) => c \in known

ListInv == Lists(Now, Loose(sync), overlooked)

(* Nothing is listed from s to t but what was listed before.                  *)
Unlisted(s, t, d) ==
  In(t.cache, d) =>
    \/ /\ In(s.cache, d)
       /\ t.cache[d].listed => s.cache[d].listed /\ t.cache[d].subdirs = s.cache[d].subdirs
    \/ ~t.cache[d].listed /\ Exists(s.disk, d)

LEMMA UnlistedLists ==
  ASSUME NEW s, NEW t, NEW X, NEW Y, NEW known, Lists(s, X, known),
         \A d \in Dir : Unlisted(s, t, d) /\ (There(t, Y, d) <=> There(s, X, d))
  PROVE  Lists(t, Y, known)
<1>1. ASSUME NEW d \in Dir, ListedIn(t, d), NEW c \in Children[d] \ known
      PROVE  c \in t.cache[d].subdirs <=> There(t, Y, c)
  <2>1. c \in Dir
    BY DEF Children
  <2>2. ListedIn(s, d) /\ t.cache[d].subdirs = s.cache[d].subdirs
    BY <1>1 DEF ListedIn, Unlisted
  <2>3. c \in s.cache[d].subdirs <=> There(s, X, c)
    BY <2>2 DEF Lists
  <2> QED
    BY <2>1, <2>2, <2>3
<1>2. ASSUME NEW c \in Dir, In(t.cache, c), ~There(t, Y, c)
      PROVE  c \in known
  <2>1. ~There(s, X, c) /\ ~Exists(s.disk, c)
    BY <1>2 DEF There
  <2>2. In(s.cache, c)
    BY <1>2, <2>1 DEF Unlisted
  <2> QED
    BY <2>1, <2>2 DEF Lists
<1> QED
  BY <1>1, <1>2 DEF Lists

LEMMA MoreKnown ==
  ASSUME NEW s, NEW X, NEW known, NEW more, Lists(s, X, known), known \subseteq more
  PROVE  Lists(s, X, more)
BY DEF Lists

LEMMA LoadLists ==
  ASSUME NEW s, Proper(s), NEW d \in Dir, In(s.cache, d), NEW X, NEW known, Lists(s, X, known)
  PROVE  Lists(Load(s, d), X, known)
<1> PICK n : n = [s.cache[d] EXCEPT !.entries = Entries(s.cache, s.disk, d), !.loaded = TRUE]
  OBVIOUS
<1> PICK t : t = Load(s, d)
  OBVIOUS
<1>1. n.listed = s.cache[d].listed /\ n.subdirs = s.cache[d].subdirs
  BY DEF Proper, CacheOf, In, NodeOf
<1>2. t = SetDir(s, d, n)
  BY DEF Load
<1>3. /\ t.disk = s.disk /\ t.cache[d] = n
      /\ \A e \in Dir \ {d} : t.cache[e] = s.cache[e]
  BY <1>2 DEF Proper, CacheOf, SetDir
<1>4. \A e \in Dir : Unlisted(s, t, e) /\ (There(t, X, e) <=> There(s, X, e))
  BY <1>1, <1>3 DEF Unlisted, There, In
<1>5. Lists(t, X, known)
  BY <1>4, UnlistedLists
<1> QED
  BY <1>5

LEMMA RescanLists ==
  ASSUME NEW s, Proper(s), NEW d \in Dir, In(s.cache, d), NEW known, Lists(s, {}, known),
         NEW missed
  PROVE  Lists(Rescan(s, d, missed), {}, known \cup missed)
<1> PICK l : l = Load(s, d)
  OBVIOUS
<1> PICK found : found = Found(s, d) \ missed
  OBVIOUS
<1> PICK n : n = [l.cache[d] EXCEPT !.listed = TRUE, !.subdirs = found]
  OBVIOUS
<1> PICK t : t = SetDir(l, d, n)
  OBVIOUS
<1>1. /\ Lists(l, {}, known) /\ l.disk = s.disk /\ Proper(l) /\ l.cache[d] \in NodeOf(d)
      /\ In(l.cache, d)
  BY LoadLists, LoadGrows DEF Grows
<1>2. n.subdirs = found
  BY <1>1 DEF NodeOf
<1>3. t.disk = s.disk /\ t.cache[d] = n /\ \A e \in Dir \ {d} : t.cache[e] = l.cache[e]
  BY <1>1 DEF Proper, CacheOf, SetDir
<1>4. ASSUME NEW e \in Dir, ListedIn(t, e), NEW c \in Children[e] \ (known \cup missed)
      PROVE  c \in t.cache[e].subdirs <=> There(t, {}, c)
  <2>1. CASE e = d
    BY <1>1, <1>2, <1>3, <2>1 DEF There, Found
  <2>2. CASE e # d
    <3>1. ListedIn(l, e) /\ t.cache[e] = l.cache[e]
      BY <1>3, <1>4, <2>2 DEF ListedIn, In
    <3>2. c \in l.cache[e].subdirs <=> There(l, {}, c)
      BY <1>1, <3>1 DEF Lists
    <3> QED
      BY <1>1, <1>3, <3>1, <3>2 DEF There
  <2> QED
    BY <2>1, <2>2
<1>5. ASSUME NEW c \in Dir, In(t.cache, c), ~There(t, {}, c) PROVE c \in known
  <2>1. In(l.cache, c) /\ ~There(l, {}, c)
    BY <1>1, <1>3, <1>5 DEF In, There
  <2> QED
    BY <1>1, <2>1 DEF Lists
<1>6. Lists(t, {}, known \cup missed)
  BY <1>4, <1>5 DEF Lists
<1>7. Lists(s, {}, known \cup missed)
  BY MoreKnown
<1>8. Rescan(s, d, missed) = s \/ Rescan(s, d, missed) = t
  BY DEF Rescan
<1> QED
  BY <1>6, <1>7, <1>8

(* A lookup tells the lowest directory in memory of the one it loads below.   *)
LEMMA ToldByLookup ==
  ASSUME NEW s, NEW d \in Dir, NEW e \in Dir, In(s.cache, e),
         NEW c \in WayOf(s, d), Parent[c] = e, c # Root
  PROVE  /\ e \in StopOf(s, d)
         /\ \A x \in WayOf(s, d) : Parent[x] = e => x = c
<1>1. /\ c \in Up[d] /\ c \in Dir /\ d \in Path /\ Up[d] \subseteq Dir /\ Up[d] \subseteq Path
      /\ e \in Up[c] /\ e # c /\ Up[c] \ {c} \subseteq Up[e] /\ e \in Path /\ c \in Path
  BY ParentType DEF WayOf
<1>2. e \in Up[d] /\ e \notin WayOf(s, d)
  <2>1. e \in Up[d]
    BY <1>1
  <2> QED
    BY <2>1 DEF WayOf, Loadable
<1>3. ASSUME NEW r \in Up[d] \ WayOf(s, d) PROVE r \in Up[e]
  <2>1. PICK f \in Up[d] : r \in Up[f] /\ ~Loadable(s, f)
    BY DEF WayOf
  <2>2. c \notin Up[f]
    BY <2>1 DEF WayOf
  <2>3. f \in Up[c] /\ f # c
    BY <1>1, <2>2
  <2>4. r \in Up[c] /\ r # c
    BY <1>1, <2>1, <2>2, <2>3
  <2> QED
    BY <1>1, <2>4
<1>4. ASSUME NEW x \in WayOf(s, d), Parent[x] = e PROVE x = c
  <2>1. x \in Up[d] /\ x \in Dir /\ x \in Path
    BY <1>1 DEF WayOf
  <2>2. CASE x = Root
    <3>1. e \in Up[Root] /\ e = Root
      BY <1>4, <2>2, ParentType, <1>1
    <3> QED
      BY <1>2, <2>2, <3>1
  <2>3. CASE x # Root
    <3>1. e \in Up[x] /\ e # x /\ Up[x] \ {x} \subseteq Up[e]
      BY <1>4, <2>1, <2>3, ParentType
    <3>2. x \in Up[c] \/ c \in Up[x]
      BY <1>1, <2>1
    <3>3. x \in Up[c] /\ x # c => x \in Up[e]
      BY <1>1
    <3>4. c \in Up[x] /\ x # c => c \in Up[e]
      BY <3>1
    <3> QED
      BY <1>1, <2>1, <3>1, <3>2, <3>3, <3>4
  <2> QED
    BY <2>2, <2>3
<1> QED
  BY <1>2, <1>3, <1>4 DEF StopOf

(* From s to t the directories in new come into memory, and their parents     *)
(* are told of them.                                                         *)
Links(s, t, new) ==
  \A e \in Dir :
     /\ In(t.cache, e) => In(s.cache, e) \/ e \in new
     /\ ListedIn(t, e) =>
          \A c \in Children[e] :
             /\ ListedIn(s, e)
             /\ c \in t.cache[e].subdirs <=> c \in s.cache[e].subdirs \/ c \in new

LEMMA LinksLists ==
  ASSUME NEW s, NEW t, NEW new, Links(s, t, new), NEW X, NEW known, Lists(s, X, known),
         NEW more, known \subseteq more,
         \A c \in Dir \ more : There(t, X, c) <=> There(s, X, c) \/ c \in new
  PROVE  Lists(t, X, more)
<1>1. ASSUME NEW e \in Dir, ListedIn(t, e), NEW c \in Children[e] \ more
      PROVE  c \in t.cache[e].subdirs <=> There(t, X, c)
  <2>1. c \in Dir \ more
    BY DEF Children
  <2>2. ListedIn(s, e) /\ (c \in t.cache[e].subdirs <=> c \in s.cache[e].subdirs \/ c \in new)
    BY <1>1 DEF Links
  <2>3. c \in s.cache[e].subdirs <=> There(s, X, c)
    BY <2>2 DEF Lists
  <2> QED
    BY <2>1, <2>2, <2>3
<1>2. ASSUME NEW c \in Dir, In(t.cache, c), ~There(t, X, c), c \notin more PROVE FALSE
  <2>1. ~There(s, X, c) /\ c \notin new
    BY <1>2
  <2>2. In(s.cache, c)
    BY <1>2, <2>1 DEF Links
  <2> QED
    BY <1>2, <2>1, <2>2 DEF Lists
<1> QED
  BY <1>1, <1>2 DEF Lists

LEMMA LookupLinks ==
  ASSUME NEW s, Proper(s), NEW d \in Dir
  PROVE  /\ Lookup(s, d).disk = s.disk
         /\ Links(s, Lookup(s, d), WayOf(s, d))
         /\ \A e \in WayOf(s, d) : Exists(s.disk, e) /\ e \in Dir
<1> PICK t : t = Lookup(s, d)
  OBVIOUS
<1> DEFINE way == WayOf(s, d)
<1> DEFINE stop == StopOf(s, d)
<1>1. /\ t.disk = s.disk
      /\ \A e \in Dir :
           t.cache[e] = IF e \in way THEN NewDir
                        ELSE IF e \in stop /\ In(s.cache, e) /\ way # {}
                             THEN AddChild(s.cache[e], CHOOSE c \in way : Parent[c] = e)
                             ELSE s.cache[e]
  <2> DEFINE c1 == [x \in Dir |->
              IF x \in way THEN NewDir
              ELSE IF x \in stop /\ In(s.cache, x) /\ way # {}
                   THEN AddChild(s.cache[x], CHOOSE c \in way : Parent[c] = x)
                   ELSE s.cache[x]]
  <2> DEFINE n1 == s.nonexistent \cup {x \in stop : ~In(s.cache, x)}
  <2>1. t = [cache |-> c1, nonexistent |-> n1, disk |-> s.disk]
    BY LookupIs, Zenon
  <2> HIDE DEF c1, n1
  <2>2. t.disk = s.disk /\ t.cache = c1
    BY <2>1
  <2> QED
    BY <2>2, Zenon DEF c1
<1>2. \A x \in way : x \in Dir /\ Loadable(s, x)
  BY DEF WayOf
<1>3. ASSUME NEW e \in Dir, In(t.cache, e) PROVE In(s.cache, e) \/ e \in way
  BY <1>1, <1>3 DEF In
<1>4. ASSUME NEW e \in Dir, ListedIn(t, e), NEW c \in Children[e]
      PROVE  ListedIn(s, e) /\ (c \in t.cache[e].subdirs <=> c \in s.cache[e].subdirs \/ c \in way)
  <2>1. c \in Dir \ {Root} /\ Parent[c] = e
    BY DEF Children, Parent
  <2>2. e \notin way
    BY <1>1, <1>4, NodeFacts DEF ListedIn
  <2>3. In(s.cache, e) /\ s.cache[e] \in NodeOf(e)
    BY <1>3, <1>4, <2>2 DEF ListedIn, In, Proper, CacheOf
  <2>4. CASE e \in stop /\ way # {}
    <3>1. PICK x : x = CHOOSE y \in way : Parent[y] = e
      OBVIOUS
    <3>2. x \in way /\ Parent[x] = e
      BY <2>4, <3>1, WayFromStop
    <3>3. t.cache[e] = AddChild(s.cache[e], x)
      BY <1>1, <2>2, <2>3, <2>4, <3>1
    <3>4. s.cache[e].listed /\ t.cache[e].subdirs = s.cache[e].subdirs \cup {x}
      BY <1>4, <2>3, <3>3 DEF AddChild, NodeOf, ListedIn
    <3>5. c \in way => x = c
      BY <2>1, <2>3, <3>2, ToldByLookup
    <3> QED
      BY <2>3, <3>2, <3>4, <3>5 DEF ListedIn
  <2>5. CASE ~(e \in stop /\ way # {})
    <3>1. t.cache[e] = s.cache[e]
      BY <1>1, <2>2, <2>5
    <3>2. c \notin way
      BY <2>1, <2>3, <2>5, ToldByLookup
    <3> QED
      BY <1>4, <2>3, <3>1, <3>2 DEF ListedIn
  <2> QED
    BY <2>4, <2>5
<1>5. Links(s, t, way)
  BY ONLY <1>3, <1>4 DEF Links
<1> QED
  BY <1>1, <1>2, <1>5 DEF Loadable

LEMMA LookupLists ==
  ASSUME NEW s, Proper(s), NEW d \in Dir, NEW X, NEW known, Lists(s, X, known)
  PROVE  Lists(Lookup(s, d), X, known)
<1> PICK t : t = Lookup(s, d)
  OBVIOUS
<1> PICK way : way = WayOf(s, d)
  OBVIOUS
<1>1. t.disk = s.disk /\ Links(s, t, way) /\ \A e \in way : Exists(s.disk, e) /\ e \in Dir
  BY LookupLinks
<1>2. \A c \in Dir \ known : There(t, X, c) <=> There(s, X, c) \/ c \in way
  BY <1>1 DEF There
<1> QED
  BY <1>1, <1>2, LinksLists

LEMMA CreateLists ==
  ASSUME NEW s, Proper(s), NEW d \in Dir, Creates(s, d), NEW X, NEW known, Lists(s, X, known)
  PROVE  /\ Lists(Create(s, d), X, known \cup Overlooks(s, d))
         /\ \A e \in Dir : Exists(Create(s, d).disk, e) <=> Exists(s.disk, e) \/ e \in Missing(s.disk, d)
<1> PICK missing : missing = Missing(s.disk, d)
  OBVIOUS
<1> PICK dug : dug = [s EXCEPT !.disk = CreateFsDir(@, missing)]
  OBVIOUS
<1> PICK made : made = SetDir(dug, d, NewDir)
  OBVIOUS
<1> PICK p \in Dir : p = Parent[d]
  BY ParentType
<1> PICK up : up = IF d = Root THEN made ELSE Lookup(made, p)
  OBVIOUS
<1> PICK n : n = AddChild(up.cache[p], d)
  OBVIOUS
<1> PICK told2 : told2 = IF d # Root /\ In(up.cache, p) THEN SetDir(up, p, n) ELSE up
  OBVIOUS
<1> PICK t : t = UnsetNonexistent(told2, d)
  OBVIOUS
<1> PICK way : way = IF d = Root THEN {} ELSE WayOf(made, p)
  OBVIOUS
<1> PICK more : more = Overlooks(s, d)
  OBVIOUS
<1>1. Create(s, d) = t
  <2>1. made = SetDir([s EXCEPT !.disk = CreateFsDir(@, Missing(@, d))], d, NewDir)
    OBVIOUS
  <2> QED
    BY <2>1 DEF Create
<1>2. missing \in SUBSET Dir /\ \A e \in missing : ~Exists(s.disk, e) /\ e \in Up[d]
  BY DEF Missing
<1>3. Grows(s, dug) /\ Proper(dug) /\ dug.cache = s.cache /\ dug.nonexistent = s.nonexistent
      /\ dug.disk = CreateFsDir(s.disk, missing)
  <2>1. Grows(s, dug)
    BY <1>2, MadeGrows
  <2> QED
    BY <2>1 DEF Grows, Proper
<1>4. \A e \in Dir : Exists(dug.disk, e) <=> Exists(s.disk, e) \/ e \in missing
  <2> SUFFICES ASSUME NEW e \in Dir
               PROVE  Exists(dug.disk, e) <=> Exists(s.disk, e) \/ e \in missing
    OBVIOUS
  <2>0. DiskOf(s.disk)
    BY DEF Proper
  <2>1. s.disk[e] \in FilesOf(e)
    BY <2>0 DEF DiskOf
  <2>2. EmptyFile(e) # NoFile
    BY ONLY <2>0, e \in Dir, ContentType
  <2>3. dug.disk[e] = IF e \in missing THEN [s.disk[e] EXCEPT !.made = TRUE, !.file = EmptyFile(e)]
                      ELSE s.disk[e]
    BY ONLY <1>3, e \in Dir DEF CreateFsDir
  <2> QED
    BY ONLY <2>1, <2>2, <2>3 DEF Exists, FilesOf
<1>5. DirSetTo(dug, made, d, NewDir)
  <2>1. NewDir \in NodeOf(d) \cup {Absent}
    BY NodeFacts
  <2> QED
    BY ONLY <1>3, <2>1, made = SetDir(dug, d, NewDir), d \in Dir, DirSet
<1>6. /\ Proper(made) /\ made.disk = dug.disk /\ made.nonexistent = s.nonexistent
      /\ made.cache[d] = NewDir /\ \A e \in Dir \ {d} : made.cache[e] = s.cache[e]
  BY <1>3, <1>5 DEF DirSetTo
<1>7. /\ up.disk = made.disk /\ Links(made, up, way)
      /\ \A e \in way : Exists(made.disk, e) /\ e \in Dir
  <2>1. CASE d = Root
    BY <2>1 DEF Links
  <2>2. CASE d # Root
    <3>1. up = Lookup(made, p) /\ way = WayOf(made, p)
      BY <2>2
    <3> QED
      BY ONLY <1>6, <3>1, p \in Dir, LookupLinks
  <2> QED
    BY <2>1, <2>2
<1>8. Grows(made, up) /\ Proper(up)
  <2>1. Grows(made, made) /\ Grows(made, Lookup(made, p))
    BY ONLY <1>6, p \in Dir, GrowsSelf, LookupGrows
  <2>2. up = made \/ up = Lookup(made, p)
    OBVIOUS
  <2> QED
    BY <2>1, <2>2 DEF Grows
<1>9. t.disk = up.disk /\ Links(up, t, {d})
  <2>1. t.cache = told2.cache /\ t.disk = told2.disk
    <3>1. told2 = [cache |-> told2.cache, nonexistent |-> told2.nonexistent, disk |-> told2.disk]
      BY <1>8 DEF Proper, SetDir
    <3> QED
      BY <3>1 DEF UnsetNonexistent
  <2>2. CASE d # Root /\ In(up.cache, p)
    <3>1. told2 = SetDir(up, p, n)
      BY <2>2
    <3>2. /\ up = [cache |-> up.cache, nonexistent |-> up.nonexistent, disk |-> up.disk]
          /\ up.cache = [e \in Dir |-> up.cache[e]] /\ up.cache[p] \in NodeOf(p)
      BY <1>8, <2>2 DEF Proper, CacheOf, In
    <3>3. told2.disk = up.disk /\ told2.cache[p] = n /\ \A x \in Dir \ {p} : told2.cache[x] = up.cache[x]
      BY ONLY <3>1, <3>2, p \in Dir DEF SetDir
    <3>4. n.listed = up.cache[p].listed
          /\ (up.cache[p].listed => n.subdirs = up.cache[p].subdirs \cup {d})
      BY <3>2 DEF AddChild, NodeOf
    <3>5. ASSUME NEW e \in Dir, ListedIn(t, e), NEW c \in Children[e]
          PROVE  ListedIn(up, e) /\ (c \in t.cache[e].subdirs <=> c \in up.cache[e].subdirs \/ c = d)
      <4>1. c = d => e = p
        BY DEF Children, Parent
      <4>2. CASE e = p
        BY ONLY <2>1, <2>2, <3>3, <3>4, <3>5, <4>2 DEF ListedIn
      <4>3. CASE e # p
        BY ONLY <2>1, <3>3, <3>5, <4>1, <4>3, e \in Dir DEF ListedIn, In
      <4> QED
        BY <4>2, <4>3
    <3>6. ASSUME NEW e \in Dir, In(t.cache, e) PROVE In(up.cache, e)
      BY ONLY <2>1, <2>2, <3>3, <3>6, p \in Dir DEF In
    <3> QED
      BY ONLY <2>1, <3>3, <3>5, <3>6 DEF Links
  <2>3. CASE ~(d # Root /\ In(up.cache, p))
    <3>1. told2 = up
      BY <2>3
    <3>2. ASSUME NEW e \in Dir, In(up.cache, e), NEW c \in Children[e] PROVE c # d
      BY <2>3, <3>2 DEF Children, Parent
    <3> QED
      BY <2>1, <3>1, <3>2 DEF Links, ListedIn
  <2> QED
    BY <2>2, <2>3
<1>10. ASSUME NEW c \in missing \ {d}, c \notin more
       PROVE  c \in way
  <2>1. /\ d # Root /\ d \in Dir \ {Root} /\ d \in Path /\ Up[d] \ {d} \subseteq Up[p]
        /\ c \in Up[d] /\ p \in Up[d] /\ p # d
    <3>1. d # Root
      <4> SUFFICES ASSUME d = Root PROVE FALSE
        OBVIOUS
      <4>1. c \in Up[Root] /\ Root \in Path /\ c \in Path /\ Root \in Up[c]
        BY <1>2
      <4> QED
        BY <1>10, <4>1
    <3> QED
      BY <1>2, <3>1, ParentType
  <2>2. ASSUME NEW f \in Up[p], c \in Up[f]
        PROVE  Loadable(made, f)
    <3>1. f \in Up[d] /\ f \in Dir /\ f \in Path
      BY <2>1, ParentType
    <3>2. f # d
      <4> SUFFICES ASSUME f = d PROVE FALSE
        OBVIOUS
      <4> QED
        BY <2>1, <2>2
    <3>3. f \in missing
      <4>1. \A g \in Up[d] : c \in Up[g] => ~Exists(s.disk, g)
        BY <1>10 DEF Missing
      <4>2. \A g \in Up[d] : f \in Up[g] => c \in Up[g]
        BY <2>1, <2>2, <3>1
      <4> QED
        BY <3>1, <4>1, <4>2 DEF Missing
    <3>4. f \notin s.nonexistent /\ ~In(s.cache, f)
      BY <1>10, <2>2, <3>2, <3>3 DEF Overlooks
    <3> QED
      BY <1>4, <1>6, <3>1, <3>2, <3>3, <3>4 DEF Loadable, In
  <2>3. c \in Up[p]
    BY <2>1
  <2> QED
    BY <2>1, <2>2, <2>3 DEF WayOf
<1>11. \A e \in Dir : Exists(t.disk, e) <=> Exists(s.disk, e) \/ e \in missing
  BY <1>4, <1>6, <1>7, <1>9
<1>12. Exists(t.disk, d)
  <2>1. d \in missing \/ Exists(s.disk, d)
    BY ParentType DEF Missing
  <2> QED
    BY <1>11, <2>1
<1>13. Links(s, t, way \cup {d})
  <2>1. ASSUME NEW e \in Dir, In(t.cache, e) PROVE In(s.cache, e) \/ e \in way \cup {d}
    <3>1. In(up.cache, e) \/ e = d
      BY <1>9, <2>1 DEF Links
    <3>2. In(made.cache, e) \/ e \in way \/ e = d
      BY <1>7, <3>1 DEF Links
    <3> QED
      BY <1>6, <3>2 DEF In
  <2>2. ASSUME NEW e \in Dir, ListedIn(t, e), NEW c \in Children[e]
        PROVE  ListedIn(s, e) /\ (c \in t.cache[e].subdirs <=> c \in s.cache[e].subdirs \/ c \in way \cup {d})
    <3>1. ListedIn(up, e) /\ (c \in t.cache[e].subdirs <=> c \in up.cache[e].subdirs \/ c = d)
      BY ONLY <1>9, <2>2, e \in Dir, c \in Children[e] DEF Links
    <3>2. ListedIn(made, e) /\ (c \in up.cache[e].subdirs <=> c \in made.cache[e].subdirs \/ c \in way)
      BY ONLY <1>7, <3>1, e \in Dir, c \in Children[e] DEF Links
    <3>3. e # d
      BY <1>6, <3>2, NodeFacts DEF ListedIn
    <3>4. made.cache[e] = s.cache[e]
      BY <1>6, <3>3
    <3>5. ListedIn(s, e)
      BY <3>2, <3>4 DEF ListedIn, In
    <3> QED
      BY <3>1, <3>2, <3>4, <3>5
  <2> QED
    BY <2>1, <2>2 DEF Links
<1>14. \A c \in Dir \ (known \cup more) : There(t, X, c) <=> There(s, X, c) \/ c \in way \cup {d}
  <2> SUFFICES ASSUME NEW c \in Dir, c \notin more
               PROVE  There(t, X, c) <=> There(s, X, c) \/ c \in way \/ c = d
    OBVIOUS
  <2>1. c \in way => Exists(t.disk, c)
    BY <1>7, <1>9
  <2>2. c \in missing => c \in way \/ c = d
    BY <1>10
  <2> QED
    BY <1>11, <1>12, <2>1, <2>2 DEF There
<1>15. Lists(t, X, known \cup more)
  BY <1>13, <1>14, LinksLists
<1> QED
  BY <1>1, <1>11, <1>15

LEMMA EnsureLists ==
  ASSUME NEW s, Proper(s), NEW d \in Dir, NEW X, NEW known, Lists(s, X, known)
  PROVE  /\ Lists(Ensure(s, d), X, known \cup Overlooks(s, d))
         /\ \A e \in Dir \ Up[d] : Exists(Ensure(s, d).disk, e) <=> Exists(s.disk, e)
<1>1. CASE Creates(s, d)
  <2>1. Missing(s.disk, d) \subseteq Up[d]
    BY DEF Missing
  <2> QED
    BY <1>1, <2>1, CreateLists DEF Ensure
<1>2. CASE ~Creates(s, d)
  <2>1. Lists(Lookup(s, d), X, known)
    BY LookupLists
  <2>2. Lookup(s, d).disk = s.disk
    BY LookupLinks
  <2> QED
    BY <1>2, <2>1, <2>2, MoreKnown DEF Ensure
<1> QED
  BY <1>1, <1>2

(* A directory that is deleted is no longer listed.                          *)
LEMMA ForgetLists ==
  ASSUME NEW s, Proper(s), NEW d \in Dir, ~Exists(s.disk, d),
         NEW known, Lists(s, {d}, known), d # Root \/ In(s.cache, Root)
  PROVE  Lists(ForgetDir(s, d), {}, (known \ {d}) \cup IF d = Root THEN {} ELSE Overlooks(s, Parent[d]))
<1> PICK p \in Dir : p = Parent[d]
  BY ParentType
<1> PICK there : there = Ensure(s, p)
  OBVIOUS
<1> PICK n : n = [there.cache[p] EXCEPT !.dirty = TRUE, !.subdirs = @ \ {d}]
  OBVIOUS
<1> PICK told2 : told2 = IF d = Root THEN there ELSE SetDir(there, p, n)
  OBVIOUS
<1> PICK t : t = ForgetDir(s, d)
  OBVIOUS
<1> PICK more : more = IF d = Root THEN {} ELSE Overlooks(s, p)
  OBVIOUS
<1>1. t = [SetDir(told2, d, Absent) EXCEPT !.nonexistent = @ \cup {d}]
  BY DEF ForgetDir
<1>2. Proper(there) /\ In(there.cache, p)
  BY EnsureGrows DEF Grows
<1>3. there.cache[p] \in NodeOf(p)
  BY <1>2 DEF Proper, CacheOf, In
<1>4. n.listed = there.cache[p].listed /\ n.subdirs = there.cache[p].subdirs \ {d} /\ n \in NodeOf(p)
  BY <1>3 DEF NodeOf
<1>5. Lists(there, {d}, known \cup more)
  <2>1. Lists(there, {d}, known \cup Overlooks(s, p))
    BY EnsureLists
  <2>2. d = Root => Overlooks(s, p) = {}
    <3>1. Parent[Root] = Root
      BY DEF Parent, KeyDirectory
    <3> QED
      BY <3>1 DEF Overlooks, Creates
  <2> QED
    BY <2>1, <2>2
<1>6. d # Root => p # d /\ d \notin Up[p] /\ ~Exists(there.disk, d)
  <2> SUFFICES ASSUME d # Root PROVE p # d /\ d \notin Up[p] /\ ~Exists(there.disk, d)
    OBVIOUS
  <2>1. p # d /\ p \in Up[d] /\ d \in Path /\ p \in Path
    BY ParentType
  <2>2. d \notin Up[p]
    BY <2>1
  <2> QED
    BY <2>1, <2>2, EnsureLists
<1>7. /\ t.disk = there.disk /\ t.cache[d] = Absent
      /\ \A e \in Dir \ {d} : t.cache[e] = IF e = p /\ d # Root THEN n ELSE there.cache[e]
  <2>1. /\ there = [cache |-> there.cache, nonexistent |-> there.nonexistent, disk |-> there.disk]
        /\ there.cache = [e \in Dir |-> there.cache[e]]
    BY <1>2 DEF Proper, CacheOf
  <2>2. /\ told2.disk = there.disk
        /\ told2 = [cache |-> told2.cache, nonexistent |-> told2.nonexistent, disk |-> told2.disk]
        /\ told2.cache = [e \in Dir |-> told2.cache[e]]
        /\ \A e \in Dir : told2.cache[e] = IF e = p /\ d # Root THEN n ELSE there.cache[e]
    BY <2>1 DEF SetDir
  <2>3. t.disk = told2.disk /\ t.cache = [told2.cache EXCEPT ![d] = Absent]
    BY ONLY <1>1, <2>2 DEF SetDir
  <2> QED
    BY ONLY <2>2, <2>3, d \in Dir, p \in Dir
<1>10. ASSUME NEW e \in Dir \ {d}
       PROVE  /\ In(t.cache, e) => In(there.cache, e)
              /\ t.cache[e].listed = there.cache[e].listed
              /\ \A c : c # d => (c \in t.cache[e].subdirs <=> c \in there.cache[e].subdirs)
              /\ e = p /\ d # Root => d \notin t.cache[e].subdirs
  <2>1. CASE e = p /\ d # Root
    <3>1. t.cache[e] = n
      BY <1>7, <2>1
    <3> QED
      BY ONLY <1>2, <1>4, <2>1, <3>1
  <2>2. CASE ~(e = p /\ d # Root)
    <3>1. t.cache[e] = there.cache[e]
      BY <1>7, <2>2
    <3> QED
      BY ONLY <2>2, <3>1 DEF In
  <2> QED
    BY <2>1, <2>2
<1>8. ASSUME NEW e \in Dir, ListedIn(t, e), NEW c \in Children[e] \ ((known \ {d}) \cup more)
      PROVE  c \in t.cache[e].subdirs <=> There(t, {}, c)
  <2>1. e # d
    BY <1>7, <1>8 DEF ListedIn, In
  <2>2. c \in Dir \ {Root} /\ Parent[c] = e
    BY DEF Children, Parent
  <2>3. ListedIn(there, e)
    BY ONLY <1>8, <1>10, <2>1, e \in Dir DEF ListedIn
  <2>4. CASE c = d
    <3>1. e = p /\ d # Root
      BY <2>2, <2>4
    <3>2. c \notin t.cache[e].subdirs
      BY <1>10, <2>1, <2>4, <3>1
    <3>3. ~Exists(t.disk, c)
      BY ONLY <1>6, <1>7, <2>4, <3>1
    <3> QED
      BY ONLY <3>2, <3>3 DEF There
  <2>5. CASE c # d
    <3>1. c \in there.cache[e].subdirs <=> There(there, {d}, c)
      BY ONLY <1>5, <2>3, <2>5, e \in Dir, c \in Children[e] \ ((known \ {d}) \cup more) DEF Lists
    <3>2. c \in t.cache[e].subdirs <=> c \in there.cache[e].subdirs
      BY <1>10, <2>1, <2>5
    <3> QED
      BY ONLY <1>7, <2>5, <3>1, <3>2 DEF There
  <2> QED
    BY <2>4, <2>5
<1>9. ASSUME NEW c \in Dir, In(t.cache, c), ~There(t, {}, c) PROVE c \in (known \ {d}) \cup more
  <2>1. c # d
    BY <1>7, <1>9 DEF In
  <2>2. In(there.cache, c)
    BY <1>9, <1>10, <2>1
  <2>3. ~There(there, {d}, c)
    BY ONLY <1>7, <1>9, <2>1 DEF There
  <2> QED
    BY <1>5, <2>1, <2>2, <2>3 DEF Lists
<1> QED
  BY <1>8, <1>9 DEF Lists

-----------------------------------------------------------------------------
(* The same in memory, other files.                                          *)
LEMMA FilesList ==
  ASSUME NEW s, NEW t, t.cache = s.cache, NEW X, NEW Y, NEW known, NEW more,
         Lists(s, X, known), known \subseteq more,
         \A c \in Dir \ more : There(t, Y, c) <=> There(s, X, c)
  PROVE  Lists(t, Y, more)
<1>1. ASSUME NEW e \in Dir, ListedIn(t, e), NEW c \in Children[e] \ more
      PROVE  c \in t.cache[e].subdirs <=> There(t, Y, c)
  <2>1. c \in Dir \ more
    BY DEF Children
  <2>2. ListedIn(s, e)
    BY <1>1 DEF ListedIn
  <2> QED
    BY <2>1, <2>2 DEF Lists
<1>2. ASSUME NEW c \in Dir, In(t.cache, c), ~There(t, Y, c), c \notin more PROVE FALSE
  BY <1>2 DEF Lists
<1> QED
  BY <1>1, <1>2 DEF Lists

Shaped(s) ==
  /\ s = [cache |-> s.cache, nonexistent |-> s.nonexistent, disk |-> s.disk]
  /\ CacheOf(s.cache) /\ s.disk = [d \in Dir |-> s.disk[d]]

LEMMA FileLists ==
  ASSUME NEW s, Shaped(s), NEW d \in Dir, NEW f, NEW t, t = SetFiles(s, d, f),
         NEW X, NEW Y, NEW known, NEW more, Lists(s, X, known), known \subseteq more,
         d \in more \/ (f.file # NoFile \/ d \in Y <=> Exists(s.disk, d) \/ d \in X),
         \A e \in Dir \ {d} : e \in X <=> e \in Y
  PROVE  Lists(t, Y, more) /\ Shaped(t) /\ t.cache = s.cache
<1>1. /\ t = [cache |-> t.cache, nonexistent |-> t.nonexistent, disk |-> t.disk]
      /\ t.cache = s.cache /\ t.disk = [s.disk EXCEPT ![d] = f]
  BY DEF Shaped, SetFiles
<1>2. /\ t.disk = [e \in Dir |-> t.disk[e]] /\ t.disk[d] = f
      /\ \A e \in Dir \ {d} : t.disk[e] = s.disk[e]
  BY ONLY <1>1, Shaped(s), d \in Dir DEF Shaped
<1>3. \A c \in Dir \ more : There(t, Y, c) <=> There(s, X, c)
  BY <1>2 DEF There, Exists
<1>4. Lists(t, Y, more)
  BY <1>1, <1>3, FilesList
<1> QED
  BY ONLY <1>1, <1>2, <1>4, Shaped(s) DEF Shaped

(* The same names in memory.                                                 *)
LEMMA NodeLists ==
  ASSUME NEW s, Shaped(s), NEW d \in Dir, In(s.cache, d), NEW n, NEW t, t = SetDir(s, d, n),
         n.listed = s.cache[d].listed, n.subdirs = s.cache[d].subdirs,
         NEW X, NEW known, Lists(s, X, known)
  PROVE  Lists(t, X, known)
<1>1. /\ t.disk = s.disk /\ t.cache[d] = n
      /\ \A e \in Dir \ {d} : t.cache[e] = s.cache[e]
  BY ONLY Shaped(s), d \in Dir, t = SetDir(s, d, n) DEF Shaped, CacheOf, SetDir
<1>2. \A e \in Dir : Unlisted(s, t, e) /\ (There(t, X, e) <=> There(s, X, e))
  BY <1>1 DEF Unlisted, There, In
<1> QED
  BY <1>2, UnlistedLists

LEMMA ProperShape ==
  ASSUME NEW s, Proper(s)
  PROVE  Shaped(s)
BY DEF Proper, Shaped, DiskOf

LEMMA NotDirtyLists ==
  ASSUME NEW s, Shaped(s), NEW d \in Dir, In(s.cache, d), NEW X, NEW known, Lists(s, X, known)
  PROVE  Lists(NotDirty(s, d), X, known)
<1> PICK n : n = [s.cache[d] EXCEPT !.dirty = FALSE]
  OBVIOUS
<1>1. s.cache[d] \in NodeOf(d)
  BY DEF Shaped, CacheOf, In
<1>2. n.listed = s.cache[d].listed /\ n.subdirs = s.cache[d].subdirs
  BY <1>1 DEF NodeOf
<1>3. NotDirty(s, d) = SetDir(s, d, n)
  BY DEF NotDirty
<1> QED
  BY ONLY <1>2, <1>3, Shaped(s), d \in Dir, In(s.cache, d), Lists(s, X, known), NodeLists

LEMMA ChangeLists ==
  ASSUME NEW s, Proper(s), NEW k \in Key, In(s.cache, DirOf[k]), NEW e, NEW X, NEW known,
         Lists(s, X, known)
  PROVE  Lists(Change(s, k, e), X, known)
<1> PICK d \in Dir : d = DirOf[k]
  BY ParentType
<1> PICK l : l = Load(s, d)
  OBVIOUS
<1> PICK n : n = [l.cache[d] EXCEPT !.entries = [@ EXCEPT ![k] = e], !.dirty = TRUE]
  OBVIOUS
<1> PICK m : m = [s.cache[d] EXCEPT !.entries = Entries(s.cache, s.disk, d), !.loaded = TRUE]
  OBVIOUS
<1>1. s.cache[d] \in NodeOf(d) /\ Shaped(s)
  BY ProperShape DEF Proper, CacheOf, In
<1>2. l = SetDir(s, d, m)
  BY DEF Load
<1>3. l.cache[d] = m
  BY ONLY <1>1, <1>2, d \in Dir DEF Shaped, CacheOf, SetDir
<1>4. n.listed = s.cache[d].listed /\ n.subdirs = s.cache[d].subdirs
  BY ONLY <1>1, <1>3, n = [l.cache[d] EXCEPT !.entries = [@ EXCEPT ![k] = e], !.dirty = TRUE],
          m = [s.cache[d] EXCEPT !.entries = Entries(s.cache, s.disk, d), !.loaded = TRUE]
     DEF NodeOf
<1>5. Change(s, k, e) = SetDir(s, d, n)
  BY DEF Change
<1>6. In(s.cache, d)
  OBVIOUS
<1> QED
  BY ONLY <1>1, <1>4, <1>5, <1>6, d \in Dir, Lists(s, X, known), NodeLists

(* A step to t.                                                             *)
LEMMA ListsNext ==
  ASSUME NEW t, Become(t), Lists(t, Loose(sync'), overlooked')
  PROVE  ListInv'
<1>1. t.cache = Now'.cache /\ t.disk = Now'.disk
  BY DEF Become, Now
<1>2. \A c \in Dir \ overlooked' : There(Now', Loose(sync'), c) <=> There(t, Loose(sync'), c)
  BY <1>1 DEF There
<1>3. Lists(Now', Loose(sync'), overlooked')
  BY <1>1, <1>2, FilesList
<1> QED
  BY <1>3 DEF ListInv

LEMMA LooseIs ==
  ASSUME NEW y
  PROVE  /\ y.pc \notin {"rmdir", "into"} => Loose(y) = {}
         /\ y.pc = "rmdir" => Loose(y) = {y.dir}
         /\ y.pc = "into" => Loose(y) = IF y.oldExisted THEN {y.dir} ELSE {}
BY DEF Loose

LEMMA QuietLists ==
  ASSUME IInv, ListInv, sync.pc \in {"idle", "dir"}
  PROVE  Lists(Now, {}, overlooked) /\ Proper(Now) /\ Shaped(Now) /\ Loose(sync) = {}
<1>1. Proper(Now)
  BY DEF IInv, StoreInv
<1> QED
  BY <1>1, ProperShape, LooseIs DEF ListInv

LEMMA RequestLists ==
  ASSUME IInv, ListInv, NEW k \in Key, SetEntry(k) \/ SetFails(k) \/ UnsetEntry(k)
  PROVE  ListInv'
<1> PICK d \in Dir : d = DirOf[k]
  BY ParentType
<1>1. Lists(Now, {}, overlooked) /\ Proper(Now) /\ Loose(sync') = {}
  <2>1. sync.pc = "idle" /\ sync' = sync
    BY DEF SetEntry, SetFails, UnsetEntry, Changing, Free, Settled
  <2> QED
    BY <2>1, QuietLists
<1>2. CASE SetEntry(k)
  <2> PICK there : there = Ensure(Now, d)
    OBVIOUS
  <2>1. PICK e : Become(Change(there, k, e)) /\ overlooked' = overlooked \cup Overlooks(Now, d)
    BY <1>2 DEF SetEntry
  <2>2. Lists(there, {}, overlooked') /\ Proper(there) /\ In(there.cache, d)
    BY <1>1, <2>1, EnsureLists, EnsureGrows DEF Grows
  <2>3. Lists(Change(there, k, e), {}, overlooked')
    BY <2>2, ChangeLists
  <2> QED
    BY <1>1, <2>1, <2>3, ListsNext
<1>3. CASE SetFails(k)
  <2>1. PICK ds \in SUBSET Missing(disk, d) :
           disk' = CreateFsDir(disk, ds) /\ overlooked' = overlooked \cup ds
    BY <1>3 DEF SetFails
  <2>2. Now'.cache = Now.cache
    BY <1>3 DEF SetFails, memory, Now
  <2>3. \A c \in Dir \ overlooked' : There(Now', {}, c) <=> There(Now, {}, c)
    BY <2>1 DEF There, Exists, CreateFsDir, Now
  <2>4. Lists(Now', {}, overlooked')
    BY <1>1, <2>1, <2>2, <2>3, FilesList
  <2> QED
    BY <1>1, <2>4 DEF ListInv
<1>4. CASE UnsetEntry(k)
  <2> PICK there : there = Lookup(Now, d)
    OBVIOUS
  <2>1. \/ Become(there)
        \/ In(there.cache, d) /\ Become(Load(there, d))
        \/ In(there.cache, d) /\ \E e : Become(Change(there, k, e))
    BY <1>4 DEF UnsetEntry
  <2>2. overlooked' = overlooked
    BY <1>4 DEF UnsetEntry
  <2>3. Lists(there, {}, overlooked') /\ Proper(there)
    BY <1>1, <2>2, LookupLists, LookupGrows DEF Grows
  <2>4. CASE In(there.cache, d) /\ Become(Load(there, d))
    <3>1. Lists(Load(there, d), {}, overlooked')
      BY <2>3, <2>4, LoadLists
    <3> QED
      BY <1>1, <2>4, <3>1, ListsNext
  <2>5. CASE In(there.cache, d) /\ \E e : Become(Change(there, k, e))
    <3>1. PICK e : Become(Change(there, k, e))
      BY <2>5
    <3>2. Lists(Change(there, k, e), {}, overlooked')
      BY <2>3, <2>5, ChangeLists
    <3> QED
      BY <1>1, <3>1, <3>2, ListsNext
  <2> QED
    BY <1>1, <2>1, <2>3, <2>4, <2>5, ListsNext
<1> QED
  BY <1>2, <1>3, <1>4

LEMMA QueryLists ==
  ASSUME IInv, ListInv, NEW d \in Dir, Query(d)
  PROVE  ListInv'
<1> PICK there : there = Lookup(Now, d)
  OBVIOUS
<1>1. sync.pc = "idle" /\ sync' = sync /\ overlooked' = overlooked
  BY DEF Query, Free, Settled
<1>2. Lists(Now, {}, overlooked') /\ Proper(Now) /\ Loose(sync') = {}
  BY <1>1, QuietLists
<1>3. Lists(there, {}, overlooked') /\ Proper(there)
  BY <1>2, LookupLists, LookupGrows DEF Grows
<1>4. CASE Become(there)
  BY <1>2, <1>3, <1>4, ListsNext
<1>5. CASE In(there.cache, d) /\ Become(Load(there, d))
  <2>1. Lists(Load(there, d), {}, overlooked')
    BY <1>3, <1>5, LoadLists
  <2> QED
    BY <1>2, <1>5, <2>1, ListsNext
<1> QED
  BY <1>4, <1>5 DEF Query

LEMMA CleanLists ==
  ASSUME IInv, ListInv, NEW ds \in SUBSET Dir, Clean(ds)
  PROVE  ListInv'
<1>1. /\ sync.pc = "idle" /\ sync' = sync /\ Now'.disk = Now.disk
      /\ \A d \in Dir : Now'.cache[d] = IF d \in ds THEN Absent ELSE Now.cache[d]
      /\ overlooked' = overlooked \ {c \in Dir : Parent[c] \in ds /\ Exists(Now.disk, c)}
  BY DEF Clean, Free, Settled, Now
<1>2. Lists(Now, {}, overlooked) /\ Loose(sync') = {}
  BY <1>1, QuietLists
<1>3. ASSUME NEW e \in Dir, ListedIn(Now', e), NEW c \in Children[e] \ overlooked'
      PROVE  c \in Now'.cache[e].subdirs <=> There(Now', {}, c)
  <2>1. e \notin ds /\ Now'.cache[e] = Now.cache[e] /\ ListedIn(Now, e)
    BY <1>1, <1>3 DEF ListedIn, In
  <2>2. c \in Dir /\ Parent[c] = e
    BY DEF Children, Parent
  <2>3. c \notin overlooked
    BY <1>1, <2>1, <2>2
  <2>4. c \in Now.cache[e].subdirs <=> There(Now, {}, c)
    BY <1>2, <2>1, <2>3 DEF Lists
  <2> QED
    BY <1>1, <2>1, <2>4 DEF There
<1>4. ASSUME NEW c \in Dir, In(Now'.cache, c), ~There(Now', {}, c) PROVE c \in overlooked'
  <2>1. In(Now.cache, c) /\ ~There(Now, {}, c)
    BY <1>1, <1>4 DEF In, There
  <2>2. c \in overlooked /\ ~Exists(Now.disk, c)
    BY <1>2, <2>1 DEF Lists, There
  <2> QED
    BY <1>1, <2>2
<1>5. Lists(Now', {}, overlooked')
  BY <1>3, <1>4 DEF Lists
<1> QED
  BY <1>2, <1>5 DEF ListInv

(* Reading a directory that is to be saved.                                  *)
LEMMA ExaminedLists ==
  ASSUME IInv, NEW d \in Dir, In(cache, d), Lists(Now, {}, overlooked), NEW missed
  PROVE  /\ Lists(Examined(d, missed), {}, overlooked \cup missed) /\ Shaped(Examined(d, missed))
         /\ In(Examined(d, missed).cache, d) /\ Examined(d, missed).disk = disk
<1> PICK l : l = Load(Now, d)
  OBVIOUS
<1>1. Proper(Now) /\ In(Now.cache, d)
  BY DEF IInv, StoreInv, Now
<1>2. Lists(l, {}, overlooked) /\ Proper(l) /\ In(l.cache, d)
  BY <1>1, LoadLists, LoadGrows DEF Grows
<1>3. Examined(d, missed) = Rescan(l, d, missed)
  BY DEF Examined
<1>4. Lists(Examined(d, missed), {}, overlooked \cup missed)
  BY <1>2, <1>3, RescanLists
<1>5. Proper(Examined(d, missed)) /\ Examined(d, missed).disk = disk /\ Examined(d, missed).cache[d] \in NodeOf(d)
  BY ExaminedIs DEF Grows
<1> QED
  BY <1>4, <1>5, ProperShape, NodeFacts DEF In

LEMMA DoneLoose ==
  ASSUME NEW d
  PROVE  Loose(Done(d)) = {} /\ Loose(Failed(d)) = {} /\ Loose(Deleted(d)) = {}
<1>1. Done(d).pc = "dir" /\ Failed(d).pc = "dir" /\ Deleted(d).pc = "dir"
  BY DEF Done, Failed, Deleted
<1> QED
  BY <1>1, LooseIs

(* Steps that change neither memory nor disk.                                *)
LEMMA SameLists ==
  ASSUME IInv, ListInv, UNCHANGED <<memory, disk, overlooked>>, sync.pc \in {"idle", "dir"},
         Loose(sync') = {}
  PROVE  ListInv'
<1>1. Lists(Now, {}, overlooked') /\ Now' = Now
  BY QuietLists DEF memory, Now
<1> QED
  BY <1>1 DEF ListInv

LEMMA StartLists ==
  ASSUME IInv, ListInv, NEW what, Start(what)
  PROVE  ListInv'
<1>1. sync.pc = "idle" /\ sync' = [Idle EXCEPT !.pc = "dir", !.todo = AllCached, !.list = what]
  BY DEF Start, Free
<1>2. sync'.pc = "dir"
  BY <1>1 DEF Idle
<1>3. Loose(sync') = {}
  BY <1>2, LooseIs
<1> QED
  BY <1>1, <1>3, SameLists DEF Start

LEMMA SyncCleanLists ==
  ASSUME IInv, ListInv, NEW d \in Dir, SyncClean(d)
  PROVE  ListInv'
<1>1. sync.pc = "dir" /\ Loose(sync') = {}
  BY DoneLoose DEF SyncClean, At
<1> QED
  BY <1>1, SameLists DEF SyncClean

(* A directory whose turn it is.                                            *)
LEMMA DueLists ==
  ASSUME IInv, ListInv, NEW d \in Dir, At("dir"), d \in Due
  PROVE  /\ sync.pc = "dir" /\ In(cache, d) /\ In(Now.cache, d) /\ Now.disk = disk
         /\ Lists(Now, {}, overlooked) /\ Shaped(Now) /\ Proper(Now) /\ sync \in SyncOf
<1>1. sync.pc = "dir" /\ d \in sync.todo
  BY DEF At, Due
<1> QED
  BY <1>1, QuietLists DEF IInv, StoreInv, SyncInv, Now

LEMMA SyncUnlinkLists ==
  ASSUME IInv, ListInv, NEW d \in Dir, SyncUnlink(d)
  PROVE  ListInv'
<1>1. /\ sync.pc = "dir" /\ In(cache, d) /\ In(Now.cache, d) /\ Now.disk = disk
      /\ Lists(Now, {}, overlooked) /\ Shaped(Now) /\ Proper(Now) /\ sync \in SyncOf
  BY DueLists DEF SyncUnlink
<1>2. Exists(disk, d)
  BY DEF SyncUnlink
<1>3. ASSUME NEW known, known = overlooked', NEW s, Lists(s, {}, known), Proper(s), In(s.cache, d),
             s.disk = disk, Unlinked(s, d)
      PROVE  ListInv'
  <2> PICK f : f = [s.disk[d] EXCEPT !.file = NoFile]
    OBVIOUS
  <2> PICK g : g = SetFiles(s, d, f)
    OBVIOUS
  <2>1. f \in FilesOf(d) /\ f.file = NoFile
    <3>1. s.disk[d] \in FilesOf(d)
      BY <1>3 DEF Proper, DiskOf
    <3>2. NoFile \in File(d)
      BY DEF File
    <3> QED
      BY ONLY <3>1, <3>2, f = [s.disk[d] EXCEPT !.file = NoFile] DEF FilesOf
  <2>2. Shaped(s) /\ d \in {d}
    BY <1>3, ProperShape
  <2>3. f.file # NoFile \/ d \in {d} <=> Exists(s.disk, d) \/ d \in {}
    BY <1>2, <1>3
  <2>4. Lists(g, {d}, known) /\ g.cache = s.cache
    BY ONLY <1>3, <2>2, <2>3, d \in Dir, g = SetFiles(s, d, f), FileLists
  <2>5. FilesSetTo(s, g, d, f)
    BY ONLY <1>3, <2>1, d \in Dir, g = SetFiles(s, d, f), FilesSet
  <2>6. Proper(g) /\ g.disk[d] = f
    BY <2>5 DEF FilesSetTo
  <2>7. CASE d = Root
    <3>1. Become(ForgetDir(g, d)) /\ sync' = Deleted(d)
      BY <1>3, <2>7 DEF Unlinked
    <3>2. ~Exists(g.disk, d) /\ In(g.cache, d)
      BY <1>3, <2>1, <2>4, <2>6 DEF Exists
    <3>3. Lists(ForgetDir(g, d), {}, (known \ {d}) \cup {})
      BY <2>4, <2>6, <2>7, <3>2, ForgetLists
    <3>4. Lists(ForgetDir(g, d), {}, known)
      BY <3>3, MoreKnown
    <3>5. Loose(sync') = {}
      BY <3>1, DoneLoose
    <3> QED
      BY ONLY <1>3, <3>1, <3>4, <3>5, ListsNext
  <2>8. CASE d # Root
    <3>1. Become(g) /\ sync' = [sync EXCEPT !.pc = "rmdir", !.dir = d]
      BY <1>3, <2>8 DEF Unlinked, Go
    <3>2. sync'.pc = "rmdir" /\ sync'.dir = d
      BY ONLY <1>1, <3>1 DEF SyncOf
    <3>3. Loose(sync') = {d}
      BY <3>2, LooseIs
    <3> QED
      BY ONLY <1>3, <2>4, <3>1, <3>3, ListsNext
  <2> QED
    BY <2>7, <2>8
<1>4. ASSUME NEW missed, Unlinked(Examined(d, missed), d), overlooked' = overlooked \cup missed
      PROVE  ListInv'
  <2> PICK s : s = Examined(d, missed)
    OBVIOUS
  <2>1. Lists(s, {}, overlooked') /\ In(s.cache, d) /\ s.disk = disk
    BY <1>1, <1>4, ExaminedLists
  <2>2. Proper(s)
    BY <1>1, ExaminedIs DEF Grows
  <2> QED
    BY <1>3, <1>4, <2>1, <2>2
<1>5. CASE \E missed : Unlinked(Examined(d, missed), d) /\ overlooked' = overlooked \cup missed
  BY <1>4, <1>5
<1>6. CASE Unlinked(Now, d) /\ overlooked' = overlooked
  BY <1>1, <1>3, <1>6
<1> QED
  BY <1>5, <1>6 DEF SyncUnlink

LEMMA SyncUnlinkFailsLists ==
  ASSUME IInv, ListInv, NEW d \in Dir, SyncUnlinkFails(d)
  PROVE  ListInv'
<1> PICK missed : Become(Examined(d, missed)) /\ overlooked' = overlooked \cup missed
  BY DEF SyncUnlinkFails
<1>1. Lists(Examined(d, missed), {}, overlooked')
  BY DueLists, ExaminedLists DEF SyncUnlinkFails
<1>2. sync' = Failed(d)
  BY DEF SyncUnlinkFails
<1> QED
  BY <1>1, <1>2, DoneLoose, ListsNext

LEMMA SyncRmdirLists ==
  ASSUME IInv, ListInv, SyncRmdir
  PROVE  ListInv'
<1> PICK d : d = sync.dir
  OBVIOUS
<1>1. sync.pc = "rmdir" /\ StoreInv(Now, sync, spoilt) /\ SyncInv(Now, sync) /\ Proper(Now)
  BY DEF SyncRmdir, At, IInv, StoreInv
<1>2. d \in Dir /\ d # Root /\ Now.disk[d].file = NoFile /\ Shaped(Now) /\ Loose(sync) = {d}
  BY <1>1, ProperShape, LooseIs DEF SyncInv, SyncOf
<1>3. Lists(Now, {d}, overlooked)
  BY <1>2 DEF ListInv
<1>4. CASE /\ Become(ForgetDir(SetFiles(Now, d, NoDir), d)) /\ sync' = Deleted(d)
           /\ overlooked' = (overlooked \ {d}) \cup Overlooks(SetFiles(Now, d, NoDir), Parent[d])
  <2> PICK g : g = SetFiles(Now, d, NoDir)
    OBVIOUS
  <2>1. NoDir \in FilesOf(d) /\ NoDir.file = NoFile
    BY DEF NoDir, FilesOf, File
  <2>2. Lists(g, {d}, overlooked)
    BY ONLY <1>2, <1>3, g = SetFiles(Now, d, NoDir), FileLists
  <2>3. FilesSetTo(Now, g, d, NoDir)
    BY ONLY <1>1, <1>2, <2>1, g = SetFiles(Now, d, NoDir), FilesSet
  <2>4. Proper(g) /\ ~Exists(g.disk, d)
    BY <2>1, <2>3 DEF FilesSetTo, Exists
  <2>5. Lists(ForgetDir(g, d), {}, (overlooked \ {d}) \cup Overlooks(g, Parent[d]))
    BY <1>2, <2>2, <2>4, ForgetLists
  <2>6. Lists(ForgetDir(g, d), Loose(sync'), overlooked')
    BY <1>4, <2>5, DoneLoose
  <2> QED
    BY <1>4, <2>6, ListsNext
<1>5. CASE Become(Now) /\ sync' = Failed(d) /\ overlooked' = overlooked \cup {d}
  <2>1. \A c \in Dir \ overlooked' : There(Now, {}, c) <=> There(Now, {d}, c)
    BY <1>5 DEF There
  <2>2. overlooked \subseteq overlooked'
    BY <1>5
  <2>3. Lists(Now, {}, overlooked')
    BY ONLY <1>3, <2>1, <2>2, FilesList
  <2> QED
    BY <1>5, <2>3, DoneLoose, ListsNext
<1> QED
  BY <1>4, <1>5 DEF SyncRmdir, This

LEMMA SyncWriteLists ==
  ASSUME IInv, ListInv, NEW d \in Dir, SyncWrite(d)
  PROVE  ListInv'
<1> PICK missed : Wrote(d, Examined(d, missed)) /\ overlooked' = overlooked \cup missed
  BY DEF SyncWrite, Wrote, Go
<1> PICK s : s = Examined(d, missed)
  OBVIOUS
<1>1. Lists(s, {}, overlooked') /\ Shaped(s) /\ s.disk = disk /\ sync \in SyncOf
  BY DueLists, ExaminedLists DEF SyncWrite
<1>2. PICK left : /\ Become(SetFiles(s, d, [s.disk[d] EXCEPT !.tmp = left]))
                  /\ sync' = Failed(d) \/ sync' = [sync EXCEPT !.pc = "aside", !.dir = d]
  BY <1>1 DEF Wrote
<1> PICK f : f = [s.disk[d] EXCEPT !.tmp = left]
  OBVIOUS
<1>3. s.disk[d] \in FilesOf(d)
  BY <1>1 DEF IInv, StoreInv, Proper, DiskOf, Now
<1>4. f.file = s.disk[d].file
  BY <1>3 DEF FilesOf
<1>5. Lists(SetFiles(s, d, f), {}, overlooked')
  BY ONLY <1>1, <1>4, d \in Dir, FileLists DEF Exists
<1>6. Loose(sync') = {}
  <2>1. CASE sync' = Failed(d)
    BY <2>1, DoneLoose
  <2>2. CASE sync' = [sync EXCEPT !.pc = "aside", !.dir = d]
    <3>1. sync'.pc = "aside"
      BY ONLY <1>1, <2>2 DEF SyncOf
    <3> QED
      BY <3>1, LooseIs
  <2> QED
    BY <1>2, <2>1, <2>2
<1>7. Become(SetFiles(s, d, f))
  BY <1>2
<1> QED
  BY ONLY <1>5, <1>6, <1>7, ListsNext

LEMMA SyncAsideLists ==
  ASSUME IInv, ListInv, SyncAside
  PROVE  ListInv'
<1> PICK d : d = sync.dir
  OBVIOUS
<1>1. sync.pc = "aside" /\ overlooked' = overlooked
  BY DEF SyncAside, At
<1>2. d \in Dir /\ sync \in SyncOf /\ Proper(Now) /\ Shaped(Now) /\ disk[d] \in FilesOf(d) /\ Now.disk = disk
  BY <1>1, AtHand, ProperShape DEF Now
<1>3. Lists(Now, {}, overlooked)
  BY <1>1, LooseIs DEF ListInv
<1>4. ~sync.oldExisted
  BY <1>1 DEF IInv, StoreInv, SyncInv
<1>5. CASE sync' = [sync EXCEPT !.pc = "into"] /\ Become(Now)
  <2>1. sync'.pc = "into" /\ sync'.oldExisted = sync.oldExisted
    BY ONLY <1>2, <1>5 DEF SyncOf
  <2>2. Loose(sync') = {}
    BY <1>4, <2>1, LooseIs
  <2> QED
    BY <1>1, <1>3, <1>5, <2>2, ListsNext
<1>6. CASE /\ Exists(disk, d) /\ sync' = [sync EXCEPT !.pc = "into", !.oldExisted = TRUE]
           /\ Become(SetFiles(Now, d, [disk[d] EXCEPT !.old = disk[d].file, !.file = NoFile]))
  <2> PICK f : f = [disk[d] EXCEPT !.old = disk[d].file, !.file = NoFile]
    OBVIOUS
  <2>1. sync'.pc = "into" /\ sync'.oldExisted /\ sync'.dir = d
    BY ONLY <1>2, <1>6, d = sync.dir DEF SyncOf
  <2>2. Loose(sync') = {d}
    BY <2>1, LooseIs
  <2>3. f.file # NoFile \/ d \in {d} <=> Exists(Now.disk, d) \/ d \in {}
    BY <1>2, <1>6
  <2>4. Lists(SetFiles(Now, d, f), {d}, overlooked)
    BY ONLY <1>2, <1>3, <2>3, FileLists
  <2> QED
    BY <1>1, <1>6, <2>2, <2>4, ListsNext
<1>7. CASE sync' = Failed(d) /\ Become(Now)
  BY <1>1, <1>3, <1>7, DoneLoose, ListsNext
<1> QED
  BY <1>5, <1>6, <1>7 DEF SyncAside, This, Goto

LEMMA SyncIntoLists ==
  ASSUME IInv, ListInv, SyncInto
  PROVE  ListInv'
<1> PICK d : d = sync.dir
  OBVIOUS
<1> PICK X : X = Loose(sync)
  OBVIOUS
<1>1. sync.pc = "into" /\ X = IF sync.oldExisted THEN {d} ELSE {}
  BY LooseIs DEF SyncInto, At
<1>2. /\ d \in Dir /\ sync \in SyncOf /\ Proper(Now) /\ Shaped(Now) /\ disk[d] \in FilesOf(d)
      /\ In(cache, d) /\ cache[d].entries \in EntriesOf(d)
      /\ Now.disk = disk /\ Now.cache = cache
  BY <1>1, AtHand, ProperShape DEF Now
<1>3. disk[d].file = NoFile /\ (sync.oldExisted => disk[d].old # NoFile)
  BY <1>1, <1>2 DEF IInv, StoreInv, SyncInv
<1>4. Lists(Now, X, overlooked)
  BY DEF ListInv
<1>5. ~sync.oldExisted => d \in overlooked
  <2> SUFFICES ASSUME ~sync.oldExisted PROVE d \in overlooked
    OBVIOUS
  <2>1. ~There(Now, X, d) /\ In(Now.cache, d)
    BY <1>1, <1>2, <1>3 DEF There, Exists
  <2> QED
    BY <1>2, <1>4, <2>1 DEF Lists
<1>6. \A e \in Dir \ {d} : e \in X <=> e \in {}
  BY <1>1
<1>7. CASE /\ overlooked' = overlooked
           /\ IF sync.oldExisted
              THEN Become(Saving(d)) /\ sync' = [sync EXCEPT !.pc = "drop"]
              ELSE Become(NotDirty(Saving(d), d)) /\ sync' = Done(d)
  <2> PICK f : f = [disk[d] EXCEPT !.file = cache[d].entries, !.tmp = FALSE]
    OBVIOUS
  <2> PICK s : s = SetFiles(Now, d, f)
    OBVIOUS
  <2>1. f.file = cache[d].entries
    BY <1>2 DEF FilesOf
  <2>2. NoFile \notin EntriesOf(d)
    BY <1>2, ContentType DEF Proper
  <2>3. d \in overlooked \/ (f.file # NoFile \/ d \in {} <=> Exists(Now.disk, d) \/ d \in X)
    <3>1. f.file # NoFile
      BY ONLY <1>2, <2>1, <2>2
    <3>2. sync.oldExisted => d \in X
      BY <1>1
    <3> QED
      BY ONLY <1>5, <3>1, <3>2
  <2>4. Lists(s, {}, overlooked) /\ Shaped(s) /\ s.cache = Now.cache
    <3>1. d \in Dir /\ Shaped(Now) /\ overlooked \subseteq overlooked
      BY <1>2
    <3> QED
      BY ONLY <1>4, <1>6, <2>3, <3>1, s = SetFiles(Now, d, f), FileLists
  <2>5. Saving(d) = s
    BY DEF Saving
  <2>6. CASE sync.oldExisted
    <3>1. sync'.pc = "drop"
      BY ONLY <1>2, <1>7, <2>6 DEF SyncOf
    <3>2. Loose(sync') = {}
      BY <3>1, LooseIs
    <3> QED
      BY <1>7, <2>4, <2>5, <2>6, <3>2, ListsNext
  <2>7. CASE ~sync.oldExisted
    <3>1. Lists(NotDirty(s, d), {}, overlooked)
      BY ONLY <1>2, <2>4, NotDirtyLists
    <3>2. Loose(sync') = {}
      BY <1>7, <2>7, DoneLoose
    <3> QED
      BY <1>7, <2>5, <2>7, <3>1, <3>2, ListsNext
  <2> QED
    BY <2>6, <2>7
<1>8. CASE Become(Restored(d)) /\ sync' = Failed(d) /\ overlooked' = overlooked
  <2> PICK f : f = [disk[d] EXCEPT !.file = disk[d].old, !.old = NoFile]
    OBVIOUS
  <2>1. f.file = disk[d].old
    BY <1>2 DEF FilesOf
  <2>2. d \in overlooked \/ (f.file # NoFile \/ d \in {} <=> Exists(Now.disk, d) \/ d \in X)
    BY <1>1, <1>3, <1>5, <2>1
  <2>3. Lists(SetFiles(Now, d, f), {}, overlooked)
    <3>1. d \in Dir /\ Shaped(Now) /\ overlooked \subseteq overlooked
      BY <1>2
    <3> QED
      BY ONLY <1>4, <1>6, <2>2, <3>1, FileLists
  <2>4. Restored(d) = SetFiles(Now, d, f)
    BY DEF Restored
  <2> QED
    BY <1>8, <2>3, <2>4, DoneLoose, ListsNext
<1>9. CASE Become(Now) /\ sync' = Failed(d) /\ overlooked' = overlooked \cup {d}
  <2>1. \A c \in Dir \ overlooked' : There(Now, {}, c) <=> There(Now, X, c)
    BY <1>1, <1>9 DEF There
  <2>2. overlooked \subseteq overlooked'
    BY <1>9
  <2>3. Lists(Now, {}, overlooked')
    BY ONLY <1>4, <2>1, <2>2, FilesList
  <2> QED
    BY <1>9, <2>3, DoneLoose, ListsNext
<1> QED
  BY <1>7, <1>8, <1>9 DEF SyncInto, This, Goto

LEMMA SyncDropLists ==
  ASSUME IInv, ListInv, SyncDrop
  PROVE  ListInv'
<1> PICK d : d = sync.dir
  OBVIOUS
<1>1. sync.pc = "drop" /\ overlooked' = overlooked /\ sync' = Done(d)
  BY DEF SyncDrop, At, This
<1>2. d \in Dir /\ In(cache, d) /\ Shaped(Now) /\ disk[d] \in FilesOf(d) /\ Now.disk = disk /\ Now.cache = cache
  BY <1>1, AtHand, ProperShape DEF Now
<1>3. Lists(Now, {}, overlooked)
  BY <1>1, LooseIs DEF ListInv
<1> PICK f : f = [disk[d] EXCEPT !.old = NoFile]
  OBVIOUS
<1> PICK s : s = SetFiles(Now, d, f)
  OBVIOUS
<1>4. f.file = Now.disk[d].file
  BY <1>2 DEF FilesOf
<1>5. Lists(s, {}, overlooked) /\ Shaped(s) /\ s.cache = cache
  BY ONLY <1>2, <1>3, <1>4, s = SetFiles(Now, d, f), FileLists DEF Exists
<1>6. Lists(NotDirty(s, d), {}, overlooked) /\ Lists(NotDirty(Now, d), {}, overlooked)
  BY ONLY <1>2, <1>3, <1>5, NotDirtyLists
<1>7. Become(NotDirty(s, d)) \/ Become(NotDirty(Now, d))
  BY DEF SyncDrop, This
<1> QED
  BY <1>1, <1>6, <1>7, DoneLoose, ListsNext

LEMMA SyncEndLists ==
  ASSUME IInv, ListInv, SyncEnd
  PROVE  ListInv'
<1>1. sync.pc = "dir" /\ Proper(Now) /\ sync \in SyncOf
  BY DEF SyncEnd, At, IInv, StoreInv, SyncInv
<1>2. Loose(sync') = {}
  <2>1. CASE sync' = [sync EXCEPT !.todo = AllCached, !.deletedSome = FALSE]
    <3>1. sync'.pc = "dir"
      BY ONLY <1>1, <2>1 DEF SyncOf
    <3> QED
      BY <3>1, LooseIs
  <2>2. CASE sync' = Idle
    <3>1. sync'.pc = "idle"
      BY <2>2 DEF Idle
    <3> QED
      BY <3>1, LooseIs
  <2> QED
    BY <2>1, <2>2 DEF SyncEnd
<1>3. CASE UNCHANGED <<memory, disk, overlooked>>
  BY <1>1, <1>2, <1>3, SameLists
<1>4. CASE sync.list # NoFile /\ AnswerSubdirs(sync.list)
  <2> PICK d \in Dir : d = sync.list
    BY <1>1, <1>4 DEF SyncOf
  <2> PICK there : there = Lookup(Now, d)
    OBVIOUS
  <2>1. Lists(there, {}, overlooked) /\ Proper(there)
    BY <1>1, QuietLists, LookupLists, LookupGrows DEF Grows
  <2>2. CASE In(there.cache, d)
    <3> PICK missed : /\ Become(Rescan(there, d, missed))
                      /\ overlooked' = overlooked \cup missed
      BY <1>4, <2>2 DEF AnswerSubdirs
    <3>1. Lists(Rescan(there, d, missed), {}, overlooked')
      BY <2>1, <2>2, RescanLists
    <3> QED
      BY <1>2, <3>1, ListsNext
  <2>3. CASE ~In(there.cache, d)
    <3>1. Become(there) /\ overlooked' = overlooked
      BY <1>4, <2>3 DEF AnswerSubdirs
    <3> QED
      BY <1>2, <2>1, <3>1, ListsNext
  <2> QED
    BY <2>2, <2>3
<1> QED
  BY <1>3, <1>4 DEF SyncEnd

(* Nothing in memory.                                                       *)
LEMMA EmptyLists ==
  ASSUME NEW s, \A d \in Dir : s.cache[d] = Absent, NEW X, NEW known
  PROVE  Lists(s, X, known)
BY DEF Lists, ListedIn, In

LEMMA ListInvInit ==
  ASSUME Init
  PROVE  ListInv
<1>1. \A d \in Dir : Now.cache[d] = Absent
  BY DEF Init, Now
<1> QED
  BY <1>1, EmptyLists DEF ListInv

LEMMA ListInvNext ==
  ASSUME IInv, ListInv, [Next]_vars
  PROVE  ListInv'
<1>1. CASE UNCHANGED vars
  <2>1. Now' = Now /\ sync' = sync /\ overlooked' = overlooked
    BY <1>1 DEF vars, memory, Now
  <2> QED
    BY <2>1 DEF ListInv
<1>2. CASE \E k \in Key : SetEntry(k) \/ SetFails(k) \/ UnsetEntry(k)
  BY <1>2, RequestLists
<1>3. CASE \E d \in Dir : Query(d)
  BY <1>3, QueryLists
<1>4. CASE \E ds \in SUBSET Dir \ {{}} : Clean(ds)
  BY <1>4, CleanLists
<1>5. CASE SyncAll \/ \E d \in Dir : AllSubdirs(d)
  BY <1>5, StartLists DEF SyncAll, AllSubdirs
<1>6. CASE \E d \in Dir : SyncClean(d) \/ SyncUnlink(d) \/ SyncUnlinkFails(d) \/ SyncWrite(d)
  BY <1>6, SyncCleanLists, SyncUnlinkLists, SyncUnlinkFailsLists, SyncWriteLists
<1>7. CASE SyncRmdir
  BY <1>7, SyncRmdirLists
<1>8. CASE SyncAside
  BY <1>8, SyncAsideLists
<1>9. CASE SyncInto
  BY <1>9, SyncIntoLists
<1>10. CASE SyncDrop
  BY <1>10, SyncDropLists
<1>11. CASE SyncEnd
  BY <1>11, SyncEndLists
<1>12. CASE Restart
  <2>1. \A d \in Dir : Now'.cache[d] = Absent
    BY <1>12 DEF Restart, Now
  <2>2. Lists(Now', Loose(sync'), overlooked')
    BY <2>1, EmptyLists
  <2> QED
    BY <2>2 DEF ListInv
<1> QED
  BY <1>1, <1>2, <1>3, <1>4, <1>5, <1>6, <1>7, <1>8, <1>9, <1>10, <1>11, <1>12 DEF Next

(* The names all_subdirs answers from memory are the directories that are     *)
(* there, but for those whose parent was never told of them or missed them    *)
(* when it was scanned: an invariant of every step of a save as well, with    *)
(* the directory at hand counted as there while its file is moved aside or    *)
(* deleted (dir_sync, dir_rescan_subdirs, cache_add_to_parent,               *)
(* cache_remove_from_parent).                                                *)
THEOREM ListingHolds == Spec => []ListingIsTrue
<1>1. Init => IInv /\ ListInv
  BY InitMaps, ListInvInit
<1>2. IInv /\ ListInv /\ [Next]_vars => IInv' /\ ListInv'
  BY NextMaps, ListInvNext
<1>3. IInv /\ ListInv => ListingIsTrue
  <2> SUFFICES ASSUME IInv, ListInv, sync.pc = "idle", NEW d \in Dir, In(cache, d), cache[d].listed,
                      NEW c \in Children[d] \ overlooked
               PROVE  c \in cache[d].subdirs <=> Exists(disk, c)
    BY DEF ListingIsTrue, Free
  <2>1. Lists(Now, {}, overlooked)
    BY QuietLists
  <2>2. ListedIn(Now, d) /\ Now.cache = cache /\ Now.disk = disk
    BY DEF ListedIn, Now
  <2> QED
    BY <2>1, <2>2 DEF Lists, There
<1> QED
  BY <1>1, <1>2, <1>3, PTL DEF Spec
=============================================================================
