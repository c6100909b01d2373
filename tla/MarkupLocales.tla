---------------------------- MODULE MarkupLocales ----------------------------
(***************************************************************************)
(* backends/markup-tree.c: the localized parts of schemas in one subtree    *)
(* that is saved to %gconf-tree.xml.  That file has the values, the         *)
(* descriptions of locale C and the default values of every locale; the      *)
(* descriptions of another locale are in %gconf-tree-LOCALE.xml, which is     *)
(* read when a schema is asked for in that locale.                          *)
(***************************************************************************)
EXTENDS Naturals, Sequences, FiniteSetsExt

CONSTANTS
    SchemaKey,  \* keys that may have a schema
    Other,      \* locales other than C
    Type,       \* types of values a schema may give
    MaxSets,    \* bound: requests that change something
    MaxFailures \* bound: locale files that cannot be written

ASSUME LocalesAssumption ==
    "C" \notin Other /\ IsFiniteSet(Other) /\ MaxSets \in Nat /\ MaxFailures \in Nat

None == "none"
Locale == Other \cup {"C"}

VARIABLES
    entry,      \* MarkupEntry: value and local_schemas
    available,  \* available_local_descs: "no", "unread" or "read"
    allLoaded,  \* all_local_descs_loaded
    main,       \* %gconf-tree.xml
    files,      \* the %gconf-tree-LOCALE.xml
    dirty,      \* something is to be saved
    sets, failures,
    asked,      \* history: what was set
    gaps        \* history: descriptions the code is known to lose or bring back

treeMemory == <<entry, available, allLoaded>>
treeFiles == <<main, files>>
localesVars == <<treeMemory, treeFiles, dirty, sets, failures, asked, gaps>>

\* LocalSchemaInfo; a default value is given by its type.
Text == {None, "text"}
Info == [short : Text, long : Text, default : Type \cup {None}]
NoInfo == [short |-> None]
NoLocals == [l \in Locale |-> NoInfo]
Unset == [kind |-> "unset", locals |-> NoLocals]
Plain == [kind |-> "plain", locals |-> NoLocals]
MarkupEntry == {Unset, Plain} \cup
         [kind : {"schema"}, type : Type, locals : [Locale -> Info \cup {NoInfo}]]
NoDescs == [k \in {} |-> NoInfo]

IsSchema(e) == e.kind = "schema"

-----------------------------------------------------------------------------
(***************************************************************************)
(* Reading the file of a locale.                                            *)
(***************************************************************************)
\* Mutant: a description takes the place of a default value.
TakeOver(here, read) == read

\* end_element_handler: what is there keeps its default value, takes the short description and
\* loses the long one.
Merge(here, read) ==
    IF here = NoInfo THEN read
    ELSE [here EXCEPT !.short = read.short, !.long = None]

Read(es, ls) ==
    [k \in SchemaKey |->
        IF ~IsSchema(es[k]) THEN es[k]
        ELSE [es[k] EXCEPT !.locals =
                [l \in Locale |-> IF l \in ls /\ k \in DOMAIN files[l]
                                 THEN Merge(@[l], files[l][k]) ELSE @[l]]]]

\* ensure_schema_descs_loaded for one locale or for all: C has no file.
Loads(l) == ~allLoaded /\ l \in Other /\ available[l] = "unread"
EnsureLoaded(es, ls) == Read(es, {l \in ls : Loads(l)})
MarkLoaded(ls) ==
    /\ available' = [l \in Other |-> IF l \in ls /\ Loads(l) THEN "read" ELSE available[l]]
    /\ allLoaded' = (allLoaded \/ ((\E l \in ls : Loads(l)) /\ \A l \in Other : available'[l] # "unread"))

-----------------------------------------------------------------------------
(***************************************************************************)
(* Requests.                                                                *)
(***************************************************************************)
Setting == sets < MaxSets /\ sets' = sets + 1 /\ dirty' = TRUE /\ UNCHANGED <<treeFiles, failures>>

Schema(e, t, l, info) ==
    [kind |-> "schema", type |-> t, locals |-> [e.locals EXCEPT ![l] = info]]

SetSchema(k, l) ==
    /\ Setting
    /\ \E t \in Type : \E info \in [short : Text, long : Text, default : {t, None}] :
          /\ entry' = [EnsureLoaded(entry, {l}) EXCEPT ![k] = Schema(@, t, l, info)]
          /\ asked' = [asked EXCEPT ![k] = Schema(@, t, l, info)]
    /\ MarkLoaded({l})
    /\ gaps' = gaps \ {<<k, l>>}

\* A value that is no schema drops the descriptions that are in memory.
SetPlain(k) ==
    /\ Setting
    /\ entry' = [entry EXCEPT ![k] = Plain]
    /\ asked' = [asked EXCEPT ![k] = Plain]
    /\ gaps' = gaps \cup {<<k, l>> : l \in {x \in Other : Loads(x) /\ k \in DOMAIN files[x]}}
    /\ UNCHANGED <<available, allLoaded>>

UnsetAll(k) ==
    /\ Setting /\ entry[k] # Unset
    /\ entry' = IF IsSchema(entry[k])
                THEN EnsureLoaded([entry EXCEPT ![k] = Unset], Other)
                ELSE [entry EXCEPT ![k] = Unset]
    /\ asked' = [asked EXCEPT ![k] = Unset]
    /\ IF IsSchema(entry[k])
       THEN MarkLoaded(Other)
       ELSE UNCHANGED <<available, allLoaded>>
    /\ UNCHANGED gaps

UnsetLocale(k, l) ==
    /\ Setting /\ IsSchema(entry[k])
    /\ entry' = [EnsureLoaded(entry, {l}) EXCEPT ![k].locals[l] = NoInfo]
    /\ asked' = [asked EXCEPT ![k].locals[l] = NoInfo]
    /\ MarkLoaded({l})
    /\ gaps' = gaps \ {<<k, l>>}

\* markup_entry_get_value: the first locale of the list that has something, and what is missing
\* from C.
Pick(e, ls) ==
    IF ~IsSchema(e) THEN e
    ELSE LET found == {i \in DOMAIN ls : e.locals[ls[i]] # NoInfo}
             best == IF found = {} THEN NoInfo ELSE e.locals[ls[Min(found)]]
             c == e.locals["C"]
             Part(f) == IF best # NoInfo /\ best[f] # None THEN best[f]
                        ELSE IF c # NoInfo THEN c[f] ELSE None
         IN [type |-> e.type,
             locale |-> IF found = {} THEN "C" ELSE ls[Min(found)],
             default |-> Part("default"), short |-> Part("short"), long |-> Part("long")]

GetValue(k, l) ==
    /\ IsSchema(entry[k]) /\ Loads(l)
    /\ entry' = EnsureLoaded(entry, {l})
    /\ MarkLoaded({l})
    /\ UNCHANGED <<treeFiles, dirty, sets, failures, asked, gaps>>

-----------------------------------------------------------------------------
(***************************************************************************)
(* Saving and reading again.                                                *)
(***************************************************************************)
\* clean_old_local_schemas: default values of another type than the schema says.
CleanOld(e) ==
    IF ~IsSchema(e) THEN e
    ELSE [e EXCEPT !.locals = [l \in Locale |->
            IF e.locals[l] # NoInfo /\ e.locals[l].default \notin {e.type, None}
            THEN NoInfo ELSE e.locals[l]]]

\* write_local_schema_info into %gconf-tree.xml.
InMain(e) ==
    IF ~IsSchema(e) THEN e
    ELSE [e EXCEPT !.locals = [l \in Locale |->
            IF l = "C" \/ e.locals[l] = NoInfo THEN e.locals[l]
            ELSE IF e.locals[l].default = None THEN NoInfo
            ELSE [e.locals[l] EXCEPT !.short = None, !.long = None]]]

\* get_non_c_desc_locales: only an entry with both descriptions makes a file for the locale.
Complete(i) == i # NoInfo /\ i.short # None /\ i.long # None
WithFile(es) == {l \in Other : \E k \in SchemaKey : Complete(es[k].locals[l])}
InFile(es, l) ==
    [k \in {x \in SchemaKey : es[x].locals[l] # NoInfo} |-> [es[k].locals[l] EXCEPT !.default = None]]

\* What of it the next process will not read as it is in memory.
LosesLong(i) == i # NoInfo /\ i.default # None /\ i.long # None
LosesText(i, l, ls) == i # NoInfo /\ l \notin ls /\ (i.short # None \/ i.long # None)
LosesMark(i) == i # NoInfo /\ ~(i.short # None \/ i.long # None \/ i.default # None)
ComesBack(k, l, ls) ==
    l \notin ls /\ k \in DOMAIN files[l] /\ (Loads(l) => CleanOld(entry[k]).locals[l] # entry[k].locals[l])

Save ==
    /\ dirty /\ dirty' = FALSE
    /\ LET es == [k \in SchemaKey |-> CleanOld(entry[k])]
           ls == WithFile(es)
       IN /\ entry' = es
          /\ asked' = [k \in SchemaKey |-> CleanOld(asked[k])]
          /\ main' = [k \in SchemaKey |-> InMain(es[k])]
          /\ \E failed \in SUBSET ls :                 \* other_locales_foreach forgets the error
                /\ failures + Cardinality(failed) <= MaxFailures
                /\ failures' = failures + Cardinality(failed)
                /\ files' = [l \in Other |-> IF l \in ls \ failed THEN InFile(es, l) ELSE files[l]]
                /\ gaps' = gaps \cup (SchemaKey \X failed) \cup
                      {kl \in SchemaKey \X Other :
                         LET i == es[kl[1]].locals[kl[2]]
                         IN \/ LosesLong(i)
                            \/ LosesText(i, kl[2], ls) \/ (LosesMark(i) /\ kl[2] \notin ls)
                            \/ ComesBack(kl[1], kl[2], ls)}
          /\ UNCHANGED <<available, allLoaded, sets>>

\* Load what was saved; anything else is lost with the process.
ReadAgain ==
    /\ ~dirty
    /\ entry' = main
    /\ available' = [l \in Other |-> IF files[l] = NoDescs THEN "no" ELSE "unread"]
    /\ allLoaded' = \A l \in Other : files[l] = NoDescs
    /\ UNCHANGED <<treeFiles, dirty, sets, failures, asked, gaps>>

LocalesInit ==
    /\ entry = [k \in SchemaKey |-> Unset] /\ main = entry /\ asked = entry
    /\ files = [l \in Other |-> NoDescs]
    /\ available = [l \in Other |-> "no"] /\ allLoaded = TRUE
    /\ dirty = FALSE /\ sets = 0 /\ failures = 0 /\ gaps = {}

LocalesNext ==
    \/ \E k \in SchemaKey, l \in Locale : SetSchema(k, l)
    \/ \E k \in SchemaKey : SetPlain(k)
    \/ \E k \in SchemaKey : UnsetAll(k)
    \/ \E k \in SchemaKey, l \in Locale : UnsetLocale(k, l)
    \/ \E k \in SchemaKey, l \in Other : GetValue(k, l)
    \/ Save
    \/ ReadAgain

LocalesSpec == LocalesInit /\ [][LocalesNext]_localesVars
-----------------------------------------------------------------------------
(***************************************************************************)
(* Properties.                                                              *)
(***************************************************************************)
\* Every variable has its shape; only a schema has localized parts.
LocalesTypeOK ==
    /\ entry \in [SchemaKey -> MarkupEntry] /\ main \in [SchemaKey -> MarkupEntry] /\ asked \in [SchemaKey -> MarkupEntry]
    /\ \A l \in Other : DOMAIN files[l] \subseteq SchemaKey /\ \A k \in DOMAIN files[l] : files[l][k] \in Info
    /\ available \in [Other -> {"no", "unread", "read"}] /\ allLoaded \in BOOLEAN
    /\ allLoaded => \A l \in Other : available[l] # "unread"
    /\ dirty \in BOOLEAN /\ sets \in 0..MaxSets /\ failures \in 0..MaxFailures
    /\ gaps \subseteq SchemaKey \X Other

Answered(k, l) == Pick(EnsureLoaded(entry, {l})[k], <<l>>)

\* A schema is answered in each locale as it was set, whichever files were read before, and after
\* saving it in parts and reading it again (save_tree, ensure_schema_descs_loaded), but where the
\* code is known to lose a description or to find an old one.
AnsweredAsSet ==
    \A k \in SchemaKey, l \in Locale : <<k, l>> \notin gaps => Answered(k, l) = Pick(asked[k], <<l>>)
=============================================================================
