---------------------------- MODULE SourceStack ----------------------------
(***************************************************************************)
(* gconf/gconf-sources.c: a database is a stack of sources, searched from   *)
(* the front.  Each layer of a stack is a storage (one backend and resource, *)
(* which several stacks may share) opened for writing or read-only.         *)
(*                                                                          *)
(* A storage keeps for each key a value and the name of the key's schema.   *)
(* The value of a schema key is a schema, which has a default value.        *)
(* Locales, types and the metainfo other than the schema name are left out. *)
(*                                                                          *)
(* A storage in broken answers every call with an error, as the xml backend *)
(* does for a directory it cannot read.                                     *)
(***************************************************************************)
EXTENDS KeySpace, Integers, Sequences, FiniteSetsExt

CONSTANTS
    Source,     \* the storages
    Db,         \* the databases
    Layers,     \* Db -> sequence of [src : Source, writable : BOOLEAN]
    Value,      \* values that are not schemas
    Schema,     \* schema values
    DefaultOf,  \* Schema -> its default value, or None
    None        \* no value, no schema name

ASSUME SourceStackAssumption ==
    /\ Layers \in [Db -> Seq([src : Source, writable : BOOLEAN])]
    /\ \A d \in Db : \A i, j \in DOMAIN Layers[d] :
         Layers[d][i].src = Layers[d][j].src => i = j
    /\ DefaultOf \in [Schema -> Value \cup {None}]
    /\ None \notin Value \cup Schema \cup Path
    /\ Value \cap Schema = {}

VARIABLES
    store,      \* what the backends hold in memory
    broken      \* storages whose backend fails

Cell == [val : Value \cup Schema \cup {None}, schema : Path \cup {None}]

LayersOf(db) == DOMAIN Layers[db]
SourceAt(db, i) == Layers[db][i].src
CellAt(db, i, key) == store[SourceAt(db, i)][key]
Fails(db, i) == SourceAt(db, i) \in broken

(* source_is_writable, for a backend that decides by the address alone. *)
Writable(db) == {i \in LayersOf(db) : Layers[db][i].writable}

Holding(db, key) == {i \in LayersOf(db) : CellAt(db, i, key).val # None}
Describing(db, key) == {i \in LayersOf(db) : CellAt(db, i, key).schema # None}

-----------------------------------------------------------------------------
(***************************************************************************)
(* gconf_sources_query_value: the first value, and the first schema name.   *)
(* A layer is visited when no value was met before it, or when a schema     *)
(* name is wanted and none was met before it; a failing layer ends the walk. *)
(***************************************************************************)
Visits(db, i, key, wantSchema) ==
    \/ \A h \in Holding(db, key) : i <= h
    \/ wantSchema /\ \A n \in Describing(db, key) : i <= n

WalkFails(db, key, wantSchema) ==
    \E i \in LayersOf(db) : Fails(db, i) /\ Visits(db, i, key, wantSchema)

StoredValue(db, key) ==
    IF Holding(db, key) = {} THEN None ELSE CellAt(db, Min(Holding(db, key)), key).val

SchemaName(db, key) ==
    IF Describing(db, key) = {} THEN None
    ELSE CellAt(db, Min(Describing(db, key)), key).schema

(* Faulty variant: the layer that holds the value is not counted. *)
QueryWritableInFront(db, key) ==
    \E i \in Writable(db) : \A h \in Holding(db, key) : i < h

(* A writable layer in front of the value, or the one that holds it. *)
QueryWritable(db, key) ==
    \E i \in Writable(db) : \A h \in Holding(db, key) : i <= h

(* The default value the schema stored at key s gives, if s has a schema. *)
SchemaDefault(db, s) ==
    IF StoredValue(db, s) \in Schema THEN DefaultOf[StoredValue(db, s)] ELSE None

Defaulted(db, key) == Holding(db, key) = {} /\ Describing(db, key) # {}

(* A key's schema name may lead to a value that is not a schema: an error. *)
QueryFails(db, key) ==
    \/ WalkFails(db, key, TRUE)
    \/ /\ Defaulted(db, key)
       /\ \/ WalkFails(db, SchemaName(db, key), FALSE)
          \/ StoredValue(db, SchemaName(db, key)) \in Value

QueryValue(db, key) ==
    [value     |-> IF Defaulted(db, key) THEN SchemaDefault(db, SchemaName(db, key))
                   ELSE StoredValue(db, key),
     isDefault |-> Defaulted(db, key),
     writable  |-> QueryWritable(db, key)]

-----------------------------------------------------------------------------
(***************************************************************************)
(* gconf_sources_set_value: the walk ends at the first layer that is        *)
(* writable, where the value goes, or that is read-only and holds a value,  *)
(* which makes the key overridden.  What a failing read-only layer holds is *)
(* not seen.                                                                *)
(***************************************************************************)
(* Faulty variant: a read-only layer is passed over whatever it holds. *)
SetStopsWhenWritable(db, key) == Writable(db)

SetStops(db, key) ==
    Writable(db) \cup {i \in Holding(db, key) : ~Fails(db, i)}

SetOutcome(db, key) ==
    IF SetStops(db, key) = {} THEN "NO_WRITABLE_DATABASE"
    ELSE LET i == Min(SetStops(db, key))
         IN  IF i \notin Writable(db) THEN "OVERRIDDEN"
             ELSE IF Fails(db, i) THEN "FAILED"
             ELSE "SUCCESS"

(* The layer a set_value, set_schema or unset that succeeds writes first. *)
Target(db) == SourceAt(db, Min(Writable(db)))

(***************************************************************************)
(* gconf_sources_unset_value: unset in every writable layer, front to back, *)
(* up to the first that fails.  The layers passed are the modified sources. *)
(***************************************************************************)
UnsetSources(db) ==
    {SourceAt(db, i) : i \in {j \in Writable(db) : \A k \in Writable(db) : k <= j => ~Fails(db, k)}}

UnsetFails(db) == \E i \in Writable(db) : Fails(db, i)

WithoutValues(sources, keys) ==
    [s \in Source |->
        IF s \notin sources THEN store[s]
        ELSE [k \in Path |-> IF k \in keys THEN [store[s][k] EXCEPT !.val = None]
                             ELSE store[s][k]]]

(***************************************************************************)
(* gconf_sources_recursive_unset lists the directories and entries under    *)
(* key in all layers; a failing layer leaves nothing to list.  The markup   *)
(* backend also lists emptied entries until it saves.                       *)
(***************************************************************************)
Exists(db, p) == Holding(db, p) \cup Describing(db, p) # {}

Listed(db, dir, emptied) ==
    IF \E i \in LayersOf(db) : Fails(db, i) THEN {}
    ELSE {p \in Subtree(dir) \ {dir} : \E q \in Subtree(p) : Exists(db, q) \/ q \in emptied}

(***************************************************************************)
(* gconf_sources_all_entries: one entry for each key of the directory that  *)
(* some layer has.  It is merged layer by layer, without the walk of        *)
(* query_value: as long as the entry has no value each layer that has the   *)
(* key gives its own, if any, and says anew, as seen from there, whether    *)
(* the entry is writable.  The layers in emptied have the key with nothing. *)
(***************************************************************************)
(* Faulty variant: the flag of an entry is not set again. *)
EntryLayerFirst(db, key, emptied) ==
    Min(IF Holding(db, key) # {} THEN Holding(db, key) ELSE Describing(db, key) \cup emptied)

(* The layer that says so last. *)
EntryLayer(db, key, emptied) ==
    IF Holding(db, key) # {} THEN Min(Holding(db, key))
    ELSE Max(Describing(db, key) \cup emptied)

EntryOf(db, key, emptied) ==
    [value    |-> IF Defaulted(db, key) THEN SchemaDefault(db, SchemaName(db, key))
                  ELSE StoredValue(db, key),
     writable |-> \E i \in Writable(db) : i <= EntryLayer(db, key, emptied)]

(***************************************************************************)
(* gconf_sources_query_default_value: the first schema name the layers that *)
(* work give for the key, and the default of the schema it names.           *)
(***************************************************************************)
MetaSchema(db, key) ==
    LET named == {i \in Describing(db, key) : ~Fails(db, i)}
    IN  IF named = {} THEN None ELSE CellAt(db, Min(named), key).schema

DefaultValue(db, key) ==
    IF MetaSchema(db, key) = None \/ WalkFails(db, MetaSchema(db, key), TRUE) THEN None
    ELSE SchemaDefault(db, MetaSchema(db, key))

(***************************************************************************)
(* gconf_sources_is_affected: the stack has the modified source, and no     *)
(* layer in front of it holds the key.                                      *)
(***************************************************************************)
(* Faulty variant: the layer itself counts as being in front. *)
IsAffectedWhenEmpty(db, src, key) ==
    \E i \in LayersOf(db) :
        /\ SourceAt(db, i) = src
        /\ \A h \in Holding(db, key) : Fails(db, h) \/ i < h

IsAffected(db, src, key) ==
    \E i \in LayersOf(db) :
        /\ SourceAt(db, i) = src
        /\ \A h \in Holding(db, key) : Fails(db, h) \/ i <= h
=============================================================================
