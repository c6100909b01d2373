------------------------------ MODULE Database ------------------------------
(***************************************************************************)
(* gconf/gconf-database.c with the request handlers of                      *)
(* gconf/gconf-database-dbus.c: the databases of one gconfd.  A request     *)
(* changes the stack of sources, arms the timers that will save it, and     *)
(* announces the new value, also in the other databases that share the      *)
(* storage.                                                                 *)
(*                                                                          *)
(* gconfd has one thread, so a request is one step and the two timers of a  *)
(* database are callbacks between requests.                                 *)
(***************************************************************************)
EXTENDS SourceStack

CONSTANTS
    DbList,     \* db_list of gconfd.c: the databases in order
    Shipped,    \* the stores gconfd may find at its start
    Requests,   \* the [key, value] a client may ask to set
    Described,  \* the [key, schema] a client may ask to bind
    Breakable   \* the storages that may fail

ASSUME DatabaseAssumption ==
    /\ DbList \in Seq(Db)
    /\ \A d \in Db : \E i \in DOMAIN DbList : DbList[i] = d
    /\ Shipped \subseteq [Source -> [Path -> Cell]]
    /\ Requests \subseteq [key : Path \ {Root}, value : Value \cup Schema]
    /\ Described \subseteq [key : Path \ {Root}, schema : Path \cup {None}]
    /\ Breakable \subseteq Source

VARIABLES
    unsaved,    \* storages changed since they were last written to disk
    syncFailed, \* unsaved storages whose last attempt to write failed
    timeouts,   \* databases with db->sync_timeout # 0
    idles,      \* databases with db->sync_idle # 0
    notices,    \* the calls of notify_listeners in the last request
    aborted     \* the assertion that ended the process, or "none"; "read_only" is that of
                \* recursive_unset in a database that cannot be written to

timers == <<timeouts, idles>>
vars == <<store, broken, unsaved, syncFailed, timers, notices, aborted>>

Answers == [value : Value \cup Schema \cup {None}, isDefault : BOOLEAN, writable : BOOLEAN]
Notice == [db : Db, key : Path, answer : Answers, unset : BOOLEAN]

Init ==
    /\ store \in Shipped
    /\ broken = {}
    /\ unsaved = {}
    /\ syncFailed = {}
    /\ timeouts = {}
    /\ idles = {}
    /\ notices = {}
    /\ aborted = "none"

-----------------------------------------------------------------------------
(***************************************************************************)
(* gconf_database_schedule_sync: one minute from now, unless a sync is      *)
(* already planned.  gconf_database_sync_nowish: when the event loop is     *)
(* quiet, instead of in a minute.                                           *)
(***************************************************************************)
(* Faulty variant: a database that ever had a failed sync is not planned again. *)
ScheduleOnce(db) ==
    /\ timeouts' = IF db \in idles \/ syncFailed # {} THEN timeouts ELSE timeouts \cup {db}
    /\ UNCHANGED idles

ScheduleSync(db) ==
    /\ timeouts' = IF db \in idles THEN timeouts ELSE timeouts \cup {db}
    /\ UNCHANGED idles

SyncNowish(db) ==
    /\ timeouts' = timeouts \ {db}
    /\ idles' = idles \cup {db}

Modify(sources) ==
    /\ unsaved' = unsaved \cup sources
    /\ syncFailed' = syncFailed \ sources

(***************************************************************************)
(* gconfd_notify_other_listeners: each other database in which a modified   *)
(* source decides the key's value is told what a query of it now returns.   *)
(* A query that fails ends the round.                                       *)
(***************************************************************************)
Answer(d, key) == [db |-> d, key |-> key, answer |-> QueryValue(d, key)', unset |-> FALSE]

Concerned(db, sources, key) ==
    {i \in DOMAIN DbList :
        DbList[i] # db /\ \E s \in sources : IsAffected(DbList[i], s, key)'}

NotifyOthers(db, sources, key) ==
    LET others == Concerned(db, sources, key)
        failing == {i \in others : QueryFails(DbList[i], key)'}
    IN  {Answer(DbList[i], key) : i \in {j \in others : \A k \in failing : j < k}}

-----------------------------------------------------------------------------
(* A failed request of the kinds below that changes nothing. *)
Refused ==
    /\ notices' = {}
    /\ UNCHANGED <<store, unsaved, syncFailed, aborted>>

(***************************************************************************)
(* gconf_database_set.  A backend that fails leaves modified_sources set,   *)
(* which the code asserts it does not.                                      *)
(***************************************************************************)
SetNotice(db, key, value) ==
    [db |-> db, key |-> key, unset |-> FALSE,
     answer |-> [value |-> value, isDefault |-> FALSE, writable |-> TRUE]]

SetValue(db, key, value) ==
    CASE SetOutcome(db, key) = "SUCCESS" ->
           /\ store' = [store EXCEPT ![Target(db)][key].val = value]
           /\ Modify({Target(db)})
           /\ notices' = {SetNotice(db, key, value)}
                         \cup NotifyOthers(db, {Target(db)}, key)
           /\ ScheduleSync(db)
           /\ UNCHANGED aborted
      [] SetOutcome(db, key) = "FAILED" ->
           /\ aborted' = "set"
           /\ notices' = {}
           /\ UNCHANGED <<store, unsaved, syncFailed, timers>>
      [] OTHER -> Refused /\ UNCHANGED timers

HandleSet ==
    /\ aborted = "none"
    /\ UNCHANGED broken
    /\ \E db \in Db, r \in Requests : SetValue(db, r.key, r.value)

(***************************************************************************)
(* gconf_database_unset: when every writable layer obeyed, the default from *)
(* the schema is announced as the new value, writable when any layer is.    *)
(* When a layer failed after another obeyed, the assertion that nothing was *)
(* modified fails.                                                          *)
(***************************************************************************)
UnsetNotice(db, key) ==
    [db |-> db, key |-> key, unset |-> TRUE,
     answer |-> [value |-> DefaultValue(db, key)', isDefault |-> TRUE,
                 writable |-> Writable(db) # {}]]

Unset(db, key) ==
    /\ store' = WithoutValues(UnsetSources(db), {key})
    /\ Modify(UnsetSources(db))
    /\ IF UnsetFails(db)
         THEN /\ aborted' = IF UnsetSources(db) = {} THEN "none" ELSE "unset"
              /\ notices' = {}
         ELSE /\ aborted' = "none"
              /\ notices' = {UnsetNotice(db, key)}
                            \cup NotifyOthers(db, UnsetSources(db), key)

(* database_handle_unset asks for a sync at once, whatever became of it. *)
HandleUnset ==
    /\ aborted = "none"
    /\ UNCHANGED broken
    /\ \E db \in Db : \E key \in Path \ {Root} :
         /\ Unset(db, key)
         /\ SyncNowish(db)

(***************************************************************************)
(* gconf_database_recursive_unset with the helper of gconf-sources.c: every *)
(* key found below, then key itself, is unset and its schema name dropped   *)
(* (from the first writable layer) when flags say so.  The new values are   *)
(* queried and announced when all is done; with any error none of them is.  *)
(* Each unset must have modified something, or an assertion fails; it does  *)
(* so in a database without a writable layer.                               *)
(***************************************************************************)
Dropped(db, key, schemas) ==
    LET rest == WithoutValues(UnsetSources(db), {key} \cup Listed(db, key, {}))
        named == {k \in Listed(db, key, {}) : Exists(db, k)}
    IN  IF ~schemas THEN rest
        ELSE [rest EXCEPT ![Target(db)] =
                [k \in Path |-> IF k \in named THEN [@[k] EXCEPT !.schema = None] ELSE @[k]]]

UnsetAnswers(db, keys) ==
    {IF QueryFails(db, k)'
       THEN [Answer(db, k) EXCEPT !.answer.value = None] ELSE Answer(db, k) : k \in keys}
    \cup UNION {NotifyOthers(db, UnsetSources(db), k) : k \in keys}

RecursiveUnset(db, key, schemas, emptied) ==
    IF UnsetSources(db) = {}
      THEN /\ aborted' = IF Writable(db) = {} THEN "read_only" ELSE "recursive_unset"
           /\ notices' = {}
           /\ UNCHANGED <<store, unsaved, syncFailed>>
      ELSE /\ store' = Dropped(db, key, schemas)
           /\ Modify(UnsetSources(db))
           /\ notices' = IF \E i \in LayersOf(db) : Fails(db, i) THEN {}
                         ELSE UnsetAnswers(db, {key} \cup Listed(db, key, emptied))
           /\ UNCHANGED aborted

HandleRecursiveUnset ==
    /\ aborted = "none"
    /\ UNCHANGED broken
    /\ \E db \in Db, key \in Path, schemas \in BOOLEAN :
       \E emptied \in SUBSET {p \in Subtree(key) \ {key} : ~Exists(db, p)} :
         /\ RecursiveUnset(db, key, schemas, emptied)
         /\ SyncNowish(db)

(***************************************************************************)
(* gconf_database_set_schema: into the first writable layer; nobody is told. *)
(* With no writable layer nothing happens, and a sync is planned all the     *)
(* same.                                                                    *)
(***************************************************************************)
SetSchema(db, key, schema) ==
    /\ IF Writable(db) # {}
         THEN /\ store' = [store EXCEPT ![Target(db)][key].schema = schema]
              /\ Modify({Target(db)})
         ELSE UNCHANGED <<store, unsaved, syncFailed>>
    /\ ScheduleSync(db)

HandleSetSchema ==
    /\ aborted = "none"
    /\ notices' = {}
    /\ \E db \in Db, r \in Described :
         IF Writable(db) # {} /\ Target(db) \in broken
           THEN UNCHANGED <<store, unsaved, syncFailed, timers>>
           ELSE SetSchema(db, r.key, r.schema)
    /\ UNCHANGED <<broken, aborted>>

HandleSuggestSync ==
    /\ aborted = "none"
    /\ \E db \in Db : SyncNowish(db)
    /\ notices' = {}
    /\ UNCHANGED <<store, broken, unsaved, syncFailed, aborted>>

(* gconf_database_sync_timeout: a minute has passed. *)
SyncTimeout(db) ==
    /\ aborted = "none"
    /\ db \in timeouts
    /\ timeouts' = timeouts \ {db}
    /\ idles' = idles \cup {db}
    /\ notices' = {}
    /\ UNCHANGED <<store, broken, unsaved, syncFailed, aborted>>

(***************************************************************************)
(* gconf_database_sync_idle and synchronous_sync: every source of the stack  *)
(* is asked to save; a failure is logged and not tried again.               *)
(***************************************************************************)
(* Faulty variant: the walk over the sources ends at the first. *)
SyncedFirst(db) == IF Layers[db] = <<>> THEN {} ELSE {SourceAt(db, 1)}

Synced(db) == {SourceAt(db, i) : i \in LayersOf(db)}

SyncIdle(db) ==
    /\ aborted = "none"
    /\ db \in idles
    /\ idles' = idles \ {db}
    /\ timeouts' = timeouts \ {db}
    /\ unsaved' = unsaved \ (Synced(db) \ broken)
    /\ syncFailed' = (syncFailed \ Synced(db)) \cup (unsaved \cap Synced(db) \cap broken)
    /\ notices' = {}
    /\ UNCHANGED <<store, broken, aborted>>

(* The environment: a storage becomes unusable, or usable again. *)
Break ==
    /\ \E s \in Breakable \ broken : broken' = broken \cup {s}
    /\ notices' = {}
    /\ UNCHANGED <<store, unsaved, syncFailed, timers, aborted>>

Repair ==
    /\ \E s \in broken : broken' = broken \ {s}
    /\ notices' = {}
    /\ UNCHANGED <<store, unsaved, syncFailed, timers, aborted>>

Next ==
    \/ HandleSet
    \/ HandleUnset
    \/ HandleRecursiveUnset
    \/ HandleSetSchema
    \/ HandleSuggestSync
    \/ \E db \in Db : SyncTimeout(db)
    \/ \E db \in Db : SyncIdle(db)
    \/ Break
    \/ Repair

(* The main loop of GLib runs a timer that is due and an idle source. *)
Fairness == \A db \in Db : WF_vars(SyncTimeout(db)) /\ WF_vars(SyncIdle(db))

Spec == Init /\ [][Next]_vars /\ Fairness

-----------------------------------------------------------------------------
(* Every variable keeps its shape. *)
TypeOK ==
    /\ store \in [Source -> [Path -> Cell]]
    /\ broken \subseteq Source
    /\ unsaved \subseteq Source
    /\ syncFailed \subseteq unsaved
    /\ timeouts \subseteq Db
    /\ idles \subseteq Db \ timeouts
    /\ notices \subseteq Notice
    /\ aborted \in {"none", "set", "unset", "recursive_unset", "read_only"}

(***************************************************************************)
(* A client that is told a value is told what it would get by asking: value, *)
(* default flag and writable flag of every notice of a set, of a recursive  *)
(* unset, and of a change made through another database.  The notice of a   *)
(* plain unset is computed from the schema alone (gconf-database.c:1491, "a *)
(* somewhat dubious optimization that assumes that if the unset was         *)
(* successful the default value is the new value"): its value is right but  *)
(* for a key that another layer holds.                                      *)
(***************************************************************************)
NoticesMatchQueries ==
    \A n \in notices :
        \/ QueryFails(n.db, n.key)
        \/ n.answer = QueryValue(n.db, n.key)
        \/ n.unset /\ (\/ n.answer.value = QueryValue(n.db, n.key).value
                       \/ Holding(n.db, n.key) # {})

(***************************************************************************)
(* The writable flag of a query tells the truth: a set of the key is let    *)
(* through when it is TRUE, and refused as overridden or for want of a      *)
(* writable source when it is FALSE.  The two walks over the stack are      *)
(* written apart, one with the value in view and one with the layer.        *)
(***************************************************************************)
SettableIffWritable ==
    \A db \in Db, key \in Path \ {Root} :
        ~QueryFails(db, key) =>
            (QueryWritable(db, key) <=> SetOutcome(db, key) \in {"SUCCESS", "FAILED"})

(***************************************************************************)
(* Listing a directory gives each key the value a query of it gives, and    *)
(* says of it whether it is writable as the query does, whatever emptied    *)
(* entries are about.  Only a key without a value, which no layer has from  *)
(* the first writable one on, may be listed as read-only and can be set.    *)
(***************************************************************************)
Listable(db, key) ==
    /\ \A i \in LayersOf(db) : ~Fails(db, i)
    /\ ~QueryFails(db, key)

ListedAsQueried(db, key, emptied) ==
    LET entry == EntryOf(db, key, emptied)
        InFront == \A n \in Describing(db, key) \cup emptied, i \in Writable(db) : n < i
    IN  /\ entry.value = QueryValue(db, key).value
        /\ entry.writable => QueryWritable(db, key)
        /\ QueryWritable(db, key) => entry.writable \/ (Holding(db, key) = {} /\ InFront)

EntriesMatchQueries ==
    \A db \in Db, key \in Path : Listable(db, key) =>
        \A emptied \in SUBSET (LayersOf(db) \ Describing(db, key)) :
            Exists(db, key) \/ emptied # {} => ListedAsQueried(db, key, emptied)

(***************************************************************************)
(* No silent change: when a request changes the value that some database    *)
(* stores for a key, through whichever database it came, listeners there    *)
(* are told of that key, as long as no storage fails and every database     *)
(* can answer a query of the key.  One that cannot, because the key's       *)
(* schema name leads to a value that is no schema, ends the round before    *)
(* the databases behind it in the list have been told.  Of a default that  *)
(* changes with a schema, or with the schema name, nobody is told.          *)
(***************************************************************************)
ChangesAreNoticed ==
    [][broken = {} =>
        \A db \in Db, key \in Path :
            /\ StoredValue(db, key)' # StoredValue(db, key)
            /\ \A d \in Db : ~QueryFails(d, key)'
            => \E n \in notices' : n.db = db /\ n.key = key]_store

(***************************************************************************)
(* What is not on disk will be: whenever a storage has changes that no sync *)
(* failed on, a database that has it in its stack has a sync planned.       *)
(***************************************************************************)
UnsavedIsPlanned ==
    aborted = "none" =>
        \A s \in unsaved \ syncFailed :
            \E db \in timeouts \cup idles : s \in Synced(db)

(***************************************************************************)
(* A change reaches the disk, or a sync that fails: the timers that requests *)
(* keep arming and disarming never starve it.  The process ends before that *)
(* only when a storage fails, by the assertions that a request that failed  *)
(* modified nothing and that a recursive unset modified something, or when  *)
(* a client asks for a recursive unset in a database that is read-only.     *)
(***************************************************************************)
EndedEarly == aborted = "read_only" \/ (aborted # "none" /\ broken # {})

ChangesAreSaved ==
    \A s \in Source :
        (aborted = "none" /\ s \in unsaved \ syncFailed) ~>
            (s \notin unsaved \/ s \in syncFailed \/ EndedEarly)

=============================================================================
