------------------------------- MODULE Client -------------------------------
(***************************************************************************)
(* gconf/gconf-client.c: one GConfClient, its list of directories, its      *)
(* cache and its queue of notifications, in front of gconfd, where other    *)
(* clients change values.  The calls of the application, the messages of    *)
(* gconfd and the idle handler share one thread; every call of the engine   *)
(* blocks, and the world goes on meanwhile.                                 *)
(*                                                                          *)
(* An entry of the cache is a value (perhaps none), the is_default flag and  *)
(* whether the name of a schema is with it; is_writable is left out.        *)
(***************************************************************************)
EXTENDS KeySpace, Sequences, SequencesExt

CONSTANTS
    Dir,          \* directories an application may add
    Key,          \* keys that hold values
    Value,
    None,         \* no value
    Default,      \* the default of a key's schema; None: it has no schema
    NoEntry,      \* the key is not in the cache
    Initially,    \* what is set for each key when the client starts
    MaxAdds,      \* bound: how often a directory is added
    MaxEvents     \* bound: requests that change values, and what goes wrong

ASSUME ClientAssumption ==
    /\ Dir \subseteq Path \ {Root} /\ Key \subseteq Path \ {Root}
    /\ None \notin Value /\ Default \in [Key -> Value \cup {None}]
    /\ Initially \in [Key -> Value \cup {None}]
    /\ MaxAdds \in [Dir -> Nat] /\ MaxEvents \in Nat
    /\ IsFiniteSet(Dir) /\ IsFiniteSet(Key)

(* A directory above a key is one that a listing may find. *)
ASSUME DirAssumption == \A k \in Key : Up[KeyDirectory(k)] \ {Root} \subseteq Dir

VARIABLES
    store,        \* gconfd: what is set for each key
    connected,    \* gconfd has the registrations of the engine
    wire,         \* messages Notify that the client has not dispatched
    changes,      \* requests that changed values so far
    mishaps,      \* restarts of gconfd and failed calls so far
    addCount,     \* dir_hash: how often a directory was added; 0: not there
    notifyId,     \* directories with a notification of the engine
    cache,        \* cache_hash
    cacheDirs,    \* cache_dirs: directories whose keys are all cached
    cacheRecursiveDirs,
    notifyList,   \* keys to notify the listeners of
    notifyHandler,\* the idle handler is installed
    toNotify,     \* keys the running idle handler has still to notify
    task,         \* the rest of the call the client is in
    missed,       \* history: keys that changed and no message, or an old one, says so
    dropped       \* history: keys that were in the cache and no longer are

gconfd == <<store, connected, wire, changes, mishaps>>
dirs == <<addCount, notifyId>>
caches == <<cache, cacheDirs, cacheRecursiveDirs, dropped>>
queue == <<notifyList, notifyHandler, toNotify>>
vars == <<gconfd, dirs, caches, queue, task, missed>>

Idle == [op |-> "idle"]
Free == task = Idle
Reads == {"subdirs", "below", "entries"} \X Dir
PreloadType == {"none", "onelevel", "recursive"}
Task ==
    {Idle} \cup [op : {"add"}, dir : Dir, drop : SUBSET Dir, preload : PreloadType]
           \cup [op : {"renotify"}, dir : Dir, drop : SUBSET Dir, rest : SUBSET Dir]
           \cup [op : {"preload"}, todo : Seq(Reads) \ {<<>>}, deep : BOOLEAN]

-----------------------------------------------------------------------------
(***************************************************************************)
(* What gconfd answers and sends.                                           *)
(***************************************************************************)
HasSchema(k) == Default[k] # None
Entry == [val : Value \cup {None}, dflt : BOOLEAN, schema : BOOLEAN]
ASSUME NoEntryAssumption == NoEntry \notin Entry

Effective(k, st) == IF st[k] = None THEN Default[k] ELSE st[k]

Answer(k) == [val    |-> Effective(k, store),
              dflt   |-> store[k] = None /\ HasSchema(k),
              schema |-> HasSchema(k)]

Known(k) == store[k] # None \/ HasSchema(k)
DirExists(d) == \E k \in Key : KeyIsBelow(d, k) /\ Known(k)
EntriesOf(d) == {k \in Key : KeyDirectory(k) = d /\ Known(k)}
SubdirsOf(d) == {s \in Dir \ {d} : KeyDirectory(s) = d /\ DirExists(s)}

Registered == IF connected THEN notifyId ELSE {}
Told(k) == {d \in Registered : KeyIsBelow(d, k)}

(* For each key, one message for each directory registered above it. *)
Notices(ks, st) ==
    {[dir |-> n[1], key |-> n[2], val |-> Effective(n[2], st)] :
        n \in {p \in Dir \X ks : p[1] \in Told(p[2])}}

Messages(ks, st) == SetToSeq(Notices(ks, st))

Change(ks, st) ==
    /\ changes + mishaps < MaxEvents
    /\ changes' = changes + 1
    /\ store' = st
    /\ wire' = wire \o Messages(ks, st)
    /\ missed' = (missed \ ks) \cup {k \in ks : Told(k) = {}}

GoesWrong ==
    /\ changes + mishaps < MaxEvents
    /\ mishaps' = mishaps + 1

Pending(k) == \E i \in DOMAIN wire : wire[i].key = k /\ wire[i].dir \in notifyId

(* The history is mended by a fresh read, unless an old message may undo it. *)
Refreshed(ks) == missed' = missed \ {k \in ks : ~Pending(k)}

-----------------------------------------------------------------------------
(***************************************************************************)
(* The cache.  key_being_monitored and the negative answers of              *)
(* gconf_client_lookup work on names chopped at '/': the directory of a     *)
(* key of one component is "", which no table holds.                        *)
(***************************************************************************)
Chopped(k) == {KeyDirectory(k)} \ {Root}

KeyBeingMonitored(p) == \E d \in Dir : addCount[d] > 0 /\ KeyIsBelow(d, p)

KnownAbsent(k) ==
    /\ cache[k] = NoEntry
    /\ \/ Chopped(k) \cap cacheDirs # {}
       \/ /\ Chopped(k) \cap cacheRecursiveDirs = {}
          /\ \E d \in cacheRecursiveDirs : KeyIsBelow(d, KeyDirectory(k))

Hit(k) == cache[k] # NoEntry \/ KnownAbsent(k)

(* Faulty variant: an entry that is there is not replaced. *)
CachedOnce(c, k, e, preserve) == IF c[k] = NoEntry THEN [c EXCEPT ![k] = e] ELSE c

(* gconf_client_cache: a changed entry may keep the schema it came with. *)
Cached(c, k, e, preserve) ==
    IF preserve /\ c[k] \notin {NoEntry, e}
      THEN [c EXCEPT ![k] = [e EXCEPT !.schema = c[k].schema]]
      ELSE [c EXCEPT ![k] = e]

CachedAll(ks) == [k \in Key |-> IF k \in ks THEN Answer(k) ELSE cache[k]]

Drop(ks) ==
    /\ cache' = [k \in Key |-> IF k \in ks THEN NoEntry ELSE cache[k]]
    /\ dropped' = dropped \cup {k \in ks : cache[k] # NoEntry}

Fill(c) == cache' = c /\ dropped' = {k \in dropped : c[k] = NoEntry}

(* gconf_entry_new: neither default nor schema. *)
Plain(v) == [val |-> v, dflt |-> FALSE, schema |-> FALSE]

(* Faulty variant: no idle handler for what is queued while one runs. *)
QueueNotifyOnce(k) ==
    /\ notifyList' = notifyList \cup {k}
    /\ notifyHandler' = (notifyHandler \/ toNotify = {})
    /\ UNCHANGED toNotify

QueueNotify(k) ==
    /\ notifyList' = notifyList \cup {k}
    /\ notifyHandler' = TRUE
    /\ UNCHANGED toNotify

CacheAndQueue(k, v, wanted) ==
    /\ Fill(Cached(cache, k, Plain(v), TRUE))
    /\ IF cache[k] # Plain(v) /\ wanted THEN QueueNotify(k) ELSE UNCHANGED queue

-----------------------------------------------------------------------------
(***************************************************************************)
(* The directories.  Only the topmost of nested directories has a           *)
(* notification: setup_overlaps looks for one above, and takes those below   *)
(* off before the new one is asked for.                                     *)
(***************************************************************************)
Covered(d, ids) == \E e \in ids : KeyIsBelow(e, d)

OverlapsIn(d, ids) == {e \in ids : KeyIsBelow(d, e)}

(* The keys whose messages for a directory are on their way. *)
OnTheWay(ds) == {wire[i].key : i \in {j \in DOMAIN wire : wire[j].dir \in ds}}

(* gconf_engine_notify_remove: messages on their way find no connection. *)
Deregister(ds) ==
    /\ notifyId' = notifyId \ ds
    /\ missed' = missed \cup OnTheWay(ds)

(* Faulty variant: the directories that lost their cover are left alone. *)
RenotifyNone(rest, ids) == {Idle}

(* foreach_add_notifies, in the order of the table: the next directory, *)
(* if any, that no notification covers.                                 *)
RenotifyTasks(rest, ids) ==
    LET todo == {d \in rest : ~Covered(d, ids)}
    IN  IF todo = {} THEN {Idle}
        ELSE {[op |-> "renotify", dir |-> d, drop |-> OverlapsIn(d, ids), rest |-> todo \ {d}]
              : d \in todo}

PreloadTask(d, type) ==
    CASE type = "none"      -> Idle
      [] type = "onelevel"  -> [op |-> "preload", todo |-> <<<<"entries", d>>>>, deep |-> FALSE]
      [] type = "recursive" -> [op |-> "preload", todo |-> <<<<"subdirs", d>>>>, deep |-> TRUE]

AddDir(d, type) ==
    /\ Free
    /\ addCount[d] < MaxAdds[d]
    /\ IF addCount[d] > 0 \/ Covered(d, notifyId)
         THEN /\ addCount' = [addCount EXCEPT ![d] = @ + 1]
              /\ task' = IF addCount[d] > 0 THEN Idle ELSE PreloadTask(d, type)
         ELSE /\ task' = [op |-> "add", dir |-> d, drop |-> OverlapsIn(d, notifyId), preload |-> type]
              /\ UNCHANGED addCount
    /\ UNCHANGED <<gconfd, notifyId, caches, queue, missed>>

(* "FIXME: this is a race, from now on we can miss notifies". *)
RemoveOverlap ==
    /\ task.op \in {"add", "renotify"} /\ connected
    /\ \E e \in task.drop :
         /\ Deregister({e})
         /\ task' = [task EXCEPT !.drop = @ \ {e}]
    /\ UNCHANGED <<gconfd, addCount, caches, queue>>

(* A message that was sent to an earlier registration of the directory finds *)
(* the new connection, whatever has happened to its key since.               *)
NotifyAdd ==
    /\ task.op \in {"add", "renotify"} /\ task.drop = {} /\ connected
    /\ notifyId' = notifyId \cup {task.dir}
    /\ missed' = missed \cup OnTheWay({task.dir})
    /\ IF task.op = "add"
         THEN /\ addCount' = [addCount EXCEPT ![task.dir] = 1]
              /\ task' = PreloadTask(task.dir, task.preload)
         ELSE /\ task' \in RenotifyTasks(task.rest, notifyId')
              /\ UNCHANGED addCount
    /\ UNCHANGED <<gconfd, caches, queue>>

(* The directory is not added, or the others are left as they are. *)
NotifyAddFails ==
    /\ task.op \in {"add", "renotify"} /\ task.drop = {}
    /\ GoesWrong
    /\ task' = Idle
    /\ UNCHANGED <<store, connected, wire, changes, dirs, caches, queue, missed>>

(* gconf_client_real_remove_dir forgets what is cached below the directory. *)
RemoveDir(d) ==
    /\ Free /\ addCount[d] > 0
    /\ connected \/ addCount[d] > 1
    /\ addCount' = [addCount EXCEPT ![d] = @ - 1]
    /\ IF addCount[d] = 1
         THEN /\ Deregister({d})
              /\ Drop({k \in Key : KeyIsBelow(d, k)})
              /\ cacheDirs' = {e \in cacheDirs : ~KeyIsBelow(d, e)}
              /\ task' \in RenotifyTasks({e \in Dir : addCount'[e] > 0}, notifyId')
         ELSE UNCHANGED <<notifyId, cache, dropped, cacheDirs, task, missed>>
    /\ UNCHANGED <<gconfd, cacheRecursiveDirs, queue>>

(* gconf_client_finalize, and a new client for the engine. *)
Finalize ==
    /\ Free /\ toNotify = {} /\ connected
    /\ addCount' = [d \in Dir |-> 0]
    /\ Deregister(notifyId)
    /\ cache' = [k \in Key |-> NoEntry]
    /\ cacheDirs' = {} /\ cacheRecursiveDirs' = {} /\ dropped' = {}
    /\ notifyList' = {} /\ notifyHandler' = FALSE
    /\ UNCHANGED <<gconfd, toNotify, task>>

-----------------------------------------------------------------------------
(***************************************************************************)
(* Filling the cache: cache_pairs_in_dir and recurse_subdir_list.           *)
(***************************************************************************)
Preload(d, type) ==
    /\ Free /\ KeyBeingMonitored(d)
    /\ task' = PreloadTask(d, type)
    /\ UNCHANGED <<gconfd, dirs, caches, queue, missed>>

PreloadNext == Head(task.todo)

Proceed(todo) ==
    task' = IF todo = <<>> THEN Idle ELSE [task EXCEPT !.todo = todo]

(* The directories in d, each read and then searched before the next. *)
Inner(d) ==
    LET subs == SetToSeq(SubdirsOf(d))
    IN  [i \in 1 .. 2 * Cardinality(SubdirsOf(d)) |->
            <<IF i % 2 = 1 THEN "entries" ELSE "below", subs[(i + 1) \div 2]>>]

(* Faulty variant: the directories found below are not listed in turn. *)
PreloadSubdirsFlat ==
    /\ task.op = "preload" /\ PreloadNext[1] # "entries" /\ connected
    /\ Proceed(<<<<"entries", PreloadNext[2]>>>> \o Tail(task.todo))
    /\ UNCHANGED <<gconfd, dirs, caches, queue, missed>>

PreloadSubdirs ==
    /\ task.op = "preload" /\ PreloadNext[1] # "entries" /\ connected
    /\ LET d == PreloadNext[2]
       IN  Proceed((IF PreloadNext[1] = "subdirs" THEN <<<<"entries", d>>>> ELSE <<>>)
                     \o Inner(d) \o Tail(task.todo))
    /\ UNCHANGED <<gconfd, dirs, caches, queue, missed>>

(* A listing that fails leaves a warning; the directory counts as cached. *)
PreloadEntries ==
    /\ task.op = "preload" /\ PreloadNext[1] = "entries" /\ connected
    /\ LET d == PreloadNext[2]
       IN  /\ \/ /\ Fill(CachedAll(EntriesOf(d)))
                 /\ Refreshed(EntriesOf(d))
                 /\ UNCHANGED mishaps
              \/ /\ GoesWrong
                 /\ UNCHANGED <<cache, dropped, missed>>
           /\ cacheDirs' = cacheDirs \cup {d}
           /\ cacheRecursiveDirs' = cacheRecursiveDirs \cup (IF task.deep THEN {d} ELSE {})
    /\ Proceed(Tail(task.todo))
    /\ UNCHANGED <<store, connected, wire, changes, dirs, queue>>

(* gconf_client_clear_cache *)
ClearCache ==
    /\ Free
    /\ Drop(Key)
    /\ cacheDirs' = {}
    /\ UNCHANGED <<gconfd, dirs, cacheRecursiveDirs, queue, task, missed>>

-----------------------------------------------------------------------------
(***************************************************************************)
(* Reading: only what the cache does not answer goes to gconfd, and only    *)
(* what is monitored is kept.                                               *)
(***************************************************************************)
Fetch(k) ==
    /\ ~Hit(k)
    /\ IF KeyBeingMonitored(k)
         THEN Fill([cache EXCEPT ![k] = Answer(k)]) /\ Refreshed({k})
         ELSE UNCHANGED <<cache, dropped, missed>>

Get(k) ==
    /\ Free /\ connected
    /\ Fetch(k)
    /\ UNCHANGED <<gconfd, dirs, cacheDirs, cacheRecursiveDirs, queue, task>>

AllEntries(d) ==
    /\ Free /\ connected
    /\ d \notin cacheDirs /\ KeyBeingMonitored(d)
    /\ Fill(CachedAll(EntriesOf(d)))
    /\ cacheDirs' = cacheDirs \cup {d}
    /\ Refreshed(EntriesOf(d))
    /\ UNCHANGED <<gconfd, dirs, cacheRecursiveDirs, queue, task>>

-----------------------------------------------------------------------------
(***************************************************************************)
(* Writing.  The cache is changed at once ("to ensure a consistent state"), *)
(* for set also when the key is in none of the directories.                 *)
(***************************************************************************)
Set(k, v) ==
    /\ Free /\ connected
    /\ Change({k}, [store EXCEPT ![k] = v])
    /\ CacheAndQueue(k, v, KeyBeingMonitored(k))
    /\ UNCHANGED <<connected, mishaps, dirs, cacheDirs, cacheRecursiveDirs, task>>

Unset(k) ==
    /\ Free /\ connected
    /\ Change({k}, [store EXCEPT ![k] = None])
    /\ Drop({k})
    /\ cacheDirs' = cacheDirs \ Chopped(k)
    /\ UNCHANGED <<connected, mishaps, dirs, cacheRecursiveDirs, queue, task>>

UnsetBelow(ks) == [k \in Key |-> IF k \in ks THEN None ELSE store[k]]
SetBelow(p) == {k \in Key : KeyIsBelow(p, k) /\ Known(k)}

(* remove_key_from_cache_recursively: the test of what is below is turned *)
(* round twice, so all but the keys above p leave the cache.              *)
RecursiveUnset(p) ==
    /\ Free /\ connected
    /\ Change(SetBelow(p), UnsetBelow(SetBelow(p)))
    /\ Drop({k \in Key : ~KeyIsBelow(k, p) \/ k = p})
    /\ cacheDirs' = cacheDirs \ Chopped(p)
    /\ UNCHANGED <<connected, mishaps, dirs, cacheRecursiveDirs, queue, task>>

(* One of the keys cannot be unset: gconfd sends no message for the others. *)
RecursiveUnsetFails(p) ==
    /\ Free /\ connected
    /\ GoesWrong
    /\ \E ks \in SUBSET SetBelow(p) :
         /\ ks # SetBelow(p)
         /\ store' = UnsetBelow(ks)
         /\ missed' = missed \cup ks
    /\ UNCHANGED <<connected, wire, changes, dirs, caches, queue, task>>

-----------------------------------------------------------------------------
(***************************************************************************)
(* The main loop, when the client is in no call: a message for a directory  *)
(* of the client, and the idle handler, which calls the listeners key by    *)
(* key; a listener may call the client.                                     *)
(***************************************************************************)
(* handle_notify: the connections whose directory is the one in the message. *)
FindsConnection(m) == m.dir \in notifyId

NotifyFromServer ==
    /\ Free /\ toNotify = {}
    /\ wire # <<>>
    /\ LET m == Head(wire)
       IN  IF FindsConnection(m) THEN CacheAndQueue(m.key, m.val, TRUE)
           ELSE UNCHANGED <<cache, dropped, queue>>
    /\ wire' = Tail(wire)
    /\ UNCHANGED <<store, connected, changes, mishaps, dirs, cacheDirs, cacheRecursiveDirs, task, missed>>

NotifyIdle ==
    /\ Free /\ toNotify = {}
    /\ notifyHandler
    /\ toNotify' = notifyList
    /\ notifyList' = {}
    /\ notifyHandler' = FALSE
    /\ UNCHANGED <<gconfd, dirs, caches, task, missed>>

(* A key that has left the cache is read again if it is monitored. *)
NotifyOne(k) ==
    /\ Free /\ k \in toNotify
    /\ toNotify' = toNotify \ {k}
    /\ IF ~Hit(k) /\ KeyBeingMonitored(k)
         THEN connected /\ Fetch(k)
         ELSE UNCHANGED <<cache, dropped, missed>>
    /\ UNCHANGED <<gconfd, dirs, cacheDirs, cacheRecursiveDirs, notifyList, notifyHandler, task>>

-----------------------------------------------------------------------------
(***************************************************************************)
(* The world: another client changes a value; gconfd goes away, and the     *)
(* engine makes its registrations again with the next one (see              *)
(* Registrations).  Neither tells the client what changed in between.       *)
(***************************************************************************)
OtherChange(k, v) ==
    /\ v # store[k]
    /\ Change({k}, [store EXCEPT ![k] = v])
    /\ UNCHANGED <<connected, mishaps, dirs, caches, queue, task>>

Restart ==
    /\ connected /\ GoesWrong
    /\ connected' = FALSE
    /\ UNCHANGED <<store, wire, changes, dirs, caches, queue, task, missed>>

Reconnect ==
    /\ ~connected
    /\ connected' = TRUE
    /\ UNCHANGED <<store, wire, changes, mishaps, dirs, caches, queue, task, missed>>

Init ==
    /\ store = Initially
    /\ connected = TRUE /\ wire = <<>> /\ changes = 0 /\ mishaps = 0
    /\ addCount = [d \in Dir |-> 0] /\ notifyId = {}
    /\ cache = [k \in Key |-> NoEntry] /\ cacheDirs = {} /\ cacheRecursiveDirs = {}
    /\ notifyList = {} /\ notifyHandler = FALSE /\ toNotify = {}
    /\ task = Idle
    /\ missed = {} /\ dropped = {}

Continue == RemoveOverlap \/ NotifyAdd \/ PreloadSubdirs \/ PreloadEntries

Next ==
    \/ \E d \in Dir, type \in PreloadType : AddDir(d, type) \/ Preload(d, type)
    \/ \E d \in Dir : RemoveDir(d) \/ AllEntries(d)
    \/ \E k \in Key : Get(k) \/ Unset(k) \/ NotifyOne(k)
    \/ \E k \in Key, v \in Value : Set(k, v)
    \/ \E k \in Key, v \in Value \cup {None} : OtherChange(k, v)
    \/ \E p \in Key \cup Dir : RecursiveUnset(p) \/ RecursiveUnsetFails(p)
    \/ Finalize \/ ClearCache
    \/ Continue \/ NotifyAddFails
    \/ NotifyFromServer \/ NotifyIdle
    \/ Restart \/ Reconnect

Spec == Init /\ [][Next]_vars

-----------------------------------------------------------------------------
TypeOK ==
    /\ store \in [Key -> Value \cup {None}] /\ connected \in BOOLEAN
    /\ wire \in Seq([dir : Dir, key : Key, val : Value \cup {None}])
    /\ changes \in 0..MaxEvents /\ mishaps \in 0..MaxEvents
    /\ addCount \in [Dir -> Nat] /\ (\A d \in Dir : addCount[d] <= MaxAdds[d]) /\ notifyId \subseteq Dir
    /\ cache \in [Key -> Entry \cup {NoEntry}]
    /\ cacheDirs \subseteq Dir /\ cacheRecursiveDirs \subseteq Dir
    /\ notifyList \subseteq Key /\ toNotify \subseteq Key /\ notifyHandler \in BOOLEAN
    /\ task \in Task
    /\ missed \subseteq Key /\ dropped \subseteq Key

(* A cached value is the one gconfd has, unless a message that says         *)
(* otherwise is on its way, no message was sent for the change, or the      *)
(* directory was registered again with a message of the time before still   *)
(* on its way: that message undoes what was read in between.                *)
CacheIsCurrent ==
    \A k \in Key : cache[k] # NoEntry /\ k \notin missed /\ ~Pending(k)
                     => cache[k].val = Answer(k).val

(* However directories are nested, added again and removed: two           *)
(* notifications never cover the same key, only directories of the list    *)
(* have one, and between calls, unless one failed, every directory of the  *)
(* list is covered (setup_overlaps, foreach_add_notifies).                 *)
DirsAreWatchedOnce ==
    /\ \A d, e \in notifyId : KeyIsBelow(d, e) => d = e
    /\ \A d \in notifyId : addCount[d] > 0
    /\ Free /\ mishaps = 0 =>
          \A d \in Dir : addCount[d] > 0 => Covered(d, notifyId)

(* Queued keys have an idle handler that will take them. *)
QueueIsServed == notifyList # {} => notifyHandler

(* A key that the cache wrongly takes for unset. *)
WronglyAbsent(k) ==
    KnownAbsent(k) /\ k \notin missed /\ ~Pending(k) /\ Answer(k).val # None

(* Between calls, unless one failed, the cache denies a key that is set only *)
(* when it has dropped the key: listings and the changes of others are safe. *)
(* (gconf-client.c:1073 has the test for what to drop the wrong way round.)  *)
AbsenceIsEarned == Free /\ mishaps = 0 => \A k \in Key : WronglyAbsent(k) => k \in dropped
=============================================================================
