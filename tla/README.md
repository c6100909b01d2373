# A TLA+ model of GConf over D-Bus

GConf keeps the configuration of desktop applications: a tree of keys with
typed values, held by a daemon (`gconfd`) in one or more *sources*, read and
written through a client library that also tells applications what changed.
This directory has TLA+ modules that model the parts with state worth
checking, TLC configurations that check them on small instances, and proofs,
checked by TLAPS, that hold for every instance.

The build modelled is the one over D-Bus (`./configure --disable-orbit`,
`HAVE_DBUS`); `HAVE_CORBA` is its exclusive alternative. One module,
`SavedState`, is about a part that only the ORBit build has, the log from which
a gconfd that was killed gets its listeners back; the rest of that build (the
lock files, the engine of `gconf.c`) is not modelled.

## The system

| Part | State | Operations | Hard behaviour |
|---|---|---|---|
| Listener table, `gconf-listeners.c` | tree of directories with listeners, flat array from index to node, free indices, next index, a counter shared by the process | add, remove, notify, remove_if | callbacks add, remove and notify during a notification; ids are reused; indices run out |
| Source stack, `gconf-sources.c` | list of sources, each a backend and an address, writable or not | query, set, unset, recursive unset, schema binding, listing, sync | each operation is a walk of its own with its own end; any source may fail in the middle |
| Database, `gconf-database.c` | a stack, two timers for saving, listeners | the requests of clients, the timers | timers replace each other; several databases share a source |
| D-Bus face of a database, `gconf-database-dbus.c` | registrations by directory, clients being watched | the D-Bus methods, NameOwnerChanged, sending Notify | clients vanish; client and daemon get out of step |
| gconfd, `gconfd.c`, `gconfd-dbus.c` | table of databases, flags for reload and shutdown, the caches' life | obtain, reload, drop, quit | signals before, in and after the main loop; a reload under unsaved changes; names that collide |
| Saved state, `gconfd.c` (ORBit build) | a log file, its copy and its predecessor | append, compact, read back | gconfd killed between any two accesses; ids given out again |
| Client engine, `gconf-dbus.c` | connections by id and by directory, database path, three flags about the service | requests, notify_add, notify_remove, the signals of the bus | the daemon goes away, comes back or is activated between any two calls, and the client hears of it later |
| GConfClient, `gconf-client.c` | watched directories, cache of entries, queue of notifications | add_dir, remove_dir, get, set, preload, the idle handler | overlapping directories; cached values against queued notifications and own writes |
| Markup backend, `markup-*.c` | a tree of directories read as far as needed, with dirty flags; a file for each directory or for the whole tree, and one for each locale | the operations of a source, sync, cache cleaning | a crash or a full disk in the middle of replacing files; parts read late and saved again |
| XML backend, `xml-*.c` | a cache of directories, a table of absent ones; a file for each directory | the same, with deletion and clean-up | two renames for each file; what is remembered as absent |
| Values and their forms, `gconf-value.c`, `gconf-internals.c`, `gconf-dbus-utils.c` | none that lasts | compare, encode, print, parse, marshal | five textual or binary forms, each with its own special cases |
| Defaults mechanism, `defaults/` | calls in progress, a count of them, a kill timer | copy to the system or the mandatory storage, check, unset | late answers of PolicyKit, exit when idle, files changed behind gconfd's back |
| Change sets, `gconf-changeset.c` | a set of changes | fill, commit, reverse | a commit that fails half way |

How they meet. An application calls GConfClient, which uses one engine. The
engine sends method calls to gconfd and blocks for each reply, while signals and
`Notify` calls queue up for its main loop. gconfd has one thread: it handles a
request from beginning to end, and its timers run between requests. A request
goes to a database, from there down the stack of sources to the backends; the
change is announced to the clients registered on the key's directories, in this
database and in each other one in which the modified source decides the key, and
reaches the disk when a timer of the database fires. A value crosses D-Bus, is
written as markup or XML, read again, and crosses D-Bus once more. The defaults
helper writes the storages in front of and behind the user's own with a gconfd
engine of its own, and tells the user's gconfd by a signal.

What makes each part correct:

- *Listener table*: an id finds its listener and no other; the tree leads to
  every listener; nothing is freed that a notification still holds.
- *Source stack*: the different walks agree on who decides a key.
- *Database*: what listeners are told is what a query answers; nothing changes
  silently; what changed gets saved.
- *Registrations*: each connection of a live client is registered with the
  running daemon, once, and nothing is kept for a client that is gone.
- *gconfd*: an acknowledged change is saved or going to be, whatever is reloaded
  or dropped; the table of databases never leads to a freed one; a gconfd that
  refuses requests ends.
- *Saved state*: after a kill the next gconfd knows each listener of each program
  under the id the program holds, and none that was removed.
- *GConfClient*: each watched directory is covered by one engine notification;
  when all is quiet the cache has what the daemon has.
- *Backends*: saved is the old or the new, success means saved, and a new process
  reads what was saved (`PersistentStore`).
- *Values*: what is answered is what was set, on every way.
- *Defaults*: a copy is what was asked for, those who asked before learn of it, no
  call is lost to the timer and the helper does not stay for ever.

## Modules

| Module | Models |
|---|---|
| `KeySpace` | the tree of key names, `gconf_key_is_below`, `gconf_key_directory` |
| `Listeners` | `gconf-listeners.c` |
| `SourceStack` | the functions of `gconf-sources.c` over a store, as operators |
| `Database` | the state machine around them: requests, timers, failures |
| `Registrations` | `gconf-dbus.c` (connections, signals), the registrations of `gconf-database-dbus.c`, start and shutdown of `gconfd-dbus.c` |
| `Daemon` | the process: main loop, signals, table of databases, clean-up, reload, end |
| `SavedState` | the saved-state log of the ORBit build |
| `Client` | `gconf-client.c` in front of a gconfd that others change |
| `PersistentStore` | abstract: what a storage promises |
| `MarkupTree` | `markup-tree.c`, `markup-backend.c`: loading, changing, saving; implements `PersistentStore` |
| `MarkupLocales` | the localized parts of schemas in `markup-tree.c` |
| `XmlDir` | `xml-cache.c`, `xml-dir.c`, `xml-backend.c`; implements `PersistentStore` |
| `Values`, `TextForm`, `Wire`, `MarkupForm`, `XmlForm` | the kinds of values and their forms as text, in D-Bus messages, in the files of both backends, as operators |
| `Journey` | the state machine around them: a value on its way |
| `Defaults` | `gconf-defaults.c`, the commit of a change set, SystemSet in `gconfd.c` |
| `MC...` | instances for TLC |
| `ListenersProofs`, `RegistrationsProofs`, `DatabaseProofs`, `ClientProofs`, `DaemonProofs`, `SavedStateProofs`, `DefaultsProofs` | theorems about the module each is named after |
| `StorageProofs` | theorems about the backends, `XmlDir` and `MarkupLocales` |

`Database` uses the operators of `SourceStack`, `Journey` those of the five forms,
and `Listeners`, `SourceStack`, `Client`, the backends and `Defaults` those of
`KeySpace`. Otherwise each state machine has one question and abstracts its
neighbours to what that question needs: `Database` says what a notice carries,
`Registrations` who is there to be told, `Client` what an application makes of it;
`Daemon` decides when a database saves, `MarkupTree` and `XmlDir` what then happens
to the files, `Journey` what becomes of a value in them.

### KeySpace

A name is an opaque value and `Up[p]` the set of its prefixes that end at a `/`,
itself included. This is all the code's string operations on keys amount to, and
`PathAssumption` says what they guarantee: a tree with the root on top.

### Listeners

A listener is named by the number of the call that added it (`issued`). `nodes`
and `listed` are the tree, `flat` and `len` the array, `removedIndices` the list
of free indices, `nextCnxn` the first index never used. `ticks` counts the calls
of `ltable_next_cnxn` of the whole process (`OtherTableAdd` is one by another
table); the uniqueness bits are `ticks % Wrap`. Since a callback may do anything
the table allows, a notification is not one step: `Notify` copies the list and
takes the references, each `Callback` passes one listener, and `EndNotify` drops
the references, with any other action, also another `Notify`, in between. `stack`
has a frame for each notification in progress.

`Remove(l)` asks for the id that listener `l` got, whether `l` is still there or
not, so stale ids are part of the model. `Matches` follows the code: through the
flat array to a node, and along its listeners until the whole id is equal.

`gconf_listeners_remove_if` is a sequence of `Remove` steps; `foreach` and
`get_data` only read. Destroying the table is not modelled: it ends its life.

### SourceStack and Database

`store[s][k]` is what storage `s` has in memory for key `k`: a value and the name
of a schema. A schema is a value with a default. A database is a sequence of
layers (a storage, writable or not); two databases may have layers on the same
storage, as they do in the code, where `gconf_resolve_address` and the backends
share it. The walks of `gconf-sources.c` become sets of layers and their minimum
(`Visits`, `SetStops`, `UnsetSources`), each translated from its own function:
that they agree is what the properties say. A storage in `broken` fails every
call; `Break` and `Repair` are the environment.

A request is one action (`HandleSet` and so on), from the D-Bus handler down to
the notices, because gconfd runs it without returning to the main loop. `notices`
holds the calls of `gconf_database_dbus_notify_listeners` of the last request;
who is registered for them is the matter of `Registrations`. `timeouts` and
`idles` are the databases with `sync_timeout` and `sync_idle` set. `aborted` names
the assertion that ended the process, if any; "read_only" is that of a recursive
unset in a database with no writable layer, which needs no storage to fail.

A listing is merged layer by layer (`EntryOf`). While the entry of a key has no
value, each further layer that has the key says anew whether it is writable, as seen
from that layer, so the last one decides (`EntryLayer`). The markup backend lists an
entry that was emptied until it saves; `emptied` is any set of layers, or keys, that
do so, and what is said of listings and of a recursive unset is said for all of them.

Locales, types, other metainfo than the schema name, and `remove_dir` are left
out; a set, unset or listing of a key does not depend on them.

### Registrations

| In the model | In the code |
|---|---|
| `serviceRunning`, `needsReconnect` | the globals `service_running` and `needs_reconnect` of a client |
| `attached` | the engine has `database` set, and is in `engines_by_db` |
| `cnxns`, `DirOf` | `notify_ids` and `notify_dirs` of the engine |
| `inbox` | signals of the bus that the client's main loop has not dispatched: the owner of the service name is gone, there is one again, the Bye of a database |
| `task` | the blocking calls that a client is in the middle of |
| `notifications`, `listening` | the lists of the hash table `notifications`, `nr_of_notifications` in `listening_clients` |
| `departures` | NameOwnerChanged of a watched client, on its way to gconfd |
| `gaps` | history, not in the code: why a client has connections that are not registered |

A client makes one call after the other and blocks in each. So a request is
several steps: `Request`, `NotifyAdd`, `NotifyRemove` and `Dispatch` are the code up
to the first call, `EnsureDatabase` the common beginning of all of them, and
`GetDatabase`, `AddAgain`, `AddOwn`, `RemoveOwn`, `ReadOwn` are the handling of a
call by gconfd together with the return to the client. `CallFails` is a call that
gets an error instead. Between two of these steps gconfd may shut down
(`Shutdown`, then `Exit`), crash (`Exit`), be activated (`Activate`), and the client may
die (`Die`), with a call perhaps still on its way. A signal takes effect only when
it is dispatched, so a client works with beliefs about gconfd that are out of
date; the object path of the default database is the same in each gconfd, so its
calls find the new one all the same.

The model has the default database only; it has no loss of the bus itself, no
engine with a local address, and a call to a live gconfd is answered, however
late (`AddNotify` has a long timeout in the code). Order of re-registration is free,
as it follows a hash table. Clients meet only in gconfd's tables, where each
handler touches the entries of its caller alone: `StepTouchesOne` in the proofs
says so for any number of clients, which is why the instance can have a single
one; that it may find gconfd already running stands for the other clients that
started it.

### Daemon

`pc` is the line of `main()` the process is at: `LoadSources`, `EnterLoop`, `RunLoop`,
`LoopReturns`, `ShutdownDatabases`. `EnterLoop` and `RunLoop` are two steps because
`signal_handler` quits a loop only once it is in `main_loops`, and GLib forgets a
quit that comes before the loop runs. `quit`, `inShutdown`, `connections` and
`needReload` are the variables of the code; `dbs` is `db_list`, `table` is
`dbs_by_addresses`, keyed by the addresses a database could open when it was made.

`changes` says for each address what became of changes in its cache: dirty, failed
to save, displaced by a reload, or lost. The caches are shared by all sources on an
address and die with the last one, as `markup_tree_unref` and `cache_unref` have it.
`Freed`, `SetSources` and `Reloaded` are pure functions of this state, so that a
clean-up that reloads, then drops what is unused, then decides about exiting is one
action, as the code runs it. The environment edits the path file, and makes
addresses come and go.

Left out: the time between clean-ups (idle counts are in clean-ups), the lock of the
CORBA build, logging.

### SavedState

The lines of the log about one entry are read in order and the last one decides,
so the log is modelled as the set of entries whose last line adds them. `Append`
adds or cancels entries, or fails and gconfd goes on without the line. Compaction is
`WriteTmp`, `MoveAside`, `MoveInto`; reading back is `RestoreClient` and, for each
listener, `CancelEntry`, `UpdateClient`, `LogEntry`; `Crash` may come between any two
of these. Ids are numbers modulo `Wrap`, and start anywhere, as the uniqueness bits
start at the process id. `cnxns` is the `ctable` of each program, `attached` whether
it holds a reference to this gconfd. `excused` collects the connections that one of
the known gaps may have cut off.

### Client

A call of the application is a `task` of several steps where the engine is called
several times, with requests of others, restarts and failures in between: taking
off the notifications of directories below (`RemoveOverlap`), asking for the own one
(`NotifyAdd`), taking on those that lost their cover (`renotify`), each listing of a
preload. What the engine delivers waits in `wire`; it is applied by
`NotifyFromServer` only when the client is in no call, and listeners are told later,
by the idle handler, key by key (`NotifyIdle`, `NotifyOne`).

The tests of the code on names are taken as they are: `Chopped` is what
`gconf_client_lookup` makes of the directory of a top-level key, `RecursiveUnset` has
the inverted test of `remove_key_from_cache_recursively`. `Answer` is what gconfd
answers; other programs change `store` by `OtherChange`. `Restart` is the loss of the
registrations and `Reconnect` their return, which `Registrations` has in detail.
`missed` and `dropped` are history: keys that changed with no message to say so,
and keys that left the cache.

Left out: the typed getters and setters, which check and convert around the same
get and set; reversal of change sets; error handlers.

### PersistentStore, MarkupTree and XmlDir

`PersistentStore` is what gconfd relies on: a request changes what is answered
(`mem`), part of a sync makes some of it `saved`, an answer "saved" is only given
when all is, and a new process starts from what was saved. `spoilt` names the
keys for which a storage is known to fail this; a backend that is faithful has it
empty, and the less a backend adds to it the stronger the statement.

Both backends are shown to implement it by the mapping `mem <- Mem, saved <- Saved`:
`Mem` is what a query would answer now, from the nodes in memory and, below them,
from the files; `Saved` is what a new process would find.

In `MarkupTree` a node has the flags of `MarkupDir`. Loading is a function on nodes
(`LoadEntries`, `LoadSubdirs`, `LoadSubtree`), since nothing can come in between.
`markup_dir_sync` recurses, so `frames` is its stack, with a step for each access to
the disk: writing the second file, renaming it, removing the file of a directory
that became useless. Each may fail, a write may stop at any point, and `Restart`
may come between any two. `merged` is the flag of the address, which may differ
from one process to the next.

In `XmlDir` a directory in memory has its entries and the names of its
subdirectories read at different times; `nonexistent` is the table of absent ones.
`cache_sync` is a walk over all directories, lowest first, with a step for each
access: unlink, rmdir, write, move aside, move into place, delete what was aside,
and the undoing of a failed move. A pass that deleted something is repeated. The scan
of a directory for its subdirectories (`Rescan`) may miss any of them, which counts
as a fault: a directory that cannot be opened gives an empty list, a file that
cannot be examined is left out, and the list counts as read all the same
(`xml-dir.c:863`). A directory whose subdirectories were missed may seem useless and
have its file deleted.

### MarkupLocales

One subtree in one `%gconf-tree.xml`: `main` has the values, the descriptions of
locale C and the default values of every locale; `files` those of the other locales,
read when first asked for (`EnsureLoaded`) and merged with what is in memory
(`Merge`). `Save` rewrites the main file, and the file of each locale in which some
entry has both descriptions. `asked` is what programs set, `gaps` the descriptions
the code is known to lose or to find again.

### Values, TextForm, Wire, MarkupForm, XmlForm and Journey

Text is a sequence of characters; numbers are one character each, but for doubles,
of which three kinds are told apart: six digits suffice, they do not, or `strtod`
reports a range error. Each form is a pair of functions with the special cases of
the code: `Encode` and `Decode`, `ValueText` and its readers, `Sent` and `Received`,
`Element` and `Parsed`, `NodeSet` and `Extract`. They are written without recursion,
as values nest one deep and schemas two.

`Journey` composes them: a program sets a value (`MarkupSet`, `XmlSet`), the backend
writes it and reads it, another program looks it up, lists the directory or prints
it and reads the text. `XmlForm` keeps the node of an entry, as the code changes it
in place and what it held before may shine through.

### Defaults

`operations` and `timer` are those of the helper. A call goes through stages: sent,
listing (PolicyKit is asked for its actions), asking (one action after the other),
copied, done; `start_operation` and `stop_operation` are where the code has them.
`Copy` and `FinishCopy` are two steps because another process can see the file
before the signal. `stored` has the files of the two storages, `mine` the user's
values in gconfd and `saved` their file, which is what the helper reads; `cached` is
what the user's gconfd has read of the storages and `known` what a program there was
told. A path `p` excludes `Starts[p]`, since the code compares the beginnings of
strings; PolicyKit's answers are free.

## Runs

| Run | Instance | States | Question |
|---|---|---|---|
| `listeners` | 4 directories, 3 listeners, 4 ids of the process, 2 values of the uniqueness bits, notifications 2 deep | 1.3 million | do both tables stay exact under callbacks that change them? |
| `database` | storages mandatory, user and system; the default database (read-only, read-write, read-only), one opened on user and system read-write, and one on the same read-only; a key with and without schema, the schema's key, which may get a value that is none; the user's storage may fail | 34 thousand | do the walks agree, are clients told the truth, does everything get saved? |
| `registrations` | a client, three connections, two of them on one directory; two starts of gconfd | 122 thousand | do client and gconfd stay in step? |
| `registrations_lost` | the same | stops at the violation | does every restart of gconfd reconnect the client? |
| `client` | directories `/a` and `/a/b`, a key in each, one with a schema and its default among the two values; two changes or mishaps | 4.1 million | is the cache right, are directories covered? |
| `markup` | `/`, `/a`, `/a/b`, two keys, two changes, two faults | 135 thousand | does the markup backend implement `PersistentStore`? |
| `markup_locales` | two schemas, C and another locale, two types, three changes, one failed file | 630 thousand | are schemas answered as they were set? |
| `xml` | the same directories, three keys, two changes, two faults | 1.5 million | does the XML backend implement `PersistentStore`, are listings true? |
| `daemon` | two storages, one of each backend, two path files, two databases, one client; two changes outside | 232 thousand | are changes kept over reloads and drops, does gconfd end? |
| `saved_state` | one program with two connections, three ids, two deaths, one failing call | 659 thousand | do listeners survive a kill? |
| `values` | 78 values of every type, two sets, two trips through a file, both backends | 65 thousand | does a value come back as itself? |
| `defaults` | two programs, keys `/a/x` and `/ax`, two calls out of six, one change of the user | 195 thousand | are copies as asked, and calls answered? |

With two workers a run takes from five seconds to two minutes.

`listeners`: `TypeOK`; `FlatTableFindsListeners` (ids lead to listeners, indices are
never shared); `TreeLeadsToListeners` (pruning is exact); `RefcountsExact` (a listener
is freed when the table and all notifications in progress have let it go, not
before); `ActiveIsExact`; `StaleIdsDiffer` (a stale id equals a live one only after
the counter has gone round).

`database`: `NoticesMatchQueries` (a notice carries what a query now answers);
`SettableIffWritable` (the writable flag of a query predicts whether a set is let
through); `EntriesMatchQueries` (a listing agrees with queries); `ChangesAreNoticed` (a
step that changes the value some database stores announces the key there, if each
database can answer for it);
`UnsavedIsPlanned` (unsaved changes have a sync coming); `ChangesAreSaved` (and it
comes).

`registrations`: `TypeOK`; `Covered` (when a client waits for nothing and gconfd runs,
each directory lists the client once for each of its connections at least,
whatever restarts came in between); `WatchedForSomething` (the counter behind the
watch on a client is never above the entries in the lists); `EndsAreReported`
(gconfd hears of the end of each client it watches); `SignalsAreInStep` (a client that
lost gconfd has its return still in the queue, and does not take one gconfd's Bye
for another's); `TasksEnd` and `ReturnsAreSeen` (no request hangs, a restart is
noticed). `Covered` says at least once, not exactly once: `notify_add` enters the
connection before it calls, so a reconnection started by that very call registers
it twice, and after a crash of the client `HandleDeparture` takes one entry from each
list. What is left over makes gconfd send to nobody, which the code tolerates.

`client`: `CacheIsCurrent` (a cached value is gconfd's, unless a message that says
otherwise is on its way or none was sent); `DirsAreWatchedOnce` (notifications do not
overlap, belong to listed directories, and cover all of them between calls);
`QueueIsServed` (a queued key has an idle handler); `AbsenceIsEarned` (a set key is
denied only after the cache has dropped it).

`markup`, `xml`: `KeepsPromise`, the refinement of `PersistentStore`. `UnsavedIsFlagged`
(what differs from the disk is found by the next sync, also after failures);
`ListingIsTrue` (the subdirectories answered from memory are those of the disk).

`markup_locales`: `AnsweredAsSet`.

`daemon`: `ChangesAreKept` (an acknowledged change is on disk or in a cache that some
database is going to save, unless a save failed or a reload took the storage
away); `TableIsTrue` (no entry of the table leads to a freed database or to one with
other sources); `ShutdownEnds` (a gconfd that refuses requests ends).

`saved_state`: `ConnectionsSurvive` and `NoneComesBack`.

`values`: `AnsweredAsSet` (by lookup, in a listing, by printing and reading);
`ToldOfChanges` (a listening client ends up with the value); `NeighboursSurvive` (one
value does not cost the others of its file); `SettlesAfterOneTrip` (what a file changes
it changes the first time).

`defaults`: `ClientsLearn` (what a program was told stays true, or an announcement is
under way); `CopiesAsAsked` (a copy changes only what was asked for, to the user's
values, and success means all of it); `ServesAndLeaves` (each call ends, an idle
helper exits, and none exits under a call).

The state machines but `Journey` and `Defaults` have a `TypeOK`. The runs list it for
`Listeners` and `Registrations`, where theorems rest on it; it holds in the other
instances as well.

### Bounds

Three listeners are enough for two in one directory and one elsewhere, and for an
index to be used a third time; a uniqueness counter of two values goes round within
four ids, so the boundary of `StaleIdsDiffer` is met; two nested notifications are
enough for a listener to be held twice and removed. `MaxIndex = 7` leaves room in the
field for all listeners.

For the database, two layers on each side of the writable one, one shared writable
storage and one that fails give each walk something to disagree on. The mandatory
storage has the schema and a schema name for the key, so the schema's key is
overridden, and the key, without a value, is described in front of the writable layer
as well, once a client binds it: the least that tells the first layer that has a key
from the last. The read-only database is told of changes that it could not have
made, may be unable to answer, and has a request that ends the process.

In `registrations`, two starts (`MaxStarts`) and a gconfd that may run at the beginning
give three instances of it, so the queue can hold a whole restart while the
client still knows the first; two connections of one directory are needed for one
to lose the other's entry. `MaxLeft` bounds what a client may leave behind each
time it drops its engine, since nothing else does.

In `client`, nested directories of which the lower can be added twice give all the
overlaps, two events an overtaken message; in `markup` and `xml` three nested
directories are the fewest with one that is neither root nor leaf, and two faults
the fewest for a failed write followed by a kill; the disk starts empty or with
what an earlier process saved. In `daemon`, two names that share an address make
two databases share a cache and, when one address is away, a name; `IdleLimit = 0`
stands for 40. In `saved_state`, a second death comes while the first is being
recovered from; with three ids a new one meets an old one. In `values` the set
has each type with the characters, numbers and absent parts that some form treats
specially, and two sets let one value shine through the next. In `defaults`, `/a`
begins the text of both keys and is above only one.

### Deadlock and fairness

Deadlock is checked in `defaults`. In the others the system may really stop: bounds
on adds and events are used up, a process has aborted or exited, a client has died.

Fairness is weak throughout. In `Database` it is assumed of the two timers of each
database: GLib's main loop dispatches a timer that is due, and an idle function
when nothing else is ready. In `Registrations` it is assumed of the calls of a
client (`Advance`: gconfd answers what it reads, and the bus answers for it when it
is gone) and of `Dispatch` (a client returns to its main loop). In `Daemon` it is
assumed that `main()` goes on and the main loop runs the timers; in `Defaults` that
the bus activates the helper, that the timer fires, that handlers run and that
PolicyKit answers. No request, start or end is assumed ever to come.
The other modules claim safety only.

## What the code does not keep

One run is of a property that a comment of the code states and that fails.
`registrations_lost`: `gconf-dbus.c:502` says it re-connects "notifications and
re-get database names from the previous (if any) instance". When gconfd shuts
down in order, its Bye makes a client detach the engine and try at once to
attach it again (line 2346); gconfd no longer answers, and the engine is not in
`engines_by_db`, the table that `reinitialize_databases` walks when the next gconfd
comes. Its connections are registered nowhere until they are made anew.

Elsewhere the properties of the passing runs name what they except, each with its
cause. They were found as counterexamples of the property without them and are
meant to be as narrow as the code allows.

| Property | Exception | Cause |
|---|---|---|
| `FlatTableFindsListeners` | the field of the index is not used up (a bound of the run, a hypothesis of the theorem) | `gconf-listeners.c:322` asserts `next_cnxn <= 0xFFFFFF`; the last index passes, then the counter is 0x1000000, its index bits are 0, and line 418 sizes the array by them |
| `NoticesMatchQueries` | the notice of an unset, when another layer holds the key | `gconf-database.c:1491` announces the schema's default, "which is safe for now, I _think_" |
| `EntriesMatchQueries` | a key without a value, which every layer that has it has in front of the first writable one, may be listed as read-only | `gconf-sources.c:1369` judges the entry from the last layer that has the key, if only a schema name or an emptied entry; the query (line 542) looks on for a writable one |
| `ChangesAreNoticed` | a database cannot answer for the key after the change | its schema name leads to a value that is no schema; the round of notices ends there, before the databases behind it |
| `ChangesAreNoticed` | the value that changes is a default | the property is about the value a database stores; `gconf_database_set_schema` tells nobody (`gconf-database.c:1765`), nor does the change of a schema tell the keys it describes |
| `ChangesAreSaved` | a recursive unset in a database with no writable layer | the assertion at `gconf-sources.c:865` that an unset has modified some source fails with every storage in order, and ends gconfd for all clients with what is unsaved |
| `ChangesAreSaved`, `ChangesAreNoticed` | a storage fails | the assertions at `gconf-database.c:1412` and `:1473` end gconfd when a request failed after changing something; `gconf-sources.c:1052` drops the notices |
| `UnsavedIsPlanned` | a sync failed | it is logged and not planned again (`gconf-database.c:1010`) |
| `Covered` | `failed`, `removed` | a registration that fails in a reconnection is not tried again; a restart found out by `notify_remove` costs another connection of the directory its entry (`gconf-dbus.c:1096`) |
| `CacheIsCurrent` | `missed` | no message for a change: not watched (also a key that was set outside the directories, which is cached at `gconf-client.c:1157` all the same), a failed recursive unset, gconfd restarted; or an old one, on its way when its directory was registered again, comes after the value was read anew |
| `AbsenceIsEarned` | `dropped` | an unset below a directory drops the wrong keys, as the test at `gconf-client.c:1073` is inverted, and leaves the directory marked as cached |
| `KeepsPromise` of `markup` | `spoilt` | a second file left by a failed write is taken in place of an empty one (`markup-tree.c:4361`), and a file that could not be deleted is found again |
| `KeepsPromise` of `xml`, `ListingIsTrue` | `spoilt`, `overlooked` | a kill between the two renames, or the restoring of a stale old file (`xml-dir.c:550`); directories made on the way down, or kept in memory with their file gone, that no parent is told of (`xml-cache.c:427`); subdirectories that a failed scan missed (`xml-dir.c:863`) |
| `AnsweredAsSet` of `markup_locales` | `gaps` | the long description is taken from the short one (`markup-tree.c:3425`); errors of locale files are dropped (line 4594); an entry with one description makes no file; what is not rewritten comes back |
| `ChangesAreKept` | `failed`, `displaced` | a reload frees the old sources without saving those of the XML backend (`gconf-database.c:808`) |
| `ShutdownEnds` | `early` | a SIGTERM before the main loop runs quits no loop (`gconfd.c:507`), and the idle exit is never taken, as `nr_of_connections` starts at 1 (`gconfd-dbus.c:252`) |
| `ConnectionsSurvive` | `excused` | a kill between the renames of a save (under the comment "Atomically save our current state", `gconfd.c:1812`) or between cancelling and logging an entry (line 2330); an id given out again |
| `AnsweredAsSet` of `values` | shapes of values, by the way they came | a pair without first half is read past its end (`gconf-dbus-utils.c:755`); a text with `[]` in it, as of a list that ends in `[` or has one empty element, is an empty list (`gconf-value.c:277`); numbers of more than six digits, blanks, empty descriptions |
| `NeighboursSurvive` | `Poison` | the parser refuses what was written, and the whole file (`markup-tree.c:2551`) |
| `ToldOfChanges` | what `gconf_value_compare` passes over | owner, default, unused types (`gconf-value.c:1297`) |
| `ClientsLearn` | the mandatory storage | there is no signal for it |
| `CopiesAsAsked` | unsaved values of the user, excludes by beginning of text, a failed sync | the helper reads the user's file; `path_is_excluded` (`gconf-defaults.c:518`); the error of the sync is dropped (line 658) |
| `ServesAndLeaves` | an UnsetMandatory ends the helper under all calls; a value that cannot be decoded is never answered | its callback is never filled in (`gconf-defaults.c:1007`), though `gconf-defaults.xml` lists the method |

One more stands in `Daemon` as an action, not an exception: `gconfd.c:410` says "We
want to stay alive but do nothing" without addresses, but when none can be
opened an assertion ends the process (`LoadAborts`).

## What is proved

The theorems hold for every value of the constants that the named assumptions of
the modules allow: any tree of names (`PathAssumption`), any sets of clients, keys,
storages and directories (finite where an assumption says so), any number of
starts, faults and changes. An invariant that is not inductive is strengthened in
the proof module; its definition has a comment that says what the addition is.

`ListenersProofs`, all six invariants of `Listeners`, from `ListenersAssumption`:

- `TypeCorrect`: `TypeOK` is inductive as it stands; the lemmas `NewIndexType`,
  `NewListenerType` and `UnlinkType` say what the common parts of the actions
  leave behind.
- `FlatTable`: `Spec /\ []IndexFits => []FlatTableFindsListeners`. Its
  hypothesis `IndexFits`, that `next_cnxn` itself is an index of the field, cannot be
  left out: the last index passes the assertion of the code and breaks the array. The invariant needs that every
  index in use or free is below `nextCnxn` (`IndicesBelowNext`): then a new index
  is fresh (`NewIndexIsFresh`) and an array of `nextCnxn` slots has them all.
- `Tree`: the invariant adds that listeners in the table have a directory. The one
  step that matters is `UnlinkKeepsTree`: a node on the way up from the removed
  listener stays exactly when something below it still leads to a listener.
- `Active`: by the cardinality of a set with one element more or less.
- `Refcounts`: needs that only a listener still in the table is removed and that
  frames hold no listener yet to come (`HoldsKnown`); one lemma per action.
- `StaleIds`: ticks grow from one listener to the next (`TicksInOrder`), and
  numbers congruent modulo `Wrap` are `Wrap` apart (`CongruentApart`).

`RegistrationsProofs`, all five invariants of `Registrations`, from `DirAssumption`:

- `TypeCorrect`: a lemma for each action. The common parts (`Reinitialize`,
  `EnsureDatabase`, `Register`) have lemmas of their own.
- `EndsReported`: `EndsAreReported` is not inductive, because a call on its way when
  the client ends is handled afterwards. The invariant `EndsInv` says that at most
  one such call is left, that it does not register again, and that a count it
  may raise was 0.
- `SignalsInStep`: `SignalsAreInStep` is about the head and the members of a queue;
  `SignalsInv` is about its whole order. A gone is followed by a back once gconfd is
  there (`Followed`), and by one before the next bye (`Preceded`); a client that needs
  to reconnect has a back before any bye (`Announced`). `AppendKeeps` and `TailKeeps`
  say that sending and dispatching keep that. An engine that knows its database
  belongs to a client that knows of gconfd or of its end (`KnowsDaemon`).
- `Watched`: gconfd's count of a client against the sum of its lists. The sum is
  taken as the cardinality of the set of the entries (`EntriesOf`), so that a step on
  one list adds or takes one element.
- `CoveredAlways`: `Covered` speaks of clients with nothing left to do. `CoverInv` is
  about all of them: unless a client has yet to act on the end of a gconfd
  (`Outdated`), what gconfd lists of it, what it is still asking for and what it is
  going to take back account for its connections of each directory (`Enough`); and
  a client with connections is attached or about to be (`AttachedFor`), so that the
  next return of gconfd makes it register.
- All but the first rest on `StepTouchesOne`: the step of a client leaves all others
  alone.

`DatabaseProofs`, five invariants and the action property of `Database`, from
`SourceStackAssumption` and `DatabaseAssumption`:

- `TypeCorrect`, and `Planned`, which follows from it: a request marks only storages
  of the database it came to, and arms that database.
- `Settable` and `Entries` are facts about any stack in any state. The walks are sets
  of layers with a minimum (`MinOf`), and the merging of a listing ends with a maximum
  (`MaxOf`); the proofs say where each ends. `Entries` holds for any layers that list
  emptied entries: a listing never calls writable what is not, and the one case in
  which it does the opposite is spelled out.
- `Notices`: a notice is computed after the change it tells of. `SetIsTrue`,
  `UnsetIsTrue`, `UnsetAnswersAreTrue` and `OthersAreTrue` are about what each kind of
  request announces in its own database and in the others.
- `Noticed`: `Spec => ChangesAreNoticed`, which is about the value a database stores,
  not about defaults. When it changes, a layer of
  the database changed with none that holds the key in front of it (`ChangedLayer`),
  and that is the test by which the code picks the databases to tell.

`ClientProofs`, all five invariants of `Client`, from `ClientAssumption`,
`DirAssumption` and `NoEntryAssumption`:

- `TypeCorrect`; and `Queue`, whose invariant is of the handler as well as the queue.
- `Watched`: `WatchedInv` says of each call under way what it has yet to drop and to
  take on (`TaskIsSound`), and that a directory without cover is going to get it
  (`CoveredOrToBe`).
- `Current`: `CurrentInv` says that the last message for a key that will be
  dispatched has its value (`LastSays`), and that with no message on its way the
  cache has it (`CacheSays`). The order of the messages is all that matters.
- `Absence`: `AbsenceInv` says that a set key the cache does not have, with no
  message to make up for it, is below no directory that counts as cached, but for
  those the walk of a preload has yet to visit (`WillVisit`, `VisitsBelow`). A key is
  found by going down one directory at a time (`StepDown`), in a tree of any depth.

`StorageProofs`, of `XmlDir` the refinement and the listings, from `XmlAssumption` and
`LayoutsAssumption`:

- `Implements`: `Spec => KeepsPromise`, that is `Spec => Promise!Spec` under the
  mapping `mem <- Mem, saved <- Saved`. Each action maps to a step of
  `PersistentStore` or to a stutter: requests to `Request`, the accesses of a sync to
  stutters, but for those that bring a new file to its place or may lose one, which
  are `Save`, its end to `Answer`, and a kill to `Restart`.
- `Stays`: the inductive invariant `IInv` it needs. What is not marked for saving is as on disk, but for
  spoilt keys (`Agree`); nothing is stored in a directory thought not to exist, and
  none of those is in memory; of the directory at hand a sync knows what is in its
  files (`SyncInv`); and, unless the sync has failed or is to be repeated, every
  directory that needs saving is still before it, from which success means saved.
- `ListingHolds`: the names of subdirectories a directory in memory has are those that
  are there. A save changes what is there file by file, so `ListInv` says it between
  any two of its steps: the directory at hand counts as there until its parent is told
  that it is gone, and a directory that is in memory but not on disk is one of the
  overlooked, as are the subdirectories that a failed scan missed (`RescanLists`). A
  parent is told of a new directory by the lookup that makes it, and the walk up stops
  at the first directory that is known not to be new: `LinksLists`, `CreateLists` and
  `ForgetLists` say what that leaves out. TLC had found the exception too narrow for
  no tree of the run; the proof did, for a chain of four.
- Most of the proof is about lookups. To read and to make directories changes
  nothing that is answered, stored or to be saved (`Grows`); the lemmas
  `LookupGrows`, `CreateGrows`, `EnsureGrows` and `RescanGrows` say so for a tree of
  any depth, and `ForgetIs` what it is to drop a directory and tell its parent.

and of `MarkupLocales` its invariant, from `LocalesAssumption` (the names of the two models
do not meet, so that one module has both):

- `SchemasAnswered`: `LocalesInv` says, with the same predicate (`AllAsSet`), that memory
  and what is on disk are both as set: the disk when there is nothing to save, memory
  but for the files still to be read. A file that is still to be read has no new
  descriptions in memory beside it, so that no save rewrites it (`SaveAllKeeps`), and what is
  written whole is read again as it was (`WholeIsRead`).

`DaemonProofs`, the three invariants of `Daemon`, from `DaemonAssumption`:

- `TypeCorrect`, `ChangesKept` and `TableTrue` from one invariant, `IInv`: a dirty
  address is one of a database that plans to save (`KeptInv`); the table leads to
  the database of that name, and only the default database has sources its name
  does not have (`NamedInv`). The reload goes through all databases, so
  `ReloadNextKeeps` is about one and `UpTo`, an induction, about any number.

`SavedStateProofs`, the two invariants of `SavedState`, from `SavedStateAssumption`:

- `Survive`: `SurviveInv` follows the entry of each connection that must survive: in
  the file while gconfd is down or may be killed, in the table while it serves, in
  hand while it is being restored, in the file moved aside during a save (`Held`);
  and no other connection of the program has its id (`Alone`).
- `Removed`: as long as no system call failed, what the file has of running programs
  is in the table or on the list of what is to be restored (`BackInv`).

`DefaultsProofs`, both safety properties of `Defaults`, from `DefaultsAssumption`:

- `Learning`: `LearnInv` says that gconfd's copy of the system storage differs from
  the file only in keys about to be announced (`Kept`), and that a program knows a
  mandatory value, else the user's own, else what the system storage has or the
  signal is going to say (`KnownAs`).
- `Copying`: `Spec => CopiesAsAsked`, from the shapes of the calls (`ShapeInv`).

Where a set of numbers must have a least member, or a recursion go through to its end,
the proofs use that the order of the natural numbers is well founded (`NaturalOrder`,
`LeastNatural`, `UpTo`), which the library states without a parameter.

Only model-checked: `MarkupTree` and `Journey`. What the text forms do is checked for the values of the instance; the
theorems would be about strings of any length, and the forms are functions of
concrete characters. Liveness (`ChangesAreSaved`, `TasksEnd`, `ReturnsAreSeen`,
`ShutdownEnds`, `ServesAndLeaves`) stays with TLC, since the prover handles neither
fairness nor ENABLED.

## Not modelled

- The LDAP backend: a read-only query of a directory server.
- The GSettings backend, language wrappers, examples: glue without state of its own.
- The ORBit build apart from `SavedState`: object references, the lock file with
  the daemon's address, the engine over CORBA.
- File locks of the backends (`gconf_get_lock`): one process at a time is assumed to
  have a storage open for writing, but for the defaults helper.
- gconftool and the sanity check, beyond what printing and reading a value does: they
  make one request after the other. Loading schemas from a file is such a loop.
- The reversal of a change set: it reads the old value of each key and takes a read
  that fails for no value (`gconf-changeset.c`), so a revert may unset. It is one pass
  with no state between its steps.
- Parsing of path files and addresses, loading of modules, logging, Windows.
- In modelled parts: failed reads of the files of a storage, but for a scan of the
  XML backend that misses subdirectories and a sync that takes a directory it cannot
  read for a useless one; engines on other addresses and local engines, the loss of the
  bus itself at a client, modification times and users of entries, notifications
  by backends that change on their own (no backend of the source tree does), an
  empty list of includes in the defaults mechanism, whose treatment is PolicyKit's.

## Plan

What is left is to be proved: of `MarkupTree`, `UnsavedIsFlagged` and the refinement of
`PersistentStore`. The stack of `markup_dir_sync` makes its invariant one of paths: what
is dirty is flagged on the way down from the root, or in a frame.
