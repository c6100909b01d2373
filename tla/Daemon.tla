------------------------------- MODULE Daemon -------------------------------
(***************************************************************************)
(* The gconfd process: its main loop, the signals it takes, the table of    *)
(* open databases, the periodic clean-up that reloads and drops them, and   *)
(* its end (gconfd.c, gconfd-dbus.c, gconf_database_new, _set_sources and   *)
(* _free).                                                                  *)
(*                                                                         *)
(* A storage is named by its address.  Every source on one address shares   *)
(* one cache, which lives as long as some database has such a source; what  *)
(* is changed is dirty in that cache until a database saves it.  A name is  *)
(* the sequence of addresses a client asks for, or that a database had when *)
(* it was made.                                                            *)
(***************************************************************************)
EXTENDS Integers, Sequences, FiniteSets, Functions

CONSTANTS
  Clients,      \* programs that register listeners
  Addresses,    \* storages
  Markup,       \* those of the markup backend: clearing their cache saves it first
  Writable,     \* those a source may write to
  PathLists,    \* what the path file may hold: the addresses of the default database
  Requests,     \* names clients ask GetDatabase for
  IdleLimit,    \* clean-ups without an access before a database is dropped (40 in the code)
  MaxDbs,       \* bound: databases made in one life of gconfd
  MaxOutside    \* bound: edits of the path file, storages that come or go

ASSUME DaemonAssumption ==
  /\ Markup \subseteq Addresses
  /\ Writable \subseteq Addresses
  /\ PathLists \subseteq Seq(Addresses) \ {<<>>}
  /\ Requests \subseteq Seq(Addresses) \ {<<>>}
  /\ IdleLimit \in Nat
  /\ MaxDbs \in Nat \ {0}
  /\ MaxOutside \in Nat

VARIABLES
  pc,          \* where main() is
  quit,        \* the main loop was told to quit
  inShutdown,  \* in_shutdown
  connections, \* nr_of_connections
  needReload,  \* need_db_reload
  dbs,         \* db_list: the databases by their number
  table,       \* dbs_by_addresses
  made,        \* object_nr: databases made so far
  path,        \* what the path file holds now
  resolvable,  \* the addresses that can be opened now
  outside,     \* how often either changed
  changes,     \* what became of the changes in the caches
  early        \* history: a SIGTERM came before the main loop ran

process == <<pc, quit, inShutdown, connections, needReload>>
environment == <<path, resolvable, outside>>
vars == <<pc, quit, inShutdown, connections, needReload, dbs, table, made,
          path, resolvable, outside, changes, early>>

DefaultDb == 1

(* Of an address list the sources that could be opened, in order.           *)
Opened(addresses) ==
  LET upTo[i \in 0..Len(addresses)] ==
        IF i = 0 THEN <<>>
        ELSE IF addresses[i] \in resolvable THEN Append(upTo[i - 1], addresses[i])
        ELSE upTo[i - 1]
  IN upTo[Len(addresses)]

NewDatabase(sources) ==
  [sources |-> sources, name |-> sources, listeners |-> {}, idle |-> 0, timer |-> FALSE]

(* Addresses on which some database of the function ds has a source: their  *)
(* caches are alive.                                                       *)
HeldBy(ds) == UNION {Range(ds[d].sources) : d \in DOMAIN ds}

(* The function f with the entry x for v.                                   *)
Entered(f, x, v) == [y \in DOMAIN f \cup {x} |-> IF y = x THEN v ELSE f[y]]

Only(ds, S) == [d \in DOMAIN ds \cap S |-> ds[d]]

(***************************************************************************)
(* The caches.  dirty: changed and not on disk.  failed: the last attempt   *)
(* to save it failed.  displaced: a reload took it, dirty, out of a         *)
(* database.  lost: changes that are gone though neither accounts for it.   *)
(* bad are the addresses on which saving fails: one that cannot be opened   *)
(* may.                                                                    *)
(***************************************************************************)
Saved(ch, as, bad) ==
  [ch EXCEPT !.dirty = @ \ (as \ bad),
             !.failed = (@ \ as) \cup (as \cap bad \cap ch.dirty),
             !.displaced = @ \ (as \ bad)]

(* The sources on the addresses as are freed; a cache that others hold stays *)
Released(ch, as, others) ==
  [ch EXCEPT !.dirty = @ \ (as \ others),
             !.lost  = @ \cup ((ch.dirty \cap (as \ others)) \ (ch.failed \cup ch.displaced))]

Failures == SUBSET (Addresses \ resolvable)

-----------------------------------------------------------------------------
(* Mutant of Freed: what was planned is not saved.                          *)
FreedUnsaved(s, dead, bad) ==
  LET left == Only(s.dbs, DOMAIN s.dbs \ dead)
  IN [dbs |-> left, changes |-> Released(s.changes, HeldBy(Only(s.dbs, dead)), HeldBy(left))]

(* gconf_database_free on the databases dead of s: one with a timer saves   *)
(* before it lets go of its sources.                                       *)
Freed(s, dead, bad) ==
  LET saving == {d \in dead : s.dbs[d].timer}
      saved  == Saved(s.changes, HeldBy(Only(s.dbs, saving)), bad)
      left   == Only(s.dbs, DOMAIN s.dbs \ dead)
  IN [dbs |-> left, changes |-> Released(saved, HeldBy(Only(s.dbs, dead)), HeldBy(left))]

(* gconf_database_set_sources: the new sources are there already; the old   *)
(* are told to clear their caches, which saves only markup ones, and freed.  *)
SetSources(s, d, new, bad) ==
  LET old     == Range(s.dbs[d].sources)
      cleared == Saved(s.changes, old \cap Markup, bad)
      left    == cleared.dirty \cap (old \ Range(new))
      ds      == [s.dbs EXCEPT ![d].sources = new]
  IN [dbs |-> ds, changes |-> Released([cleared EXCEPT !.displaced = @ \cup left], old, HeldBy(ds))]

(* reload_databases: the default database takes the path file as it is now, *)
(* the others open their own addresses again; one that can open none keeps  *)
(* what it has.                                                            *)
Reopened(d) == IF d = DefaultDb THEN Opened(path) ELSE Opened(dbs[d].sources)

(* The default database goes first, then the newest.                        *)
Turn(i) == IF i = 1 THEN DefaultDb ELSE made + 2 - i

ReloadNext(s, d, bad) ==
  IF d \in DOMAIN s.dbs /\ Reopened(d) # <<>> THEN SetSources(s, d, Reopened(d), bad) ELSE s

Reloads(s, bad) ==
  LET after[i \in 0..made] == IF i = 0 THEN s ELSE ReloadNext(after[i - 1], Turn(i), bad)
  IN after

Reloaded(s, bad) == Reloads(s, bad)[made]

(* drop_old_databases picks these.                                          *)
Unused(ds) ==
  {d \in DOMAIN ds \ {DefaultDb} : ds[d].listeners = {} /\ ds[d].idle > IdleLimit}

(* no_databases_in_use                                                      *)
NoneInUse(ds) == DOMAIN ds \subseteq {DefaultDb} /\ \A d \in DOMAIN ds : ds[d].listeners = {}

-----------------------------------------------------------------------------
Init ==
  /\ pc = "starting"
  /\ quit = FALSE
  /\ inShutdown = FALSE
  /\ connections = 1        \* gconfd_dbus_init took the name and the server object is there
  /\ needReload = FALSE
  /\ dbs = <<>>
  /\ table = <<>>
  /\ made = 0
  /\ path \in PathLists
  /\ resolvable \in SUBSET Addresses
  /\ outside = 0
  /\ changes = [dirty |-> {}, failed |-> {}, displaced |-> {}, lost |-> {}]
  /\ early = FALSE

(* gconf_server_load_sources                                                *)
LoadSources ==
  /\ pc = "starting"
  /\ Opened(path) # <<>>
  /\ pc' = "loaded"
  /\ dbs' = [d \in {DefaultDb} |-> NewDatabase(Opened(path))]
  /\ table' = [n \in {Opened(path)} |-> DefaultDb]
  /\ made' = 1
  /\ UNCHANGED <<quit, inShutdown, connections, needReload, changes, early>>
  /\ UNCHANGED environment

(* The assertion of gconf_server_get_default_sources fails when no address  *)
(* could be opened, at the start and in a reload.                          *)
LoadAborts ==
  /\ Opened(path) = <<>>
  /\ \/ pc = "starting"
     \/ pc = "running" /\ needReload
  /\ pc' = "aborted"
  /\ changes' = [changes EXCEPT !.dirty = {}]
  /\ dbs' = <<>>
  /\ table' = <<>>
  /\ UNCHANGED <<quit, inShutdown, connections, needReload, made, early>>
  /\ UNCHANGED environment

(* gconf_main: the loop is entered in main_loops, then it is run.  Running  *)
(* it (GLib) forgets a quit that came in between.                          *)
EnterLoop ==
  /\ pc = "loaded"
  /\ pc' = "entering"
  /\ UNCHANGED <<quit, inShutdown, connections, needReload, dbs, table, made, changes, early>>
  /\ UNCHANGED environment

RunLoop ==
  /\ pc = "entering"
  /\ pc' = "running"
  /\ quit' = FALSE
  /\ UNCHANGED <<inShutdown, connections, needReload, dbs, table, made, changes, early>>
  /\ UNCHANGED environment

(* The loop returns; from here every request is refused.                    *)
LoopReturns ==
  /\ pc = "running"
  /\ quit
  /\ pc' = "ended"
  /\ inShutdown' = TRUE
  /\ UNCHANGED <<quit, connections, needReload, dbs, table, made, changes, early>>
  /\ UNCHANGED environment

(* shutdown_databases                                                       *)
ShutdownDatabases ==
  /\ pc = "ended"
  /\ \E bad \in Failures :
       changes' = Freed([dbs |-> dbs, changes |-> changes], DOMAIN dbs, bad).changes
  /\ dbs' = <<>>
  /\ table' = <<>>
  /\ pc' = "exited"
  /\ UNCHANGED <<quit, inShutdown, connections, needReload, made, early>>
  /\ UNCHANGED environment

-----------------------------------------------------------------------------
(* Mutant of Sigterm: the loop is not told.                                 *)
SigtermUnheard ==
  /\ pc \notin {"exited", "aborted"}
  /\ inShutdown' = TRUE
  /\ early' = (early \/ pc \in {"starting", "loaded", "entering"})
  /\ UNCHANGED <<pc, quit, connections, needReload, dbs, table, made, changes>>
  /\ UNCHANGED environment

(* signal_handler: SIGTERM quits the loop only if there is one.             *)
Sigterm ==
  /\ pc \notin {"exited", "aborted"}
  /\ inShutdown' = TRUE
  /\ quit' = (quit \/ pc \in {"entering", "running"})
  /\ early' = (early \/ pc \in {"starting", "loaded", "entering"})
  /\ UNCHANGED <<pc, connections, needReload, dbs, table, made, changes>>
  /\ UNCHANGED environment

Sighup ==
  /\ pc \notin {"exited", "aborted"}
  /\ needReload' = TRUE
  /\ UNCHANGED <<pc, quit, inShutdown, connections, dbs, table, made, changes, early>>
  /\ UNCHANGED environment

(* server_filter_func: the bus is gone.                                     *)
Disconnected ==
  /\ pc = "running"
  /\ quit' = TRUE
  /\ UNCHANGED <<pc, inShutdown, connections, needReload, dbs, table, made, changes, early>>
  /\ UNCHANGED environment

(* server_handle_shutdown: the server object goes first, which resets the   *)
(* count of connections.                                                   *)
HandleShutdown ==
  /\ pc = "running"
  /\ ~inShutdown
  /\ connections = 1
  /\ connections' = 0
  /\ quit' = TRUE
  /\ UNCHANGED <<pc, inShutdown, needReload, dbs, table, made, changes, early>>
  /\ UNCHANGED environment

-----------------------------------------------------------------------------
(* A request to gconfd is refused in shutdown and once the server object is *)
(* gone; one to a database only in shutdown.                               *)
Serving == pc = "running" /\ ~inShutdown

(* gconfd_obtain_database: a name that is not in the table is opened, and   *)
(* the new database is entered under the addresses that could be opened.    *)
GetDatabase ==
  /\ Serving
  /\ connections = 1
  /\ made < MaxDbs
  /\ \E name \in Requests :
       /\ name \notin DOMAIN table
       /\ Opened(name) # <<>>       \* else the caller gets the error
       /\ dbs' = Entered(dbs, made + 1, NewDatabase(Opened(name)))
       /\ table' = Entered(table, Opened(name), made + 1)
  /\ made' = made + 1
  /\ UNCHANGED <<changes, early>>
  /\ UNCHANGED process
  /\ UNCHANGED environment

(* A request that only reads: it counts as an access.                       *)
Access(d) == [dbs EXCEPT ![d].idle = 0]

Query ==
  /\ Serving
  /\ \E d \in DOMAIN dbs : dbs' = Access(d)
  /\ UNCHANGED <<table, made, changes, early>>
  /\ UNCHANGED process
  /\ UNCHANGED environment

(* gconf_database_set, _unset and the like: the first writable source takes *)
(* the change and a save is planned.                                       *)
Change ==
  /\ Serving
  /\ \E d \in DOMAIN dbs : \E i \in DOMAIN dbs[d].sources :
       LET a == dbs[d].sources[i]
       IN /\ a \in Writable /\ \A j \in 1..(i - 1) : dbs[d].sources[j] \notin Writable
          /\ changes' = [changes EXCEPT !.dirty = @ \cup {a},
                                        !.failed = @ \ {a},
                                        !.displaced = @ \ {a}]
          /\ dbs' = [Access(d) EXCEPT ![d].timer = TRUE]
  /\ UNCHANGED <<table, made, early>>
  /\ UNCHANGED process
  /\ UNCHANGED environment

AddNotify ==
  /\ Serving
  /\ \E d \in DOMAIN dbs, c \in Clients :
       dbs' = [Access(d) EXCEPT ![d].listeners = @ \cup {c}]
  /\ UNCHANGED <<table, made, changes, early>>
  /\ UNCHANGED process
  /\ UNCHANGED environment

RemoveNotify ==
  /\ Serving
  /\ \E d \in DOMAIN dbs : \E c \in dbs[d].listeners :
       dbs' = [Access(d) EXCEPT ![d].listeners = @ \ {c}]
  /\ UNCHANGED <<table, made, changes, early>>
  /\ UNCHANGED process
  /\ UNCHANGED environment

(* NameOwnerChanged: a client ended; the filter of each database sees it.   *)
ClientEnds ==
  /\ pc = "running"
  /\ \E c \in UNION {dbs[d].listeners : d \in DOMAIN dbs} :
       dbs' = [d \in DOMAIN dbs |-> [dbs[d] EXCEPT !.listeners = @ \ {c}]]
  /\ UNCHANGED <<table, made, changes, early>>
  /\ UNCHANGED process
  /\ UNCHANGED environment

(* gconf_database_sync_idle, at last after the minute of the timeout.       *)
SyncTimer(d) ==
  /\ pc = "running"
  /\ d \in DOMAIN dbs
  /\ dbs[d].timer
  /\ \E bad \in Failures : changes' = Saved(changes, Range(dbs[d].sources), bad)
  /\ dbs' = [Access(d) EXCEPT ![d].timer = FALSE]
  /\ UNCHANGED <<table, made, early>>
  /\ UNCHANGED process
  /\ UNCHANGED environment

(* Mutant of Unlisted: the name stays in the table.                         *)
UnlistedNot(dead) == table

(* unregister_database: the name is taken out of the table, whichever       *)
(* database is found there.                                                *)
Unlisted(dead) == [n \in DOMAIN table \ {dbs[d].name : d \in dead} |-> table[n]]

(* periodic_cleanup_timeout: the databases are reloaded if SIGHUP came, and  *)
(* those nobody used for long are dropped.                                 *)
Aged == [d \in DOMAIN dbs |-> [dbs[d] EXCEPT !.idle = IF @ > IdleLimit THEN @ ELSE @ + 1]]

Cleanup ==
  /\ pc = "running"
  /\ needReload => Opened(path) # <<>>       \* else LoadAborts
  /\ needReload' = FALSE
  /\ \E bad \in Failures :
       LET now  == [dbs |-> Aged, changes |-> changes]
           s    == IF needReload THEN Reloaded(now, bad) ELSE now
           dead == Unused(s.dbs)
           left == Freed(s, dead, bad)
       IN /\ dbs' = left.dbs
          /\ changes' = left.changes
          /\ table' = Unlisted(dead)
          /\ quit' = (quit \/ (NoneInUse(left.dbs) /\ connections = 0))
  /\ UNCHANGED <<pc, inShutdown, connections, made, early>>
  /\ UNCHANGED environment

-----------------------------------------------------------------------------
(* Outside gconfd: the path file is edited, a storage comes or goes.        *)
Outside ==
  /\ pc \notin {"exited", "aborted"}
  /\ outside < MaxOutside
  /\ outside' = outside + 1
  /\ UNCHANGED <<dbs, table, made, changes, early>>
  /\ UNCHANGED process

EditPath ==
  /\ Outside
  /\ path' \in PathLists \ {path}
  /\ UNCHANGED resolvable

StorageChanges ==
  /\ Outside
  /\ \E a \in Addresses : resolvable' \in {resolvable \ {a}, resolvable \cup {a}} \ {resolvable}
  /\ UNCHANGED path

Next ==
  \/ LoadSources
  \/ LoadAborts
  \/ EnterLoop
  \/ RunLoop
  \/ LoopReturns
  \/ ShutdownDatabases
  \/ Sigterm
  \/ Sighup
  \/ Disconnected
  \/ HandleShutdown
  \/ GetDatabase
  \/ Query
  \/ Change
  \/ AddNotify
  \/ RemoveNotify
  \/ ClientEnds
  \/ \E d \in 1..MaxDbs : SyncTimer(d)
  \/ Cleanup
  \/ EditPath
  \/ StorageChanges

(* main() goes on; the main loop runs each database's timer, and looks      *)
(* whether it was told to quit.                                            *)
Fairness ==
  /\ WF_vars(LoadSources \/ EnterLoop \/ RunLoop \/ LoopReturns \/ ShutdownDatabases)
  /\ \A d \in 1..MaxDbs : WF_vars(SyncTimer(d))

Spec == Init /\ [][Next]_vars /\ Fairness

-----------------------------------------------------------------------------
TypeOK ==
  /\ pc \in {"starting", "loaded", "entering", "running", "ended", "exited", "aborted"}
  /\ quit \in BOOLEAN /\ inShutdown \in BOOLEAN /\ needReload \in BOOLEAN /\ early \in BOOLEAN
  /\ connections \in 0..1
  /\ made \in 0..MaxDbs
  /\ path \in PathLists
  /\ resolvable \subseteq Addresses
  /\ outside \in 0..MaxOutside
  /\ DOMAIN dbs \subseteq 1..made
  /\ \A d \in DOMAIN dbs :
       /\ dbs[d].sources \in Seq(Addresses) /\ dbs[d].sources # <<>>
       /\ dbs[d].name \in Seq(Addresses)
       /\ dbs[d].listeners \subseteq Clients
       /\ dbs[d].idle \in 0..(IdleLimit + 1)
       /\ dbs[d].timer \in BOOLEAN
  /\ changes \in [{"dirty", "failed", "displaced", "lost"} -> SUBSET Addresses]

(* A change that gconfd has acknowledged is on disk, or in a cache that     *)
(* some database is going to save; neither dropping an idle database nor    *)
(* the end of gconfd loses it.  Only a save that failed, or a reload that   *)
(* takes the storage out of a database before it saved, leave it behind     *)
(* (gconf_database_free, gconf_database_set_sources, markup_tree_unref,     *)
(* cache_unref).                                                           *)
Planned == {a \in Addresses : \E d \in DOMAIN dbs : dbs[d].timer /\ a \in Range(dbs[d].sources)}

ChangesAreKept ==
  /\ changes.lost = {}
  /\ changes.dirty \subseteq Planned \cup changes.failed \cup changes.displaced

(* dbs_by_addresses never leads to a freed database, and a database it      *)
(* leads to has no sources but those of the name, though databases are      *)
(* entered under what could be opened of their name, may share a name, and  *)
(* are taken out by it (register_database, unregister_database).  Only the  *)
(* default database changes its sources and keeps its name.                *)
TableIsTrue ==
  \A n \in DOMAIN table :
    /\ table[n] \in DOMAIN dbs
    /\ table[n] # DefaultDb => Range(dbs[table[n]].sources) \subseteq Range(n)

(* A gconfd that refuses requests comes to its end, unless the SIGTERM came *)
(* before its main loop ran: then nothing tells the loop to quit, and the   *)
(* idle exit is never taken (signal_handler, gconf_main).                  *)
ShutdownEnds == inShutdown ~> (early \/ pc \in {"exited", "aborted"})
=============================================================================
