----------------------------- MODULE SavedState -----------------------------
(***************************************************************************)
(* The saved state of the ORBit build of gconfd (gconfd.c): a running log   *)
(* of the clients and their listeners, compacted now and then, from which   *)
(* the next gconfd restores them and tells each client its new listener     *)
(* ids.  gconfd may be killed between any two steps on the file.            *)
(*                                                                         *)
(* One database and one location.  Reading the log keeps, of all the lines  *)
(* about one entry, the last: so the log is the set of entries whose last   *)
(* line adds them.  An entry is <<c>> for a client and <<c, id>> for a      *)
(* listener of it.                                                         *)
(***************************************************************************)
EXTENDS Integers, FiniteSets

CONSTANTS
  Clients,      \* programs
  Names,        \* what a program calls its connections
  NoId,         \* server id of a connection that is not made
  NoFile,       \* content of a file that is not there
  NoEntry,
  Wrap,         \* ids before the uniqueness bits start over
  MaxDeaths,    \* bound: ends of gconfd
  MaxFailures   \* bound: failing system calls

Ids == 0..(Wrap - 1)
Entries == {<<c>> : c \in Clients} \cup (Clients \X Ids)

ASSUME SavedStateAssumption ==
  /\ Wrap \in Nat \ {0} /\ MaxDeaths \in Nat /\ MaxFailures \in Nat
  /\ NoId \notin Ids /\ NoEntry \notin Entries
  /\ \A f \in SUBSET Entries : f # NoFile

VARIABLES
  pc,         \* gconfd: down, restoring or up, or at a step of logfile_save
  exiting,    \* the save in progress is the last thing gconfd does
  listeners,  \* db->listeners: pairs of client and id
  table,      \* client_table
  next,       \* the next id of this process
  log,        \* the saved state file
  tmp,        \* .tmp
  orig,       \* .orig
  todo,       \* entries read from the log and not restored yet
  hand,       \* the listener entry being restored, and how far
  cnxns,      \* of each program: the server id of each connection (ctable)
  alive,      \* programs that run
  attached,   \* programs that hold a reference to this gconfd
  deaths, failures,
  excused     \* history: connections a known gap may have cut off

gconfd == <<pc, exiting, listeners, table, next, todo, hand>>
files == <<log, tmp, orig>>
programs == <<cnxns, alive, attached>>
budget == <<deaths, failures>>
vars == <<pc, exiting, listeners, table, next, log, tmp, orig, todo, hand,
          cnxns, alive, attached, deaths, failures, excused>>

Logged == IF log = NoFile THEN {} ELSE log
Made(c) == {n \in Names : cnxns[c][n] # NoId}
Connections == {cn \in Clients \X Names : cn[2] \in Made(cn[1])}

(* Connections whose entry is in S and which their program finds under that *)
(* id, as no other connection of it has the same.                          *)
With(S) ==
  {cn \in Connections :
     LET c == cn[1] n == cn[2]
     IN <<c, cnxns[c][n]>> \in S /\ \A k \in Names : cnxns[c][k] = cnxns[c][n] => k = n}

Nothing == [entry |-> NoEntry, id |-> NoId]

Init ==
  /\ pc = "down"
  /\ exiting = FALSE
  /\ listeners = {} /\ table = {}
  /\ next = 0
  /\ log = NoFile /\ tmp = NoFile /\ orig = NoFile
  /\ todo = {} /\ hand = Nothing
  /\ cnxns = [c \in Clients |-> [n \in Names |-> NoId]]
  /\ alive = Clients
  /\ attached = {}
  /\ deaths = 0 /\ failures = 0
  /\ excused = {}

-----------------------------------------------------------------------------
(* A system call fails.                                                     *)
Failing ==
  /\ failures < MaxFailures
  /\ failures' = failures + 1

(* A line is appended to the log and flushed, or that fails and gconfd goes *)
(* on without it: then the connections in missed would not be restored.     *)
Append(added, removed, missed) ==
  \/ /\ log' = (Logged \ removed) \cup added
     /\ UNCHANGED <<failures, excused>>
  \/ /\ Failing
     /\ excused' = excused \cup missed
     /\ UNCHANGED log

(* The uniqueness bits go round; the index differs from those in use.  A new *)
(* id is only asked for while one is free: a bound, Wrap again.             *)
Free == {k \in Ids : (next + k) % Wrap \notin {l[2] : l \in listeners}}
NewId == (next + (CHOOSE k \in Free : \A j \in Free : k <= j)) % Wrap

(* gconfd is started by a program that needs it, and reads the log.  The    *)
(* uniqueness bits start at the process id: anywhere.                      *)
Start ==
  /\ pc = "down"
  /\ alive # {}
  /\ pc' = "restoring"
  /\ next' \in Ids
  /\ todo' = Logged
  /\ hand' = Nothing
  /\ exiting' = FALSE
  /\ listeners' = {} /\ table' = {} /\ attached' = {}
  /\ UNCHANGED <<cnxns, alive, excused>>
  /\ UNCHANGED files
  /\ UNCHANGED budget

(* restore_client: clients come first; one that is gone is left out.        *)
RestoreClient(c) ==
  /\ pc = "restoring"
  /\ <<c>> \in todo
  /\ todo' = todo \ {<<c>>}
  /\ IF c \in alive
     THEN table' = table \cup {c} /\ Append({<<c>>}, {}, {})
     ELSE UNCHANGED <<table, log, failures, excused>>
  /\ UNCHANGED <<pc, exiting, listeners, next, hand, tmp, orig, deaths>>
  /\ UNCHANGED programs

(* restore_listener, in three steps on the log and the program: the old     *)
(* entry is cancelled, ...                                                 *)
CancelEntry ==
  /\ pc = "restoring"
  /\ hand = Nothing
  /\ todo \cap {<<c>> : c \in Clients} = {}
  /\ \E e \in todo :
       /\ hand' = [entry |-> e, id |-> NoId]
       /\ todo' = todo \ {e}
       /\ Append({}, {e}, {})
  /\ UNCHANGED <<pc, exiting, listeners, table, next, tmp, orig, deaths>>
  /\ UNCHANGED programs

(* update_listener in the program: the connection found under the old id    *)
(* moves to the new one.  If another connection of it is still under that   *)
(* id, only one of them is found from then on.                             *)
UpdateListener(c, old, new) ==
  IF old \in {cnxns[c][n] : n \in Names}
  THEN \E n \in Names : cnxns[c][n] = old /\ cnxns' = [cnxns EXCEPT ![c][n] = new]
  ELSE UNCHANGED cnxns

(* ... the listener is added under a new id and the program is told, ...    *)
UpdateClient ==
  /\ pc = "restoring" /\ Free # {}
  /\ hand # Nothing
  /\ hand.id = NoId
  /\ LET c     == hand.entry[1]
         old   == hand.entry[2]
         meets == NewId # old /\ \E n \in Names : cnxns[c][n] = NewId
     IN /\ listeners' = listeners \cup {<<c, NewId>>}
        /\ IF c \in alive
           THEN /\ UpdateListener(c, old, NewId)
                /\ hand' = [hand EXCEPT !.id = NewId]
           ELSE /\ hand' = Nothing          \* the call fails: nothing is logged
                /\ UNCHANGED cnxns
        /\ excused' = excused \cup {cn \in Connections : meets /\ cn[1] = c}
  /\ next' = (NewId + 1) % Wrap
  /\ UNCHANGED <<pc, exiting, table, todo, alive, attached>>
  /\ UNCHANGED files
  /\ UNCHANGED budget

(* LogEntry with a bug in it: the line of the new id is not written.        *)
LogEntryUnwritten ==
  /\ pc = "restoring"
  /\ hand # Nothing
  /\ hand.id # NoId
  /\ hand' = Nothing
  /\ UNCHANGED <<pc, exiting, listeners, table, next, todo, log, tmp, orig, deaths, failures, excused>>
  /\ UNCHANGED programs

(* ... and the new entry is logged.                                         *)
LogEntry ==
  /\ pc = "restoring"
  /\ hand # Nothing
  /\ hand.id # NoId
  /\ LET e == <<hand.entry[1], hand.id>> IN Append({e}, {}, With({e}))
  /\ hand' = Nothing
  /\ UNCHANGED <<pc, exiting, listeners, table, next, todo, tmp, orig, deaths>>
  /\ UNCHANGED programs

Restored ==
  /\ pc = "restoring"
  /\ todo = {} /\ hand = Nothing
  /\ pc' = "up"
  /\ UNCHANGED <<exiting, listeners, table, next, todo, hand, excused>>
  /\ UNCHANGED files
  /\ UNCHANGED programs
  /\ UNCHANGED budget

-----------------------------------------------------------------------------
(* add_client: a program that got hold of this gconfd makes itself known.   *)
Attach(c) ==
  /\ pc = "up"
  /\ c \in alive \ attached
  /\ attached' = attached \cup {c}
  /\ table' = table \cup {c}
  /\ IF c \in table THEN UNCHANGED <<log, failures, excused>> ELSE Append({<<c>>}, {}, {})
  /\ UNCHANGED <<pc, exiting, listeners, next, todo, hand, tmp, orig, cnxns, alive, deaths>>

(* gconf_engine_notify_add and gconf_database_add_listener.  Of two         *)
(* connections under one id the program finds one.                         *)
AddListener(c, n) ==
  /\ pc = "up" /\ Free # {}
  /\ c \in attached
  /\ cnxns[c][n] = NoId
  /\ listeners' = listeners \cup {<<c, NewId>>}
  /\ cnxns' = [cnxns EXCEPT ![c][n] = NewId]
  /\ next' = (NewId + 1) % Wrap
  /\ LET met == {cn \in Connections : cn[1] = c /\ cnxns[c][cn[2]] = NewId}
     IN \/ /\ log' = Logged \cup {<<c, NewId>>}
           /\ excused' = excused \cup IF met = {} THEN {} ELSE met \cup {<<c, n>>}
           /\ UNCHANGED failures
        \/ /\ Failing
           /\ excused' = excused \cup met \cup {<<c, n>>}
           /\ UNCHANGED log
  /\ UNCHANGED <<pc, exiting, table, todo, hand, tmp, orig, alive, attached, deaths>>

(* RemoveListener with a bug in it: the removal is not logged.              *)
RemoveListenerUnlogged(c, n) ==
  /\ pc = "up"
  /\ c \in attached
  /\ cnxns[c][n] # NoId
  /\ LET met == {l \in listeners : l[2] = cnxns[c][n]}
     IN /\ listeners' = listeners \ met
        /\ cnxns' = [cnxns EXCEPT ![c][n] = NoId]
        /\ excused' = (excused \cup {cn \in Connections : <<cn[1], cnxns[cn[1]][cn[2]]>> \in met})
                      \ {<<c, n>>}
  /\ UNCHANGED <<pc, exiting, table, next, todo, hand, log, tmp, orig, alive, attached, deaths, failures>>

(* gconf_database_remove_listener goes by the id alone, which of a          *)
(* connection that was not restored is the id another gconfd gave it: then  *)
(* the listener it meets is removed.                                       *)
RemoveListener(c, n) ==
  /\ pc = "up"
  /\ c \in attached
  /\ cnxns[c][n] # NoId
  /\ LET met == {l \in listeners : l[2] = cnxns[c][n]}
     IN /\ listeners' = listeners \ met
        /\ cnxns' = [cnxns EXCEPT ![c][n] = NoId]
        /\ IF met = {} THEN UNCHANGED <<log, failures>>
           ELSE \/ log' = Logged \ met /\ UNCHANGED failures
                \/ Failing /\ UNCHANGED log
        /\ excused' = (excused \cup {cn \in Connections : <<cn[1], cnxns[cn[1]][cn[2]]>> \in met})
                      \ {<<c, n>>}
  /\ UNCHANGED <<pc, exiting, table, next, todo, hand, tmp, orig, alive, attached, deaths>>

(* gconf_database_notify_listeners drops a listener it cannot reach, and    *)
(* does not log that.                                                      *)
ForgetDead ==
  /\ pc = "up"
  /\ \E l \in listeners : l[1] \notin alive /\ listeners' = listeners \ {l}
  /\ UNCHANGED <<pc, exiting, table, next, todo, hand, excused>>
  /\ UNCHANGED files
  /\ UNCHANGED programs
  /\ UNCHANGED budget

ProgramEnds(c) ==
  /\ c \in alive
  /\ alive' = alive \ {c}
  /\ attached' = attached \ {c}
  /\ cnxns' = [cnxns EXCEPT ![c] = [n \in Names |-> NoId]]
  /\ excused' = {cn \in excused : cn[1] # c}
  /\ UNCHANGED gconfd
  /\ UNCHANGED files
  /\ UNCHANGED budget

-----------------------------------------------------------------------------
(* periodic_cleanup_timeout: programs that ended are dropped, their removal *)
(* is logged, and the state is saved; with nobody left gconfd exits, which  *)
(* saves it too.                                                           *)
Cleanup ==
  /\ pc = "up"
  /\ table' = table \cap alive
  /\ listeners' = {l \in listeners : l[1] \in alive}
  /\ Append({}, {<<c>> : c \in table \ alive}, {})
  /\ exiting' = (table' = {} /\ listeners' = {})
  /\ pc' = "saving"
  /\ UNCHANGED <<next, todo, hand, tmp, orig, deaths>>
  /\ UNCHANGED programs

Snapshot == {<<c>> : c \in table} \cup listeners

(* logfile_save goes back to the main loop, or is the last step of main().  *)
AfterSave == IF exiting THEN "down" ELSE "up"

(* The temporary file is written; a write that is cut short goes unnoticed. *)
WriteTmp ==
  /\ pc = "saving"
  /\ \/ tmp' = Snapshot /\ pc' = "written" /\ UNCHANGED failures
     \/ tmp' \in SUBSET Snapshot /\ pc' = "written" /\ Failing
     \/ UNCHANGED tmp /\ pc' = AfterSave /\ Failing
  /\ UNCHANGED <<exiting, listeners, table, next, todo, hand, log, orig, deaths, excused>>
  /\ UNCHANGED programs

(* The saved state is moved aside, if there is one, ...                     *)
MoveAside ==
  /\ pc = "written"
  /\ log # NoFile
  /\ \/ orig' = log /\ log' = NoFile /\ pc' = "aside" /\ UNCHANGED failures
     \/ UNCHANGED <<orig, log>> /\ pc' = AfterSave /\ Failing
  /\ UNCHANGED <<exiting, listeners, table, next, todo, hand, tmp, deaths, excused>>
  /\ UNCHANGED programs

(* ... and the new one takes its name; if that fails the old one comes back, *)
(* if it can.                                                              *)
MoveInto ==
  /\ pc = "aside" \/ (pc = "written" /\ log = NoFile)
  /\ pc' = AfterSave
  /\ \/ /\ log' = tmp
        /\ tmp' = NoFile
        /\ orig' = IF pc = "aside" THEN NoFile ELSE orig
        /\ excused' = (excused \ With(tmp)) \cup With(listeners \ tmp)
        /\ UNCHANGED failures
     \/ /\ Failing
        /\ UNCHANGED tmp
        /\ \/ /\ pc = "aside"
              /\ log' = orig /\ orig' = NoFile
              /\ UNCHANGED excused
           \/ /\ UNCHANGED <<log, orig>>
              /\ excused' = excused \cup With(listeners)
  /\ UNCHANGED <<exiting, listeners, table, next, todo, hand, deaths>>
  /\ UNCHANGED programs

-----------------------------------------------------------------------------
Ending ==
  /\ deaths < MaxDeaths
  /\ deaths' = deaths + 1
  /\ pc' = "down"
  /\ attached' = {}
  /\ UNCHANGED <<cnxns, alive, failures, tmp, orig>>
  /\ UNCHANGED <<exiting, listeners, table, next, todo, hand>>

(* gconfd is killed.  While the old file is aside none is in place, and an  *)
(* entry being restored is cancelled and not logged again.                 *)
Crash ==
  /\ pc # "down"
  /\ Ending
  /\ UNCHANGED log
  /\ excused' = excused \cup (IF pc = "aside" THEN With(listeners) ELSE {})
                         \cup (IF hand = Nothing THEN {}
                               ELSE With({hand.entry, <<hand.entry[1], hand.id>>}))

(* SIGTERM, a request to shut down, or the end of the session: the state is *)
(* removed.                                                                *)
CleanExit ==
  /\ pc = "up"
  /\ Ending
  /\ log' = NoFile
  /\ excused' = excused \cup Connections

Next ==
  \/ Start
  \/ \E c \in Clients : RestoreClient(c)
  \/ CancelEntry
  \/ UpdateClient
  \/ LogEntry
  \/ Restored
  \/ \E c \in Clients : Attach(c)
  \/ \E c \in Clients, n \in Names : AddListener(c, n)
  \/ \E c \in Clients, n \in Names : RemoveListener(c, n)
  \/ ForgetDead
  \/ \E c \in Clients : ProgramEnds(c)
  \/ Cleanup
  \/ WriteTmp
  \/ MoveAside
  \/ MoveInto
  \/ Crash
  \/ CleanExit

Spec == Init /\ [][Next]_vars

-----------------------------------------------------------------------------
TypeOK ==
  /\ pc \in {"down", "restoring", "up", "saving", "written", "aside"}
  /\ listeners \subseteq Clients \X Ids
  /\ table \subseteq Clients
  /\ next \in Ids
  /\ \A f \in {log, tmp, orig} : f = NoFile \/ f \subseteq Entries
  /\ todo \subseteq Entries
  /\ cnxns \in [Clients -> [Names -> Ids \cup {NoId}]]
  /\ excused \subseteq Connections

(* However often gconfd is killed, while it serves, saves or restores, the  *)
(* one that serves next has every connection of every running program under *)
(* the id the program knows, and the program finds it there.  Excused are:  *)
(* a kill while the file is aside, or on the entry that is being restored;  *)
(* a line or file that could not be written; an orderly shutdown, which     *)
(* removes the file; and a new id that meets one the program still holds    *)
(* (logfile_save, logfile_read, restore_listener).                         *)
ConnectionsSurvive ==
  pc \in {"up", "saving", "written", "aside"} =>
    Connections \ excused \subseteq With(listeners)

(* No listener that was removed comes back: unless writing failed, what the *)
(* file holds of running programs is what gconfd has                       *)
(* (gconf_database_remove_listener, parse_listener_entry).                 *)
NoneComesBack ==
  pc = "up" /\ failures = 0 =>
    {e \in Logged : e \in alive \X Ids} \subseteq listeners
=============================================================================
