--------------------------- MODULE Registrations ---------------------------
(***************************************************************************)
(* Who is told of changes: the connections (GConfCnxn) of the engines in    *)
(* the clients, gconf-dbus.c, and their registrations with the default      *)
(* database of gconfd, gconf-database-dbus.c, while gconfd is started, shut *)
(* down and killed and clients come to their end.                           *)
(*                                                                          *)
(* A client blocks in each call it makes; the signals of the bus wait in    *)
(* its inbox until its main loop runs again.  The default database has the  *)
(* same object path in every gconfd, so a client that missed a restart      *)
(* keeps calling the right object.                                          *)
(***************************************************************************)
EXTENDS Naturals, Sequences, FiniteSetsExt

CONSTANTS
    Client,
    Cnxn,         \* ids of connections; each client has its own
    Dir,          \* directories one can ask to be notified of
    DirOf,        \* the namespace_section of a connection
    MaxStarts,    \* bound: how often gconfd is started
    MaxLeft       \* bound: entries of a client when it drops its engine

ASSUME DirAssumption == DirOf \in [Cnxn -> Dir] /\ MaxStarts \in Nat /\ MaxLeft \in Nat

VARIABLES
    daemon,         \* "up" serves calls, "closing" has said Bye, "down"
    starts,         \* starts of gconfd so far
    notifications,  \* [d][c]: how often c is in the list of directory d
    listening,      \* nr_of_notifications of c; 0: c is not watched
    departures,     \* clients whose end the bus has yet to tell gconfd
    alive,          \* clients that have not ended
    serviceRunning, \* clients whose service_running is set
    needsReconnect, \* clients whose needs_reconnect is set
    attached,       \* clients whose engine knows its database
    cnxns,          \* [c]: the connections of c, by id and by directory
    inbox,          \* [c]: the bus's signals c has not dispatched
    task,           \* [c]: the calls left to make in what c is doing
    gaps            \* history: clients with connections left unregistered

service == <<daemon, starts>>
registry == <<notifications, listening, departures>>
engine == <<serviceRunning, needsReconnect, attached>>
vars == <<service, registry, alive, engine, cnxns, inbox, task, gaps>>

-----------------------------------------------------------------------------
(***************************************************************************)
(* What a client is doing: a call for the database's name (attach), calls   *)
(* that register connections again, then the call it was asked for (own).   *)
(***************************************************************************)
OwnCall == {<<>>, <<"read">>} \cup {"add", "remove"} \X Cnxn
Task == [attach : BOOLEAN, again : SUBSET Cnxn, own : OwnCall]
Idle == [attach |-> FALSE, again |-> {}, own |-> <<>>]

Free(c) == c \in alive /\ task[c] = Idle
Continue(c, t) == task' = [task EXCEPT ![c] = t]

On(c, d) == {x \in cnxns[c] : DirOf[x] = d}

Message == {"gone", "back", "bye"}

Tell(m) ==
    inbox' = [c \in Client |->
                 IF c \in alive THEN Append(inbox[c], m) ELSE inbox[c]]

NoRegistrations == [d \in Dir |-> [c \in Client |-> 0]]
NoWatches == [c \in Client |-> 0]

Init ==
    /\ daemon \in {"up", "down"}
    /\ starts = 0
    /\ notifications = NoRegistrations
    /\ listening = NoWatches
    /\ departures = {}
    /\ alive = Client
    /\ serviceRunning = {} /\ needsReconnect = {} /\ attached = {}
    /\ cnxns = [c \in Client |-> {}]
    /\ inbox = [c \in Client |-> <<>>]
    /\ task = [c \in Client |-> Idle]
    /\ gaps = {}

-----------------------------------------------------------------------------
(***************************************************************************)
(* What a re-registration leaves undone.  A connection that own removes is  *)
(* not added again, so its removal is taken from another's count.           *)
(***************************************************************************)
Filled(c) == {g \in gaps : g[1] # c}

TakesAnothers(mine, own) ==
    \E x \in Cnxn, y \in mine : own = <<"remove", x>> /\ DirOf[x] = DirOf[y]

(* Faulty variant: the names are asked for, the connections are not added. *)
ReinitializeNames(c, mine, own) ==
    /\ needsReconnect' = needsReconnect \ {c}
    /\ attached' = attached \ {c}
    /\ Continue(c, [attach |-> c \in attached, again |-> {}, own |-> own])
    /\ gaps' = IF c \in attached THEN Filled(c) ELSE gaps \cup {<<c, "failed">>}

(* Faulty variant: needs_reconnect stays set. *)
ReinitializeAlways(c, mine, own) ==
    /\ Continue(c, [attach |-> c \in attached,
                    again |-> IF c \in attached THEN mine ELSE {}, own |-> own])
    /\ attached' = attached \ {c}
    /\ UNCHANGED <<needsReconnect, gaps>>

(***************************************************************************)
(* reinitialize_databases, then own: an engine that knows its database      *)
(* forgets it, asks for it again and adds all its connections (mine) again. *)
(* One that does not know its database is not found by it.                  *)
(***************************************************************************)
Reinitialize(c, mine, own) ==
    /\ needsReconnect' = needsReconnect \ {c}
    /\ attached' = attached \ {c}
    /\ IF c \in attached
       THEN /\ Continue(c, [attach |-> TRUE, again |-> mine, own |-> own])
            /\ gaps' = IF TakesAnothers(mine, own)
                       THEN Filled(c) \cup {<<c, "removed">>} ELSE Filled(c)
       ELSE /\ Continue(c, [attach |-> FALSE, again |-> {}, own |-> own])
            /\ gaps' = IF \E x \in mine : own # <<"add", x>>
                       THEN gaps \cup {<<c, "failed">>} ELSE gaps

(***************************************************************************)
(* ensure_service, and ensure_database up to its call, in the request own.  *)
(* StartServiceByName returns when the name has an owner.                   *)
(***************************************************************************)
EnsureDatabase(c, mine, own) ==
    /\ c \in serviceRunning \/ daemon # "down"
    /\ serviceRunning' = serviceRunning \cup {c}
    /\ IF c \in needsReconnect
       THEN Reinitialize(c, mine, own)
       ELSE /\ Continue(c, [attach |-> FALSE, again |-> {}, own |-> own])
            /\ UNCHANGED <<needsReconnect, attached, gaps>>

(* Any request but the two below: it only makes sure of the database. *)
Request(c) ==
    /\ Free(c)
    /\ EnsureDatabase(c, cnxns[c], <<"read">>)
    /\ UNCHANGED <<service, registry, alive, cnxns, inbox>>

(* gconf_engine_notify_add: the connection is there before the call is made. *)
NotifyAdd(c, x) ==
    /\ Free(c)
    /\ x \notin cnxns[c]
    /\ cnxns' = [cnxns EXCEPT ![c] = @ \cup {x}]
    /\ EnsureDatabase(c, cnxns'[c], <<"add", x>>)
    /\ UNCHANGED <<service, registry, alive, inbox>>

(***************************************************************************)
(* gconf_engine_notify_remove: the connection is gone before the call is    *)
(* made, and if gconfd cannot be started no call is made.                   *)
(***************************************************************************)
NotifyRemove(c, x) ==
    /\ Free(c)
    /\ x \in cnxns[c]
    /\ cnxns' = [cnxns EXCEPT ![c] = @ \ {x}]
    /\ \/ EnsureDatabase(c, cnxns'[c], <<"remove", x>>)
       \/ /\ c \notin serviceRunning /\ daemon = "down"
          /\ UNCHANGED <<engine, task, gaps>>
    /\ UNCHANGED <<service, registry, alive, inbox>>

(***************************************************************************)
(* gconf_engine_unref, the last one: the connections go without a call to   *)
(* gconfd.  The next request is that of a new engine.                       *)
(***************************************************************************)
Unref(c) ==
    /\ Free(c)
    /\ listening[c] <= MaxLeft
    /\ cnxns' = [cnxns EXCEPT ![c] = {}]
    /\ attached' = attached \ {c}
    /\ UNCHANGED <<service, registry, alive, serviceRunning, needsReconnect,
                   inbox, task, gaps>>

(***************************************************************************)
(* gconf_dbus_message_filter, from the main loop, on the next signal.  At a *)
(* Bye the engine forgets its database; with connections it asks for it,    *)
(* and adds them, again.                                                    *)
(***************************************************************************)
Dispatch(c) ==
    /\ Free(c)
    /\ inbox[c] # <<>>
    /\ inbox' = [inbox EXCEPT ![c] = Tail(@)]
    /\ CASE Head(inbox[c]) = "gone" ->
              /\ serviceRunning' = serviceRunning \ {c}
              /\ needsReconnect' = needsReconnect \cup {c}
              /\ UNCHANGED <<attached, task, gaps>>
         [] Head(inbox[c]) = "back" ->
              /\ serviceRunning' = serviceRunning \cup {c}
              /\ IF c \in needsReconnect
                 THEN Reinitialize(c, cnxns[c], <<>>)
                 ELSE UNCHANGED <<needsReconnect, attached, task, gaps>>
         [] Head(inbox[c]) = "bye" ->
              /\ attached' = attached \ {c}
              /\ IF c \in attached
                 THEN /\ Continue(c, [Idle EXCEPT !.again = cnxns[c]])
                      /\ gaps' = Filled(c)
                 ELSE UNCHANGED <<task, gaps>>
              /\ UNCHANGED <<serviceRunning, needsReconnect>>
    /\ UNCHANGED <<service, registry, alive, cnxns>>

-----------------------------------------------------------------------------
(* The calls of a task, one after the other, while gconfd serves them. *)

(* GetDefaultDatabase; made whenever the engine does not know its database. *)
GetDatabase(c) ==
    /\ daemon = "up"
    /\ task[c] # Idle /\ c \notin attached
    /\ attached' = attached \cup {c}
    /\ Continue(c, [task[c] EXCEPT !.attach = FALSE])
    /\ UNCHANGED <<service, registry, alive, serviceRunning, needsReconnect,
                   cnxns, inbox, gaps>>

Serves(c) == daemon = "up" /\ c \in attached /\ task[c] # Idle

(* database_handle_add_notify *)
Register(c, x) ==
    /\ listening' = [listening EXCEPT ![c] = @ + 1]
    /\ notifications' = [notifications EXCEPT ![DirOf[x]][c] = @ + 1]
    /\ UNCHANGED departures

AddAgain(c, x) ==
    /\ Serves(c)
    /\ x \in task[c].again
    /\ Register(c, x)
    /\ Continue(c, [task[c] EXCEPT !.again = @ \ {x}])
    /\ UNCHANGED <<service, alive, engine, cnxns, inbox, gaps>>

Own(c, own) == Serves(c) /\ task[c].again = {} /\ task[c].own = own

AddOwn(c, x) ==
    /\ Own(c, <<"add", x>>)
    /\ Register(c, x)
    /\ Continue(c, Idle)
    /\ UNCHANGED <<service, alive, engine, cnxns, inbox, gaps>>

(* Faulty variant: the count of a client is taken for granted. *)
LessUnchecked(n) == n - 1

Less(n) == IF n = 0 THEN 0 ELSE n - 1

(* Faulty variant: the count of the client is left alone. *)
RemoveOwnUncounted(c, x) ==
    /\ Own(c, <<"remove", x>>)
    /\ notifications' = [notifications EXCEPT ![DirOf[x]][c] = Less(@)]
    /\ Continue(c, Idle)
    /\ UNCHANGED <<service, listening, departures, alive, engine, cnxns, inbox, gaps>>

(***************************************************************************)
(* database_handle_remove_notify: the count of the client is lowered before *)
(* the directory's list is looked at.                                       *)
(***************************************************************************)
RemoveOwn(c, x) ==
    /\ Own(c, <<"remove", x>>)
    /\ listening' = [listening EXCEPT ![c] = Less(@)]
    /\ notifications' = [notifications EXCEPT ![DirOf[x]][c] = Less(@)]
    /\ Continue(c, Idle)
    /\ UNCHANGED <<service, departures, alive, engine, cnxns, inbox, gaps>>

ReadOwn(c) ==
    /\ Own(c, <<"read">>)
    /\ Continue(c, Idle)
    /\ UNCHANGED <<service, registry, alive, engine, cnxns, inbox, gaps>>

(* Faulty variant: a connection that cannot be added again is tried again. *)
CallFailsRetrying(c) ==
    /\ daemon # "up"
    /\ task[c] # Idle
    /\ LET t == task[c] IN
       \/ t.attach /\ Continue(c, [t EXCEPT !.attach = FALSE]) /\ UNCHANGED cnxns
       \/ t.again # {} /\ UNCHANGED <<cnxns, task>>
       \/ /\ ~t.attach /\ t.again = {}
          /\ cnxns' = [cnxns EXCEPT
                          ![c] = {x \in @ : t.own # <<"add", x>>}]
          /\ Continue(c, Idle)
    /\ UNCHANGED <<service, registry, alive, engine, inbox, gaps>>

(***************************************************************************)
(* A call that gets an error: gconfd is closing or went away before it      *)
(* answered, or cannot be activated.  A connection that cannot be added is  *)
(* taken back, one that cannot be added again is left as it is.             *)
(***************************************************************************)
CallFails(c) ==
    /\ daemon # "up"
    /\ task[c] # Idle
    /\ LET t == task[c] IN
       \/ /\ t.attach
          /\ Continue(c, [t EXCEPT !.attach = FALSE])
          /\ UNCHANGED <<cnxns, gaps>>
       \/ /\ ~t.attach
          /\ \E x \in t.again : Continue(c, [t EXCEPT !.again = @ \ {x}])
          /\ gaps' = gaps \cup {<<c, "failed">>}
          /\ UNCHANGED cnxns
       \/ /\ ~t.attach /\ t.again = {}
          /\ cnxns' = [cnxns EXCEPT
                          ![c] = {x \in @ : t.own # <<"add", x>>}]
          /\ Continue(c, Idle)
          /\ UNCHANGED gaps
    /\ UNCHANGED <<service, registry, alive, engine, inbox>>

-----------------------------------------------------------------------------
(***************************************************************************)
(* gconfd gets its name: by a client's StartServiceByName, by a call sent   *)
(* to the name while nobody owns it, or by another program's.               *)
(***************************************************************************)
Activate ==
    /\ daemon = "down"
    /\ starts < MaxStarts
    /\ daemon' = "up"
    /\ starts' = starts + 1
    /\ Tell("back")
    /\ UNCHANGED <<registry, alive, engine, cnxns, task, gaps>>

(***************************************************************************)
(* Shutdown or SIGTERM: gconf_main returns, no request is handled any more, *)
(* and shutdown_databases tears the database down, which says Bye.          *)
(***************************************************************************)
Shutdown ==
    /\ daemon = "up"
    /\ daemon' = "closing"
    /\ notifications' = NoRegistrations
    /\ listening' = NoWatches
    /\ departures' = {}
    /\ Tell("bye")
    /\ UNCHANGED <<starts, alive, engine, cnxns, task, gaps>>

(* The process ends, after a shutdown or by a crash, and with it the calls   *)
(* sent to it.                                                              *)
Exit ==
    /\ daemon # "down"
    /\ daemon' = "down"
    /\ notifications' = NoRegistrations
    /\ listening' = NoWatches
    /\ departures' = {}
    /\ Tell("gone")
    /\ task' = [c \in Client |-> IF c \in alive THEN task[c] ELSE Idle]
    /\ UNCHANGED <<starts, alive, engine, cnxns, gaps>>

(***************************************************************************)
(* A client ends, perhaps with a call on its way, which gconfd will still   *)
(* handle.  gconfd is told only if it watches the client at this moment.    *)
(***************************************************************************)
OnTheWay(t) ==
    {[Idle EXCEPT !.own = <<"add", x>>] : x \in t.again}
    \cup (IF t.again = {} THEN {[Idle EXCEPT !.own = t.own]} ELSE {})

Die(c) ==
    /\ c \in alive
    /\ alive' = alive \ {c}
    /\ departures' = IF listening[c] > 0 THEN departures \cup {c} ELSE departures
    /\ \/ Continue(c, Idle)
       \/ Serves(c) /\ \E t \in OnTheWay(task[c]) : Continue(c, t)
    /\ cnxns' = [cnxns EXCEPT ![c] = {}]
    /\ inbox' = [inbox EXCEPT ![c] = <<>>]
    /\ UNCHANGED <<service, notifications, listening, engine, gaps>>

(* Faulty variant: the client stays in listening_clients. *)
HandleDepartureListening(c) ==
    /\ daemon = "up"
    /\ c \in departures
    /\ task[c] = Idle
    /\ departures' = departures \ {c}
    /\ notifications' = [d \in Dir |-> [notifications[d] EXCEPT ![c] = Less(@)]]
    /\ UNCHANGED <<service, listening, alive, engine, cnxns, inbox, task, gaps>>

(***************************************************************************)
(* database_handle_name_owner_changed: once in each directory's list, then  *)
(* the client as a whole.  What the client sent came before.                *)
(***************************************************************************)
HandleDeparture(c) ==
    /\ daemon = "up"
    /\ c \in departures
    /\ task[c] = Idle
    /\ departures' = departures \ {c}
    /\ notifications' = [d \in Dir |-> [notifications[d] EXCEPT ![c] = Less(@)]]
    /\ listening' = [listening EXCEPT ![c] = 0]
    /\ UNCHANGED <<service, alive, engine, cnxns, inbox, task, gaps>>

Step(c) ==
    \/ Request(c) \/ Unref(c) \/ Dispatch(c) \/ Die(c) \/ HandleDeparture(c)
    \/ GetDatabase(c) \/ ReadOwn(c) \/ CallFails(c)
    \/ \E x \in Cnxn : \/ NotifyAdd(c, x) \/ NotifyRemove(c, x)
                       \/ AddAgain(c, x) \/ AddOwn(c, x) \/ RemoveOwn(c, x)

Next == Activate \/ Shutdown \/ Exit \/ \E c \in Client : Step(c)

(***************************************************************************)
(* gconfd answers what it is sent, the bus reports what it cannot deliver,  *)
(* a closing gconfd ends, and a client returns to its main loop.            *)
(***************************************************************************)
Advance(c) ==
    \/ GetDatabase(c) \/ ReadOwn(c) \/ CallFails(c)
    \/ \E x \in Cnxn : AddAgain(c, x) \/ AddOwn(c, x) \/ RemoveOwn(c, x)

Fairness == \A c \in Client : WF_vars(Advance(c)) /\ WF_vars(Dispatch(c))

Spec == Init /\ [][Next]_vars /\ Fairness

-----------------------------------------------------------------------------
TypeOK ==
    /\ daemon \in {"up", "closing", "down"} /\ starts \in 0 .. MaxStarts
    /\ notifications \in [Dir -> [Client -> Nat]]
    /\ listening \in [Client -> Nat]
    /\ departures \subseteq Client \ alive
    /\ alive \subseteq Client
    /\ serviceRunning \subseteq Client /\ needsReconnect \subseteq Client
    /\ attached \subseteq Client /\ gaps \subseteq Client \X {"failed", "removed"}
    /\ cnxns \in [Client -> SUBSET Cnxn]
    /\ inbox \in [Client -> Seq(Message)]
    /\ task \in [Client -> Task]

(* A client that is waiting for nothing, with a gconfd that is running. *)
Settled(c) == Free(c) /\ inbox[c] = <<>> /\ daemon = "up"

Registered(c) ==
    \A d \in Dir : notifications[d][c] >= Cardinality(On(c, d))

(***************************************************************************)
(* Every connection of a settled client is registered: whatever restarts of *)
(* gconfd it met in between, its directory lists it at least once for each  *)
(* connection.  Two gaps are known: a connection could not be registered    *)
(* again, or a removal took the registration of another.                    *)
(***************************************************************************)
Covered ==
    \A c \in Client : Settled(c) =>
        Registered(c) \/ <<c, "failed">> \in gaps \/ <<c, "removed">> \in gaps

(* The entries of c in the lists of all the directories. *)
EntriesOf(c) == UNION {{d} \X (1 .. notifications[d][c]) : d \in Dir}

(***************************************************************************)
(* A client is not watched without a registration: nr_of_notifications is   *)
(* never more than the client has entries in the directories' lists.        *)
(***************************************************************************)
WatchedForSomething ==
    \A c \in Client : listening[c] <= Cardinality(EntriesOf(c))

(***************************************************************************)
(* gconfd gets to know of the end of each client it watches, except that a  *)
(* single registration may come too late for the watch.                     *)
(***************************************************************************)
EndsAreReported ==
    \A c \in Client \ alive : listening[c] > 1 => c \in departures

(***************************************************************************)
(* A client that knows gconfd went away is still to hear of its return when *)
(* there is one; and when it hears a Bye, it knows of that gconfd's start.  *)
(***************************************************************************)
SignalsAreInStep ==
    \A c \in alive :
        /\ c \in needsReconnect /\ daemon # "down" =>
               \E i \in DOMAIN inbox[c] : inbox[c][i] = "back"
        /\ inbox[c] # <<>> /\ Head(inbox[c]) = "bye" /\ Free(c) /\ c \in attached =>
               c \in serviceRunning \ needsReconnect

(* Every request of a client and every re-registration comes to its end. *)
TasksEnd == \A c \in Client : task[c] # Idle ~> task[c] = Idle

(* A client that knows gconfd went away asks a gconfd that stays up again. *)
ReturnsAreSeen ==
    \A c \in Client : c \in needsReconnect /\ daemon = "up" ~>
                          c \notin needsReconnect \/ daemon # "up" \/ c \notin alive

(***************************************************************************)
(* gconf-dbus.c:502, "Re-connect notifications and re-get database names    *)
(* from the previous (if any) instance of the GConf service": after a       *)
(* restart the connections are registered again.                            *)
(***************************************************************************)
Reconnected ==
    \A c \in Client : Settled(c) => Registered(c) \/ <<c, "removed">> \in gaps
=============================================================================
