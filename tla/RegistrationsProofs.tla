------------------------- MODULE RegistrationsProofs -------------------------
(***************************************************************************)
(* Proofs about the registrations of clients, for any number of clients,    *)
(* connections and directories and any number of starts of gconfd.          *)
(***************************************************************************)
EXTENDS Registrations, SequenceTheorems, FiniteSetTheorems, TLAPS

USE DirAssumption

-----------------------------------------------------------------------------
(* A task is put in the place of another, and a client's signals move on. *)
LEMMA TaskType ==
  /\ Idle \in Task
  /\ \A t \in Task :
        /\ t.again \subseteq Cnxn
        /\ [t EXCEPT !.attach = FALSE] \in Task
        /\ \A x : [t EXCEPT !.again = @ \ {x}] \in Task
        /\ OnTheWay(t) \subseteq Task
  /\ \A a \in BOOLEAN, again \in SUBSET Cnxn, own \in OwnCall :
        [attach |-> a, again |-> again, own |-> own] \in Task
  /\ \A again \in SUBSET Cnxn : [Idle EXCEPT !.again = again] \in Task
  /\ <<"read">> \in OwnCall /\ <<>> \in OwnCall
  /\ \A x \in Cnxn : <<"add", x>> \in OwnCall /\ <<"remove", x>> \in OwnCall
<1>1. /\ <<>> \in OwnCall /\ <<"read">> \in OwnCall
      /\ \A x \in Cnxn : <<"add", x>> \in OwnCall /\ <<"remove", x>> \in OwnCall
  BY DEF OwnCall
<1>2. \A a \in BOOLEAN, again \in SUBSET Cnxn, own \in OwnCall :
        [attach |-> a, again |-> again, own |-> own] \in Task
  BY DEF Task
<1>3. Idle = [attach |-> FALSE, again |-> {}, own |-> <<>>]
  BY DEF Idle
<1>4. \A again \in SUBSET Cnxn : [Idle EXCEPT !.again = again] \in Task
  BY <1>1, <1>3 DEF Task
<1>5. \A own \in OwnCall : [Idle EXCEPT !.own = own] \in Task
  BY <1>1, <1>3 DEF Task
<1>6. ASSUME NEW t \in Task
      PROVE  /\ t.again \subseteq Cnxn
             /\ [t EXCEPT !.attach = FALSE] \in Task
             /\ \A x : [t EXCEPT !.again = @ \ {x}] \in Task
             /\ OnTheWay(t) \subseteq Task
  <2>1. t.again \subseteq Cnxn /\ t.own \in OwnCall
    BY DEF Task
  <2>2. [t EXCEPT !.attach = FALSE] \in Task
    BY DEF Task
  <2>3. \A x : [t EXCEPT !.again = @ \ {x}] \in Task
    BY DEF Task
  <2>4. OnTheWay(t) \subseteq Task
    BY <1>1, <1>5, <2>1 DEF OnTheWay
  <2> QED
    BY <2>1, <2>2, <2>3, <2>4
<1> QED
  BY <1>1, <1>2, <1>3, <1>4, <1>6

EngineType ==
    /\ serviceRunning \subseteq Client /\ needsReconnect \subseteq Client
    /\ attached \subseteq Client
    /\ gaps \subseteq Client \X {"failed", "removed"}
    /\ task \in [Client -> Task]

LEMMA ContinueType ==
  ASSUME TypeOK, NEW c \in Client, NEW t \in Task, Continue(c, t)
  PROVE  task' \in [Client -> Task] /\ task'[c] = t
BY DEF TypeOK, Continue

LEMMA ReinitializeType ==
  ASSUME TypeOK, NEW c \in Client, NEW mine \in SUBSET Cnxn, NEW own \in OwnCall,
         Reinitialize(c, mine, own), serviceRunning' \subseteq Client
  PROVE  EngineType'
<1>1. task' \in [Client -> Task]
  <2>1. PICK t \in Task : Continue(c, t)
    BY TaskType DEF Reinitialize
  <2> QED
    BY <2>1, ContinueType
<1>2. gaps' \subseteq Client \X {"failed", "removed"}
  <2>1. gaps' \subseteq gaps \cup {<<c, "failed">>, <<c, "removed">>}
    BY DEF Reinitialize, Filled
  <2> QED
    BY <2>1 DEF TypeOK
<1>3. needsReconnect' \subseteq Client /\ attached' \subseteq Client
  BY DEF Reinitialize, TypeOK
<1> QED
  BY <1>1, <1>2, <1>3 DEF EngineType

LEMMA EnsureDatabaseType ==
  ASSUME TypeOK, NEW c \in Client, NEW mine \in SUBSET Cnxn, NEW own \in OwnCall,
         EnsureDatabase(c, mine, own)
  PROVE  EngineType'
<1>1. serviceRunning' \subseteq Client
  BY DEF EnsureDatabase, TypeOK
<1>2. CASE c \in needsReconnect
  BY <1>1, <1>2, ReinitializeType DEF EnsureDatabase
<1>3. CASE c \notin needsReconnect
  <2>1. PICK t \in Task : Continue(c, t)
    BY <1>3, TaskType DEF EnsureDatabase
  <2>2. task' \in [Client -> Task]
    BY <2>1, ContinueType
  <2>3. UNCHANGED <<needsReconnect, attached, gaps>>
    BY <1>3 DEF EnsureDatabase
  <2> QED
    BY <1>1, <2>2, <2>3 DEF TypeOK, EngineType
<1> QED
  BY <1>2, <1>3

LEMMA TellType ==
  ASSUME TypeOK, NEW m \in Message, Tell(m)
  PROVE  inbox' \in [Client -> Seq(Message)]
<1>1. \A c \in Client : inbox[c] \in Seq(Message) /\ Append(inbox[c], m) \in Seq(Message)
  BY DEF TypeOK
<1> QED
  BY <1>1 DEF Tell

(* What is left of TypeOK beside the engines and their tasks. *)
RestType ==
    /\ daemon \in {"up", "closing", "down"} /\ starts \in 0 .. MaxStarts
    /\ notifications \in [Dir -> [Client -> Nat]]
    /\ listening \in [Client -> Nat]
    /\ departures \subseteq Client \ alive
    /\ alive \subseteq Client
    /\ cnxns \in [Client -> SUBSET Cnxn]
    /\ inbox \in [Client -> Seq(Message)]

LEMMA TypeParts == TypeOK <=> EngineType /\ RestType
BY DEF TypeOK, EngineType, RestType

LEMMA LessType ==
  ASSUME NEW n \in Nat
  PROVE  Less(n) \in Nat /\ Less(n) <= n
BY DEF Less

LEMMA RegisterType ==
  ASSUME TypeOK, NEW c \in Client, NEW x \in Cnxn, Register(c, x)
  PROVE  /\ notifications' \in [Dir -> [Client -> Nat]]
         /\ listening' \in [Client -> Nat]
         /\ listening' = [listening EXCEPT ![c] = listening[c] + 1]
         /\ UNCHANGED departures
<1>1. DirOf[x] \in Dir /\ notifications[DirOf[x]][c] \in Nat
  BY DEF TypeOK
<1>2. [notifications[DirOf[x]] EXCEPT ![c] = @ + 1] \in [Client -> Nat]
  BY <1>1 DEF TypeOK
<1>3. notifications' \in [Dir -> [Client -> Nat]]
  BY <1>1, <1>2 DEF TypeOK, Register
<1> QED
  BY <1>3 DEF TypeOK, Register

(* The actions of clients, one by one. *)
LEMMA RequestType ==
  ASSUME TypeOK, NEW c \in Client, Request(c)
  PROVE  TypeOK'
<1>1. cnxns[c] \in SUBSET Cnxn
  BY DEF TypeOK
<1>2. EngineType'
  BY <1>1, TaskType, EnsureDatabaseType DEF Request
<1>3. RestType'
  BY DEF Request, service, registry, RestType, TypeOK
<1> QED
  BY <1>2, <1>3 DEF TypeOK, EngineType, RestType

LEMMA NotifyAddType ==
  ASSUME TypeOK, NEW c \in Client, NEW x \in Cnxn, NotifyAdd(c, x)
  PROVE  TypeOK'
<1>1. cnxns' \in [Client -> SUBSET Cnxn] /\ cnxns'[c] \in SUBSET Cnxn
  BY DEF TypeOK, NotifyAdd
<1>2. <<"add", x>> \in OwnCall
  BY TaskType
<1>3. EngineType'
  BY <1>1, <1>2, EnsureDatabaseType DEF NotifyAdd
<1>4. RestType'
  BY <1>1 DEF NotifyAdd, service, registry, RestType, TypeOK
<1> QED
  BY <1>3, <1>4 DEF TypeOK, EngineType, RestType

LEMMA NotifyRemoveType ==
  ASSUME TypeOK, NEW c \in Client, NEW x \in Cnxn, NotifyRemove(c, x)
  PROVE  TypeOK'
<1>1. cnxns' \in [Client -> SUBSET Cnxn] /\ cnxns'[c] \in SUBSET Cnxn
  BY DEF TypeOK, NotifyRemove
<1>2. <<"remove", x>> \in OwnCall
  BY TaskType
<1>3. EngineType'
  <2>1. CASE EnsureDatabase(c, cnxns'[c], <<"remove", x>>)
    BY <1>1, <1>2, <2>1, EnsureDatabaseType
  <2>2. CASE UNCHANGED <<engine, task, gaps>>
    BY <2>2 DEF engine, EngineType, TypeOK
  <2> QED
    BY <2>1, <2>2 DEF NotifyRemove
<1>4. RestType'
  BY <1>1 DEF NotifyRemove, service, registry, RestType, TypeOK
<1> QED
  BY <1>3, <1>4 DEF TypeOK, EngineType, RestType

LEMMA DispatchType ==
  ASSUME TypeOK, NEW c \in Client, Dispatch(c)
  PROVE  TypeOK'
<1>1. inbox[c] \in Seq(Message) /\ inbox[c] # <<>>
  BY DEF TypeOK, Dispatch
<1>2. inbox' \in [Client -> Seq(Message)]
  BY <1>1 DEF TypeOK, Dispatch
<1>3. RestType'
  BY <1>2 DEF Dispatch, service, registry, RestType, TypeOK
<1>4. Head(inbox[c]) \in {"gone", "back", "bye"}
  BY <1>1 DEF Message
<1>5. EngineType'
  <2>1. CASE Head(inbox[c]) = "gone"
    BY <2>1 DEF Dispatch, EngineType, TypeOK
  <2>2. CASE Head(inbox[c]) = "back"
    <3>1. serviceRunning' \subseteq Client
      BY <2>2 DEF Dispatch, TypeOK
    <3>2. CASE c \in needsReconnect
      <4>1. Reinitialize(c, cnxns[c], <<>>)
        BY <2>2, <3>2 DEF Dispatch
      <4>2. cnxns[c] \in SUBSET Cnxn
        BY DEF TypeOK
      <4> QED
        BY <3>1, <4>1, <4>2, TaskType, ReinitializeType
    <3>3. CASE c \notin needsReconnect
      BY <2>2, <3>1, <3>3 DEF Dispatch, EngineType, TypeOK
    <3> QED
      BY <3>2, <3>3
  <2>3. CASE Head(inbox[c]) = "bye"
    <3>1. UNCHANGED <<serviceRunning, needsReconnect>> /\ attached' \subseteq Client
      BY <2>3 DEF Dispatch, TypeOK
    <3>2. CASE c \in attached
      <4>1. Continue(c, [Idle EXCEPT !.again = cnxns[c]]) /\ gaps' = Filled(c)
        BY <2>3, <3>2 DEF Dispatch
      <4>2. [Idle EXCEPT !.again = cnxns[c]] \in Task
        BY TaskType DEF TypeOK
      <4>3. task' \in [Client -> Task]
        BY <4>1, <4>2, ContinueType
      <4> QED
        BY <3>1, <4>1, <4>3 DEF EngineType, TypeOK, Filled
    <3>3. CASE c \notin attached
      BY <2>3, <3>1, <3>3 DEF Dispatch, EngineType, TypeOK
    <3> QED
      BY <3>2, <3>3
  <2> QED
    BY <1>4, <2>1, <2>2, <2>3
<1> QED
  BY <1>3, <1>5 DEF TypeOK, EngineType, RestType

LEMMA GetDatabaseType ==
  ASSUME TypeOK, NEW c \in Client, GetDatabase(c)
  PROVE  TypeOK'
<1>1. task' \in [Client -> Task]
  <2>1. task[c] \in Task
    BY DEF TypeOK
  <2> QED
    BY <2>1, TaskType, ContinueType DEF GetDatabase
<1>2. EngineType'
  BY <1>1 DEF GetDatabase, EngineType, TypeOK
<1>3. RestType'
  BY DEF GetDatabase, service, registry, RestType, TypeOK
<1> QED
  BY <1>2, <1>3 DEF TypeOK, EngineType, RestType

LEMMA AddType ==
  ASSUME TypeOK, NEW c \in Client, NEW x \in Cnxn, AddAgain(c, x) \/ AddOwn(c, x)
  PROVE  TypeOK'
<1>1. Register(c, x) /\ UNCHANGED <<service, alive, engine, cnxns, inbox, gaps>>
  BY DEF AddAgain, AddOwn
<1>2. PICK t \in Task : Continue(c, t)
  <2>1. task[c] \in Task
    BY DEF TypeOK
  <2> QED
    BY <2>1, TaskType DEF AddAgain, AddOwn
<1>3. EngineType'
  BY <1>1, <1>2, ContinueType DEF engine, EngineType, TypeOK
<1>4. RestType'
  BY <1>1, RegisterType DEF service, RestType, TypeOK
<1> QED
  BY <1>3, <1>4 DEF TypeOK, EngineType, RestType

LEMMA RemoveOwnType ==
  ASSUME TypeOK, NEW c \in Client, NEW x \in Cnxn, RemoveOwn(c, x)
  PROVE  TypeOK'
<1>1. listening[c] \in Nat /\ notifications[DirOf[x]][c] \in Nat /\ DirOf[x] \in Dir
  BY DEF TypeOK
<1>2. listening' \in [Client -> Nat]
  BY <1>1, LessType DEF RemoveOwn, TypeOK
<1>3. notifications' \in [Dir -> [Client -> Nat]]
  <2>1. Less(notifications[DirOf[x]][c]) \in Nat
    BY <1>1, LessType
  <2>2. [notifications[DirOf[x]] EXCEPT ![c] = Less(@)] \in [Client -> Nat]
    BY <1>1, <2>1 DEF TypeOK
  <2> QED
    BY <1>1, <2>2 DEF RemoveOwn, TypeOK
<1>4. task' \in [Client -> Task]
  BY TaskType, ContinueType DEF RemoveOwn
<1>5. EngineType' /\ RestType'
  BY <1>2, <1>3, <1>4 DEF RemoveOwn, service, engine, EngineType, RestType, TypeOK
<1> QED
  BY <1>5 DEF TypeOK, EngineType, RestType

LEMMA CallFailsType ==
  ASSUME TypeOK, NEW c \in Client, CallFails(c)
  PROVE  TypeOK'
<1>1. task[c] \in Task
  BY DEF TypeOK
<1>2. PICK t \in Task : Continue(c, t)
  BY <1>1, TaskType DEF CallFails
<1>3. gaps' \subseteq Client \X {"failed", "removed"}
  <2>1. gaps' \subseteq gaps \cup {<<c, "failed">>}
    BY DEF CallFails
  <2> QED
    BY <2>1 DEF TypeOK
<1>4. cnxns' \in [Client -> SUBSET Cnxn]
  <2>1. CASE UNCHANGED cnxns
    BY <2>1 DEF TypeOK
  <2>2. CASE cnxns' = [cnxns EXCEPT ![c] = {x \in @ : task[c].own # <<"add", x>>}]
    BY <2>2 DEF TypeOK
  <2> QED
    BY <2>1, <2>2 DEF CallFails
<1>5. EngineType' /\ RestType'
  BY <1>2, <1>3, <1>4, ContinueType
     DEF CallFails, service, registry, engine, EngineType, RestType, TypeOK
<1> QED
  BY <1>5 DEF TypeOK, EngineType, RestType

LEMMA DieType ==
  ASSUME TypeOK, NEW c \in Client, Die(c)
  PROVE  TypeOK'
<1>1. task[c] \in Task
  BY DEF TypeOK
<1>2. PICK t \in Task : Continue(c, t)
  <2>1. OnTheWay(task[c]) \subseteq Task /\ Idle \in Task
    BY <1>1, TaskType
  <2> QED
    BY <2>1 DEF Die
<1>3. EngineType'
  BY <1>2, ContinueType DEF Die, engine, EngineType, TypeOK
<1>4. departures' \subseteq Client \ alive'
  BY DEF Die, TypeOK
<1>5. inbox' \in [Client -> Seq(Message)]
  BY DEF Die, TypeOK
<1>6. RestType'
  BY <1>4, <1>5 DEF Die, service, RestType, TypeOK
<1> QED
  BY <1>3, <1>6 DEF TypeOK, EngineType, RestType

LEMMA HandleDepartureType ==
  ASSUME TypeOK, NEW c \in Client, HandleDeparture(c)
  PROVE  TypeOK'
<1>1. notifications' \in [Dir -> [Client -> Nat]]
  <2>1. ASSUME NEW d \in Dir
        PROVE  [notifications[d] EXCEPT ![c] = Less(@)] \in [Client -> Nat]
    BY LessType DEF TypeOK
  <2> QED
    BY <2>1 DEF HandleDeparture
<1>2. listening' \in [Client -> Nat]
  BY DEF HandleDeparture, TypeOK
<1> QED
  BY <1>1, <1>2 DEF HandleDeparture, service, engine, TypeOK

LEMMA DaemonType ==
  ASSUME TypeOK, Activate \/ Shutdown \/ Exit
  PROVE  TypeOK'
<1>1. inbox' \in [Client -> Seq(Message)]
  BY TellType DEF Activate, Shutdown, Exit, Message
<1>2. /\ notifications' \in [Dir -> [Client -> Nat]] /\ listening' \in [Client -> Nat]
      /\ departures' \subseteq Client \ alive /\ UNCHANGED alive
  BY DEF Activate, Shutdown, Exit, NoRegistrations, NoWatches, registry, TypeOK
<1>3. task' \in [Client -> Task]
  BY TaskType DEF Activate, Shutdown, Exit, TypeOK
<1>4. /\ daemon' \in {"up", "closing", "down"} /\ starts' \in 0 .. MaxStarts
      /\ UNCHANGED <<engine, cnxns, gaps>>
  BY DEF Activate, Shutdown, Exit, TypeOK
<1> QED
  BY <1>1, <1>2, <1>3, <1>4 DEF engine, TypeOK

LEMMA NextType ==
  ASSUME TypeOK, [Next]_vars
  PROVE  TypeOK'
<1>1. CASE UNCHANGED vars
  BY <1>1 DEF vars, service, registry, engine, TypeOK
<1>2. CASE Activate \/ Shutdown \/ Exit
  BY <1>2, DaemonType
<1>3. ASSUME NEW c \in Client, Step(c) PROVE TypeOK'
  <2>1. CASE Request(c) \/ Dispatch(c) \/ Die(c) \/ HandleDeparture(c)
    BY <2>1, RequestType, DispatchType, DieType, HandleDepartureType
  <2>2. CASE GetDatabase(c) \/ CallFails(c)
    BY <2>2, GetDatabaseType, CallFailsType
  <2>3. CASE Unref(c)
    BY <2>3 DEF Unref, service, registry, TypeOK
  <2>4. CASE ReadOwn(c)
    <3>1. task' \in [Client -> Task]
      BY <2>4, TaskType, ContinueType DEF ReadOwn
    <3> QED
      BY <2>4, <3>1 DEF ReadOwn, service, registry, engine, TypeOK
  <2>5. ASSUME NEW x \in Cnxn,
               \/ NotifyAdd(c, x) \/ NotifyRemove(c, x)
               \/ AddAgain(c, x) \/ AddOwn(c, x) \/ RemoveOwn(c, x)
        PROVE  TypeOK'
    BY <2>5, NotifyAddType, NotifyRemoveType, AddType, RemoveOwnType
  <2> QED
    BY <1>3, <2>1, <2>2, <2>3, <2>4, <2>5 DEF Step
<1> QED
  BY <1>1, <1>2, <1>3 DEF Next

(***************************************************************************)
(* The variables keep their shape: in particular no count of gconfd falls   *)
(* below zero, and gconfd is told of the end of clients only that ended.    *)
(***************************************************************************)
THEOREM TypeCorrect == Spec => []TypeOK
<1>1. Init => TypeOK
  BY TaskType DEF Init, NoRegistrations, NoWatches, TypeOK
<1> QED
  BY <1>1, NextType, PTL DEF Spec

-----------------------------------------------------------------------------
(***************************************************************************)
(* A step of one client leaves the others, and gconfd's word on them, as    *)
(* they are.                                                                *)
(***************************************************************************)
Untouched(e) ==
    /\ task'[e] = task[e] /\ inbox'[e] = inbox[e] /\ listening'[e] = listening[e]
    /\ (e \in departures' <=> e \in departures)
    /\ (e \in alive' <=> e \in alive)
    /\ (e \in serviceRunning' <=> e \in serviceRunning)
    /\ (e \in needsReconnect' <=> e \in needsReconnect)
    /\ (e \in attached' <=> e \in attached)

LEMMA ContinueTouchesOne ==
  ASSUME TypeOK, NEW c \in Client, NEW t, Continue(c, t), NEW e \in Client \ {c}
  PROVE  task'[e] = task[e]
BY DEF TypeOK, Continue

LEMMA ReinitializeTouchesOne ==
  ASSUME TypeOK, NEW c \in Client, NEW mine, NEW own, Reinitialize(c, mine, own),
         NEW e \in Client \ {c}
  PROVE  /\ task'[e] = task[e]
         /\ (e \in needsReconnect' <=> e \in needsReconnect)
         /\ (e \in attached' <=> e \in attached)
<1>1. task'[e] = task[e]
  BY ContinueTouchesOne DEF Reinitialize
<1> QED
  BY <1>1 DEF Reinitialize

LEMMA EnsureDatabaseTouchesOne ==
  ASSUME TypeOK, NEW c \in Client, NEW mine, NEW own, EnsureDatabase(c, mine, own),
         NEW e \in Client \ {c}
  PROVE  /\ task'[e] = task[e]
         /\ (e \in serviceRunning' <=> e \in serviceRunning)
         /\ (e \in needsReconnect' <=> e \in needsReconnect)
         /\ (e \in attached' <=> e \in attached)
<1>1. (e \in serviceRunning' <=> e \in serviceRunning)
  BY DEF EnsureDatabase
<1>2. CASE c \in needsReconnect
  BY <1>1, <1>2, ReinitializeTouchesOne DEF EnsureDatabase
<1>3. CASE c \notin needsReconnect
  BY <1>1, <1>3, ContinueTouchesOne DEF EnsureDatabase
<1> QED
  BY <1>2, <1>3

LEMMA DispatchTouchesOne ==
  ASSUME TypeOK, NEW c \in Client, Dispatch(c), NEW e \in Client \ {c}
  PROVE  Untouched(e)
<1>1. inbox[c] \in Seq(Message) /\ inbox[c] # <<>>
  BY DEF TypeOK, Dispatch
<1>2. Head(inbox[c]) \in {"gone", "back", "bye"}
  BY <1>1 DEF Message
<1>3. inbox'[e] = inbox[e] /\ UNCHANGED <<registry, alive>>
  BY DEF Dispatch, TypeOK
<1>4. CASE Head(inbox[c]) = "gone"
  BY <1>3, <1>4 DEF Dispatch, registry, Untouched
<1>5. CASE Head(inbox[c]) = "back"
  <2>1. (e \in serviceRunning' <=> e \in serviceRunning)
    BY <1>5 DEF Dispatch
  <2>2. CASE c \in needsReconnect
    <3>1. Reinitialize(c, cnxns[c], <<>>)
      BY <1>5, <2>2 DEF Dispatch
    <3> QED
      BY <1>3, <2>1, <3>1, ReinitializeTouchesOne DEF registry, Untouched
  <2>3. CASE c \notin needsReconnect
    BY <1>3, <1>5, <2>1, <2>3 DEF Dispatch, registry, Untouched
  <2> QED
    BY <2>2, <2>3
<1>6. CASE Head(inbox[c]) = "bye"
  <2>1. UNCHANGED <<serviceRunning, needsReconnect>> /\ (e \in attached' <=> e \in attached)
    BY <1>6 DEF Dispatch
  <2>2. task'[e] = task[e]
    BY <1>6, ContinueTouchesOne DEF Dispatch
  <2> QED
    BY <1>3, <2>1, <2>2 DEF registry, Untouched
<1> QED
  BY <1>2, <1>4, <1>5, <1>6

LEMMA CallTouchesOne ==
  ASSUME TypeOK, NEW c \in Client,
         \/ GetDatabase(c) \/ ReadOwn(c) \/ CallFails(c)
         \/ \E x \in Cnxn : AddAgain(c, x) \/ AddOwn(c, x) \/ RemoveOwn(c, x),
         NEW e \in Client \ {c}
  PROVE  Untouched(e)
<1>1. task'[e] = task[e]
  BY ContinueTouchesOne
     DEF GetDatabase, ReadOwn, CallFails, AddAgain, AddOwn, RemoveOwn
<1>2. listening'[e] = listening[e]
  <2>1. \/ UNCHANGED listening
        \/ listening' = [listening EXCEPT ![c] = @ + 1]
        \/ listening' = [listening EXCEPT ![c] = Less(@)]
    BY DEF GetDatabase, ReadOwn, CallFails, AddAgain, AddOwn, RemoveOwn, Register,
           registry
  <2> QED
    BY <2>1 DEF TypeOK
<1>3. /\ UNCHANGED <<departures, alive, inbox, serviceRunning, needsReconnect>>
      /\ (e \in attached' <=> e \in attached)
  BY DEF GetDatabase, ReadOwn, CallFails, AddAgain, AddOwn, RemoveOwn, Register,
         registry, engine
<1> QED
  BY <1>1, <1>2, <1>3 DEF Untouched

LEMMA StepTouchesOne ==
  ASSUME TypeOK, NEW c \in Client, Step(c), NEW e \in Client \ {c}
  PROVE  Untouched(e)
<1>1. CASE Request(c) \/ \E x \in Cnxn : NotifyAdd(c, x) \/ NotifyRemove(c, x)
  <2>1. UNCHANGED <<registry, alive, inbox>>
    BY <1>1 DEF Request, NotifyAdd, NotifyRemove
  <2>2. \/ \E mine, own : EnsureDatabase(c, mine, own)
        \/ UNCHANGED <<engine, task>>
    BY <1>1 DEF Request, NotifyAdd, NotifyRemove
  <2> QED
    BY <2>1, <2>2, EnsureDatabaseTouchesOne DEF registry, engine, Untouched
<1>2. CASE Die(c)
  BY <1>2, ContinueTouchesOne DEF Die, engine, Untouched, TypeOK
<1>3. CASE HandleDeparture(c)
  BY <1>3 DEF HandleDeparture, engine, Untouched, TypeOK
<1>4. CASE Unref(c)
  BY <1>4 DEF Unref, registry, Untouched
<1>5. CASE Dispatch(c)
  BY <1>5, DispatchTouchesOne
<1>6. CASE \/ GetDatabase(c) \/ ReadOwn(c) \/ CallFails(c)
           \/ \E x \in Cnxn : AddAgain(c, x) \/ AddOwn(c, x) \/ RemoveOwn(c, x)
  BY <1>6, CallTouchesOne
<1> QED
  BY <1>1, <1>2, <1>3, <1>4, <1>5, <1>6 DEF Step

LEMMA StepLeavesDaemon ==
  ASSUME NEW c \in Client, Step(c)
  PROVE  UNCHANGED daemon
BY DEF Step, Request, Unref, Dispatch, Die, HandleDeparture, GetDatabase, ReadOwn,
       CallFails, NotifyAdd, NotifyRemove, AddAgain, AddOwn, RemoveOwn, service

-----------------------------------------------------------------------------
(***************************************************************************)
(* The ends of clients.  EndsAreReported needs to know what a client that   *)
(* ended may still have on its way: one call of its own, which can make a   *)
(* count of one from nothing, but not add to a count that gconfd knows of.  *)
(***************************************************************************)
EndReported(c) ==
    /\ task[c].again = {}
    /\ \/ c \in departures
       \/ listening[c] = 0
       \/ listening[c] = 1 /\ task[c] = Idle

EndsInv == \A c \in Client \ alive : EndReported(c)

LEMMA IdleAgain ==
  Idle.again = {} /\ \A t : \A u \in OnTheWay(t) : u.again = {}
BY DEF Idle, OnTheWay

LEMMA LastCallKeepsEnd ==
  ASSUME TypeOK, NEW c \in Client, EndReported(c),
         \/ GetDatabase(c) \/ ReadOwn(c) \/ CallFails(c)
         \/ \E x \in Cnxn : AddAgain(c, x) \/ AddOwn(c, x) \/ RemoveOwn(c, x)
  PROVE  EndReported(c)'
<1>1. /\ task[c] # Idle /\ task[c].again = {} /\ task[c] \in Task
      /\ listening[c] \in Nat
      /\ c \in departures \/ listening[c] = 0
  BY DEF GetDatabase, ReadOwn, CallFails, AddAgain, AddOwn, RemoveOwn, Own, Serves,
         EndReported, TypeOK
<1>2. UNCHANGED departures
  BY DEF GetDatabase, ReadOwn, CallFails, AddAgain, AddOwn, RemoveOwn, Register, registry
<1>3. CASE GetDatabase(c) \/ CallFails(c)
  <2>1. [task[c] EXCEPT !.attach = FALSE] \in Task
        /\ [task[c] EXCEPT !.attach = FALSE].again = {}
    BY <1>1 DEF Task
  <2>2. \/ Continue(c, [task[c] EXCEPT !.attach = FALSE])
        \/ Continue(c, Idle)
    BY <1>1, <1>3 DEF GetDatabase, CallFails
  <2>3. task'[c].again = {}
    BY <2>1, <2>2, ContinueType, TaskType, IdleAgain
  <2>4. UNCHANGED listening
    BY <1>3 DEF GetDatabase, CallFails, registry
  <2> QED
    BY <1>1, <1>2, <2>3, <2>4 DEF EndReported
<1>4. CASE ReadOwn(c) \/ \E x \in Cnxn : AddOwn(c, x) \/ RemoveOwn(c, x)
  <2>1. Continue(c, Idle)
    BY <1>4 DEF ReadOwn, AddOwn, RemoveOwn
  <2>2. task'[c] = Idle /\ task'[c].again = {}
    BY <2>1, ContinueType, TaskType, IdleAgain
  <2>3. \/ UNCHANGED listening
        \/ listening' = [listening EXCEPT ![c] = @ + 1]
        \/ listening' = [listening EXCEPT ![c] = Less(@)]
    BY <1>4 DEF ReadOwn, AddOwn, RemoveOwn, Register, registry
  <2>4. \/ listening'[c] = listening[c]
        \/ listening'[c] = listening[c] + 1
        \/ listening'[c] = Less(listening[c])
    BY <2>3 DEF TypeOK
  <2>5. Less(0) = 0
    BY DEF Less
  <2> QED
    BY <1>1, <1>2, <2>2, <2>4, <2>5 DEF EndReported
<1>5. ~ \E x \in Cnxn : AddAgain(c, x)
  BY <1>1 DEF AddAgain
<1> QED
  BY <1>3, <1>4, <1>5

LEMMA StepKeepsEnds ==
  ASSUME TypeOK, EndsInv, NEW c \in Client, Step(c)
  PROVE  EndsInv'
<1>1. ASSUME NEW e \in Client \ {c}, e \notin alive' PROVE EndReported(e)'
  BY <1>1, StepTouchesOne DEF Untouched, EndsInv, EndReported
<1>2. ASSUME c \notin alive' PROVE EndReported(c)'
  <2>1. CASE Die(c)
    <3>1. task'[c] = Idle \/ task'[c] \in OnTheWay(task[c])
      <4>1. task[c] \in Task
        BY DEF TypeOK
      <4> QED
        BY <2>1, <4>1, TaskType, ContinueType DEF Die
    <3>2. c \in departures' \/ listening'[c] = 0
      BY <2>1 DEF Die, TypeOK
    <3> QED
      BY <3>1, <3>2, IdleAgain DEF EndReported
  <2>2. CASE c \notin alive
    <3>1. EndReported(c)
      BY <2>2 DEF EndsInv
    <3>2. CASE HandleDeparture(c)
      <4>1. listening'[c] = 0 /\ task'[c] = Idle
        BY <3>2 DEF HandleDeparture, TypeOK
      <4> QED
        BY <4>1, IdleAgain DEF EndReported
    <3>3. CASE \/ GetDatabase(c) \/ ReadOwn(c) \/ CallFails(c)
               \/ \E x \in Cnxn : AddAgain(c, x) \/ AddOwn(c, x) \/ RemoveOwn(c, x)
      BY <3>1, <3>3, LastCallKeepsEnd
    <3> QED
      BY <2>2, <3>2, <3>3
         DEF Step, Request, NotifyAdd, NotifyRemove, Unref, Dispatch, Die, Free
  <2>3. c \in alive => Die(c)
    BY <1>2 DEF Step, Request, NotifyAdd, NotifyRemove, Unref, Dispatch, HandleDeparture,
       GetDatabase, ReadOwn, CallFails, AddAgain, AddOwn, RemoveOwn
  <2> QED
    BY <2>1, <2>2, <2>3
<1> QED
  BY <1>1, <1>2 DEF EndsInv

(***************************************************************************)
(* gconfd hears of the end of every client it watches, unless all it has of *)
(* the client is one registration that came with its end.                   *)
(***************************************************************************)
THEOREM EndsReported == Spec => []EndsAreReported
<1>1. Init => EndsInv
  BY DEF Init, EndsInv
<1>2. TypeOK /\ EndsInv /\ [Next]_vars => EndsInv'
  <2> SUFFICES ASSUME TypeOK, EndsInv, [Next]_vars
               PROVE  EndsInv'
    OBVIOUS
  <2>1. CASE UNCHANGED vars
    BY <2>1 DEF vars, registry, EndsInv, EndReported
  <2>2. CASE Activate
    BY <2>2 DEF Activate, registry, EndsInv, EndReported
  <2>3. CASE Shutdown \/ Exit
    <3>1. \A c \in Client : listening'[c] = 0
      BY <2>3 DEF Shutdown, Exit, NoWatches
    <3>2. \A c \in Client \ alive' : task'[c].again = {}
      BY <2>3, IdleAgain DEF Shutdown, Exit, EndsInv, EndReported
    <3> QED
      BY <3>1, <3>2 DEF EndsInv, EndReported
  <2>4. ASSUME NEW c \in Client, Step(c) PROVE EndsInv'
    BY <2>4, StepKeepsEnds
  <2> QED
    BY <2>1, <2>2, <2>3, <2>4 DEF Next
<1>3. EndsInv => EndsAreReported
  BY DEF EndsInv, EndReported, EndsAreReported
<1> QED
  BY <1>1, <1>2, <1>3, TypeCorrect, PTL DEF Spec

-----------------------------------------------------------------------------
(***************************************************************************)
(* The signals of the bus.  What a queue of signals may look like: a gone   *)
(* is followed by a back if gconfd is there again, and by one in any case   *)
(* before the next bye.                                                     *)
(***************************************************************************)
HasBack(q) == \E j \in 1 .. Len(q) : q[j] = "back"

Followed(q) ==
    \A i \in 1 .. Len(q) : q[i] = "gone" => \E j \in i + 1 .. Len(q) : q[j] = "back"

Preceded(q) ==
    \A k \in 1 .. Len(q) : q[k] = "bye" =>
        \A i \in 1 .. k - 1 : q[i] = "gone" => \E j \in i + 1 .. k - 1 : q[j] = "back"

Announced(q) ==
    \A k \in 1 .. Len(q) : q[k] = "bye" => \E j \in 1 .. k - 1 : q[j] = "back"

LEMMA TailOf ==
  ASSUME NEW q \in Seq(Message), q # <<>>
  PROVE  /\ Len(q) \in Nat /\ Len(q) > 0 /\ Len(Tail(q)) = Len(q) - 1
         /\ \A i \in 1 .. Len(q) - 1 : Tail(q)[i] = q[i + 1]
         /\ Head(q) = q[1]
BY HeadTailProperties

LEMMA TailKeeps ==
  ASSUME NEW q \in Seq(Message), q # <<>>
  PROVE  /\ Followed(q) => Followed(Tail(q))
         /\ Preceded(q) => Preceded(Tail(q))
         /\ Head(q) = "gone" /\ Followed(q) => HasBack(Tail(q))
         /\ Head(q) = "gone" /\ Preceded(q) => Announced(Tail(q))
         /\ Head(q) # "back" /\ HasBack(q) => HasBack(Tail(q))
         /\ Head(q) # "back" /\ Announced(q) => Announced(Tail(q))
         /\ Announced(q) => Head(q) # "bye"
<1> DEFINE t == Tail(q)
           n == Len(q)
<1>1. /\ n \in Nat /\ n > 0 /\ Len(t) = n - 1
      /\ \A i \in 1 .. n - 1 : t[i] = q[i + 1]
      /\ Head(q) = q[1]
  BY TailOf
<1> HIDE DEF t, n
<1>2. \A i, k \in 1 .. n : (\E j \in i + 1 .. k : q[j] = "back")
                               => \E j \in i .. k - 1 : j \in 1 .. n - 1 /\ t[j] = "back"
  <2> SUFFICES ASSUME NEW i \in 1 .. n, NEW k \in 1 .. n, NEW j \in i + 1 .. k, q[j] = "back"
               PROVE  \E m \in i .. k - 1 : m \in 1 .. n - 1 /\ t[m] = "back"
    OBVIOUS
  <2>1. j - 1 \in i .. k - 1 /\ j - 1 \in 1 .. n - 1
    BY <1>1
  <2>2. t[j - 1] = q[(j - 1) + 1] /\ (j - 1) + 1 = j
    BY <1>1, <2>1
  <2> QED
    BY <2>1, <2>2
<1>3. Followed(q) => Followed(t)
  <2> SUFFICES ASSUME Followed(q), NEW i \in 1 .. n - 1, t[i] = "gone"
               PROVE  \E j \in i + 1 .. n - 1 : t[j] = "back"
    BY <1>1 DEF Followed
  <2>1. i + 1 \in 1 .. n /\ q[i + 1] = "gone"
    BY <1>1
  <2>2. \E j \in (i + 1) + 1 .. n : q[j] = "back"
    BY <2>1 DEF Followed, n
  <2>3. n \in 1 .. n
    BY <1>1
  <2> QED
    BY <1>2, <2>1, <2>2, <2>3
<1>4. Preceded(q) => Preceded(t)
  <2> SUFFICES ASSUME Preceded(q), NEW k \in 1 .. n - 1, t[k] = "bye",
                      NEW i \in 1 .. k - 1, t[i] = "gone"
               PROVE  \E j \in i + 1 .. k - 1 : t[j] = "back"
    BY <1>1 DEF Preceded
  <2>1. /\ k + 1 \in 1 .. n /\ q[k + 1] = "bye"
        /\ i + 1 \in 1 .. (k + 1) - 1 /\ q[i + 1] = "gone"
    BY <1>1
  <2>2. \E j \in (i + 1) + 1 .. (k + 1) - 1 : q[j] = "back"
    BY <2>1 DEF Preceded, n
  <2>3. i + 1 \in 1 .. n /\ k \in 1 .. n /\ (k + 1) - 1 = k
    BY <1>1
  <2> QED
    BY <1>2, <2>2, <2>3
<1>5. Head(q) = "gone" /\ Followed(q) => HasBack(t)
  <2> SUFFICES ASSUME q[1] = "gone", Followed(q) PROVE \E j \in 1 .. n - 1 : t[j] = "back"
    BY <1>1 DEF HasBack
  <2>1. 1 \in 1 .. n /\ n \in 1 .. n
    BY <1>1
  <2>2. \E j \in 1 + 1 .. n : q[j] = "back"
    BY <2>1 DEF Followed, n
  <2> QED
    BY <1>2, <2>1, <2>2
<1>6. Head(q) = "gone" /\ Preceded(q) => Announced(t)
  <2> SUFFICES ASSUME q[1] = "gone", Preceded(q), NEW k \in 1 .. n - 1, t[k] = "bye"
               PROVE  \E j \in 1 .. k - 1 : t[j] = "back"
    BY <1>1 DEF Announced
  <2>1. k + 1 \in 1 .. n /\ q[k + 1] = "bye" /\ 1 \in 1 .. (k + 1) - 1
    BY <1>1
  <2>2. \E j \in 1 + 1 .. (k + 1) - 1 : q[j] = "back"
    BY <2>1 DEF Preceded, n
  <2>3. 1 \in 1 .. n /\ k \in 1 .. n /\ (k + 1) - 1 = k
    BY <1>1
  <2> QED
    BY <1>2, <2>2, <2>3
<1>7. Head(q) # "back" /\ HasBack(q) => HasBack(t)
  <2> SUFFICES ASSUME q[1] # "back", NEW j \in 1 .. n, q[j] = "back"
               PROVE  \E m \in 1 .. n - 1 : t[m] = "back"
    BY <1>1 DEF HasBack, n
  <2>1. j \in 1 + 1 .. n /\ 1 \in 1 .. n /\ n \in 1 .. n
    BY <1>1
  <2> QED
    BY <1>2, <2>1
<1>8. Head(q) # "back" /\ Announced(q) => Announced(t)
  <2> SUFFICES ASSUME q[1] # "back", Announced(q), NEW k \in 1 .. n - 1, t[k] = "bye"
               PROVE  \E j \in 1 .. k - 1 : t[j] = "back"
    BY <1>1 DEF Announced
  <2>1. k + 1 \in 1 .. n /\ q[k + 1] = "bye"
    BY <1>1
  <2>2. PICK j \in 1 .. (k + 1) - 1 : q[j] = "back"
    BY <2>1 DEF Announced, n
  <2>3. j \in 1 + 1 .. k /\ 1 \in 1 .. n /\ k \in 1 .. n
    BY <1>1, <2>2
  <2> QED
    BY <1>2, <2>2, <2>3
<1>9. Announced(q) => Head(q) # "bye"
  <2>1. 1 \in 1 .. n /\ 1 .. 1 - 1 = {}
    BY <1>1
  <2> QED
    BY <1>1, <2>1 DEF Announced, n
<1> QED
  BY <1>3, <1>4, <1>5, <1>6, <1>7, <1>8, <1>9 DEF t

LEMMA AppendKeeps ==
  ASSUME NEW q \in Seq(Message), NEW m \in Message
  PROVE  /\ m = "back" => HasBack(Append(q, m)) /\ Followed(Append(q, m))
         /\ HasBack(q) => HasBack(Append(q, m))
         /\ m # "gone" /\ Followed(q) => Followed(Append(q, m))
         /\ Preceded(q) /\ (m = "bye" => Followed(q)) => Preceded(Append(q, m))
         /\ Announced(q) /\ (m = "bye" => HasBack(q)) => Announced(Append(q, m))
<1> DEFINE a == Append(q, m)
           n == Len(q)
<1>1. /\ n \in Nat /\ Len(a) = n + 1 /\ a[n + 1] = m
      /\ \A i \in 1 .. n : a[i] = q[i]
  BY AppendProperties, LenProperties
<1> HIDE DEF a, n
<1>2. m = "back" => HasBack(a) /\ Followed(a)
  <2>1. n + 1 \in 1 .. n + 1
    BY <1>1
  <2>2. m = "back" => HasBack(a)
    BY <1>1, <2>1 DEF HasBack
  <2>3. ASSUME m = "back", NEW i \in 1 .. n + 1, a[i] = "gone"
        PROVE  n + 1 \in i + 1 .. n + 1
    BY <1>1, <2>3
  <2> QED
    BY <1>1, <2>2, <2>3 DEF Followed
<1>3. HasBack(q) => HasBack(a)
  BY <1>1 DEF HasBack, n
<1>4. m # "gone" /\ Followed(q) => Followed(a)
  <2> SUFFICES ASSUME m # "gone", Followed(q), NEW i \in 1 .. n + 1, a[i] = "gone"
               PROVE  \E j \in i + 1 .. n + 1 : a[j] = "back"
    BY <1>1 DEF Followed
  <2>1. i \in 1 .. n /\ q[i] = "gone"
    BY <1>1
  <2>2. PICK j \in i + 1 .. n : q[j] = "back"
    BY <2>1 DEF Followed, n
  <2>3. j \in 1 .. n /\ j \in i + 1 .. n + 1
    BY <1>1, <2>1, <2>2
  <2> QED
    BY <1>1, <2>2, <2>3
<1>5. Preceded(q) /\ (m = "bye" => Followed(q)) => Preceded(a)
  <2> SUFFICES ASSUME Preceded(q), m = "bye" => Followed(q),
                      NEW k \in 1 .. n + 1, a[k] = "bye", NEW i \in 1 .. k - 1, a[i] = "gone"
               PROVE  \E j \in i + 1 .. k - 1 : a[j] = "back"
    BY <1>1 DEF Preceded
  <2>1. i \in 1 .. n /\ q[i] = "gone"
    BY <1>1
  <2>2. PICK j \in i + 1 .. k - 1 : q[j] = "back"
    <3>1. CASE k \in 1 .. n
      BY <1>1, <2>1, <3>1 DEF Preceded, n
    <3>2. CASE k = n + 1
      <4>1. Followed(q) /\ k - 1 = n
        BY <1>1, <3>2
      <4> QED
        BY <2>1, <4>1 DEF Followed, n
    <3> QED
      BY <1>1, <3>1, <3>2
  <2>3. j \in 1 .. n
    BY <1>1, <2>1, <2>2
  <2> QED
    BY <1>1, <2>2, <2>3
<1>6. Announced(q) /\ (m = "bye" => HasBack(q)) => Announced(a)
  <2> SUFFICES ASSUME Announced(q), m = "bye" => HasBack(q), NEW k \in 1 .. n + 1, a[k] = "bye"
               PROVE  \E j \in 1 .. k - 1 : a[j] = "back"
    BY <1>1 DEF Announced
  <2>1. PICK j \in 1 .. k - 1 : q[j] = "back"
    <3>1. CASE k \in 1 .. n
      BY <1>1, <3>1 DEF Announced, n
    <3>2. CASE k = n + 1
      <4>1. HasBack(q) /\ k - 1 = n
        BY <1>1, <3>2
      <4> QED
        BY <4>1 DEF HasBack, n
    <3> QED
      BY <1>1, <3>1, <3>2
  <2>2. j \in 1 .. n
    BY <1>1, <2>1
  <2> QED
    BY <1>1, <2>1, <2>2
<1> QED
  BY <1>2, <1>3, <1>4, <1>5, <1>6 DEF a

(***************************************************************************)
(* The queue of a client, against what the client knows and what gconfd is. *)
(***************************************************************************)
QueueInStep(c) ==
    /\ Preceded(inbox[c])
    /\ daemon # "down" => Followed(inbox[c])
    /\ c \in needsReconnect => Announced(inbox[c])
    /\ c \in needsReconnect /\ daemon # "down" => HasBack(inbox[c])

KnowsDaemon(c) ==
    c \in attached \/ task[c] # Idle => c \in serviceRunning \cup needsReconnect

SignalsInv == \A c \in alive : QueueInStep(c) /\ KnowsDaemon(c)

LEMMA EmptyQueue ==
  Preceded(<<>>) /\ Followed(<<>>)
BY DEF Preceded, Followed

LEMMA TellKeepsQueues ==
  ASSUME TypeOK, SignalsInv, NEW c \in alive, Activate \/ Shutdown \/ Exit
  PROVE  QueueInStep(c)'
<1>1. /\ c \in Client /\ inbox[c] \in Seq(Message)
      /\ QueueInStep(c) /\ UNCHANGED needsReconnect
  BY DEF TypeOK, SignalsInv, Activate, Shutdown, Exit, engine
<1>2. CASE Activate
  <2>1. inbox'[c] = Append(inbox[c], "back")
    BY <1>1, <1>2 DEF Activate, Tell
  <2>2. "back" \in Message
    BY DEF Message
  <2> QED
    BY <1>1, <2>1, <2>2, AppendKeeps DEF QueueInStep
<1>3. CASE Shutdown
  <2>1. inbox'[c] = Append(inbox[c], "bye") /\ daemon = "up"
    BY <1>1, <1>3 DEF Shutdown, Tell
  <2>2. "bye" \in Message
    BY DEF Message
  <2> QED
    BY <1>1, <2>1, <2>2, AppendKeeps DEF QueueInStep
<1>4. CASE Exit
  <2>1. inbox'[c] = Append(inbox[c], "gone") /\ daemon' = "down"
    BY <1>1, <1>4 DEF Exit, Tell
  <2>2. "gone" \in Message
    BY DEF Message
  <2> QED
    BY <1>1, <2>1, <2>2, AppendKeeps DEF QueueInStep
<1> QED
  BY <1>2, <1>3, <1>4

LEMMA DaemonKeepsSignals ==
  ASSUME TypeOK, SignalsInv, Activate \/ Shutdown \/ Exit
  PROVE  SignalsInv'
<1>1. UNCHANGED <<alive, engine>> /\ alive \subseteq Client
  BY DEF Activate, Shutdown, Exit, TypeOK
<1>2. \A c \in alive : task'[c] = task[c]
  BY <1>1 DEF Activate, Shutdown, Exit
<1>3. \A c \in alive : KnowsDaemon(c)'
  BY <1>1, <1>2 DEF SignalsInv, KnowsDaemon, engine
<1> QED
  BY <1>1, <1>3, TellKeepsQueues DEF SignalsInv

(* What a request does for the client that makes it. *)
LEMMA EnsureDatabaseKnows ==
  ASSUME NEW c \in Client, NEW mine, NEW own, EnsureDatabase(c, mine, own)
  PROVE  c \in serviceRunning' /\ (c \in needsReconnect' => c \in needsReconnect)
BY DEF EnsureDatabase, Reinitialize

LEMMA DispatchKeepsSignals ==
  ASSUME TypeOK, SignalsInv, NEW c \in Client, Dispatch(c)
  PROVE  QueueInStep(c)' /\ KnowsDaemon(c)'
<1> DEFINE q == inbox[c]
<1>1. /\ c \in alive /\ q \in Seq(Message) /\ q # <<>>
      /\ inbox'[c] = Tail(q) /\ UNCHANGED daemon
      /\ QueueInStep(c) /\ KnowsDaemon(c) /\ task[c] = Idle
  BY DEF Dispatch, Free, TypeOK, SignalsInv, service
<1>2. Head(q) \in {"gone", "back", "bye"}
  BY <1>1 DEF Message
<1>3. /\ Preceded(q) /\ (daemon # "down" => Followed(q))
      /\ (c \in needsReconnect => Announced(q))
      /\ (c \in needsReconnect /\ daemon # "down" => HasBack(q))
  BY <1>1 DEF QueueInStep
<1>4. /\ Followed(q) => Followed(Tail(q))
      /\ Preceded(q) => Preceded(Tail(q))
      /\ Head(q) = "gone" /\ Followed(q) => HasBack(Tail(q))
      /\ Head(q) = "gone" /\ Preceded(q) => Announced(Tail(q))
      /\ Head(q) # "back" /\ HasBack(q) => HasBack(Tail(q))
      /\ Head(q) # "back" /\ Announced(q) => Announced(Tail(q))
  BY <1>1, TailKeeps
<1>5. CASE Head(q) = "gone"
  <2>1. c \in needsReconnect'
    BY <1>5 DEF Dispatch
  <2>2. Announced(Tail(q)) /\ (daemon # "down" => HasBack(Tail(q)))
    BY <1>3, <1>4, <1>5
  <2> QED
    BY <1>1, <1>3, <1>4, <2>1, <2>2 DEF QueueInStep, KnowsDaemon
<1>6. CASE Head(q) = "back"
  <2>1. c \in serviceRunning' /\ c \notin needsReconnect'
    BY <1>6 DEF Dispatch, Reinitialize
  <2> QED
    BY <1>1, <1>3, <1>4, <2>1 DEF QueueInStep, KnowsDaemon
<1>7. CASE Head(q) = "bye"
  <2>1. UNCHANGED <<serviceRunning, needsReconnect>> /\ c \notin attached'
    BY <1>7 DEF Dispatch
  <2>2. c \in attached \/ task'[c] = Idle
    BY <1>1, <1>7 DEF Dispatch
  <2>3. KnowsDaemon(c)'
    BY <1>1, <2>1, <2>2 DEF KnowsDaemon
  <2>4. QueueInStep(c)'
    BY <1>1, <1>3, <1>4, <1>7, <2>1 DEF QueueInStep
  <2> QED
    BY <2>3, <2>4
<1> QED
  BY <1>2, <1>5, <1>6, <1>7

LEMMA StepKeepsSignals ==
  ASSUME TypeOK, SignalsInv, NEW c \in Client, Step(c)
  PROVE  SignalsInv'
<1>1. ASSUME NEW e \in alive', e # c PROVE QueueInStep(e)' /\ KnowsDaemon(e)'
  <2>1. e \in Client
    BY NextType DEF Next, TypeOK
  <2>2. Untouched(e) /\ UNCHANGED daemon /\ e \in alive
    BY <1>1, <2>1, StepTouchesOne, StepLeavesDaemon DEF Untouched
  <2>3. QueueInStep(e) /\ KnowsDaemon(e)
    BY <2>2 DEF SignalsInv
  <2> QED
    BY <2>2, <2>3 DEF Untouched, QueueInStep, KnowsDaemon
<1>2. ASSUME c \in alive' PROVE QueueInStep(c)' /\ KnowsDaemon(c)'
  <2>1. c \in alive /\ ~ Die(c)
    <3>1. ~ Die(c)
      BY <1>2 DEF Die
    <3>2. UNCHANGED alive
      BY <3>1 DEF Step, Request, NotifyAdd, NotifyRemove, Unref, Dispatch, HandleDeparture,
         GetDatabase, ReadOwn, CallFails, AddAgain, AddOwn, RemoveOwn
    <3> QED
      BY <1>2, <3>1, <3>2
  <2>2. QueueInStep(c) /\ KnowsDaemon(c) /\ UNCHANGED daemon
    BY <2>1, StepLeavesDaemon DEF SignalsInv
  <2>3. CASE Dispatch(c)
    BY <2>3, DispatchKeepsSignals
  <2>4. CASE Request(c) \/ \E x \in Cnxn : NotifyAdd(c, x) \/ NotifyRemove(c, x)
    <3>1. UNCHANGED inbox
      BY <2>4 DEF Request, NotifyAdd, NotifyRemove
    <3>2. CASE \E mine, own : EnsureDatabase(c, mine, own)
      BY <2>2, <3>1, <3>2, EnsureDatabaseKnows DEF QueueInStep, KnowsDaemon
    <3>3. CASE UNCHANGED <<engine, task>>
      BY <2>2, <3>1, <3>3 DEF engine, QueueInStep, KnowsDaemon
    <3> QED
      BY <2>4, <3>2, <3>3 DEF Request, NotifyAdd, NotifyRemove
  <2>5. CASE Unref(c)
    BY <2>2, <2>5 DEF Unref, QueueInStep, KnowsDaemon
  <2>6. CASE HandleDeparture(c)
    BY <2>2, <2>6 DEF HandleDeparture, engine, QueueInStep, KnowsDaemon
  <2>7. CASE \/ GetDatabase(c) \/ ReadOwn(c) \/ CallFails(c)
             \/ \E x \in Cnxn : AddAgain(c, x) \/ AddOwn(c, x) \/ RemoveOwn(c, x)
    <3>1. UNCHANGED <<inbox, serviceRunning, needsReconnect>> /\ task[c] # Idle
      BY <2>7 DEF GetDatabase, ReadOwn, CallFails, AddAgain, AddOwn, RemoveOwn, Own,
         Serves, engine
    <3> QED
      BY <2>2, <3>1 DEF QueueInStep, KnowsDaemon
  <2> QED
    BY <2>1, <2>3, <2>4, <2>5, <2>6, <2>7 DEF Step
<1> QED
  BY <1>1, <1>2 DEF SignalsInv

LEMMA QueuesGiveSignals ==
  ASSUME TypeOK, SignalsInv
  PROVE  SignalsAreInStep
<1> SUFFICES ASSUME NEW c \in alive
             PROVE  /\ c \in needsReconnect /\ daemon # "down" =>
                          \E i \in DOMAIN inbox[c] : inbox[c][i] = "back"
                    /\ inbox[c] # <<>> /\ Head(inbox[c]) = "bye" /\ Free(c)
                          /\ c \in attached =>
                              c \in serviceRunning \ needsReconnect
  BY DEF SignalsAreInStep
<1>1. inbox[c] \in Seq(Message) /\ QueueInStep(c) /\ KnowsDaemon(c)
  BY DEF TypeOK, SignalsInv
<1>2. DOMAIN inbox[c] = 1 .. Len(inbox[c])
  BY <1>1
<1>3. c \in needsReconnect /\ daemon # "down" =>
          \E i \in DOMAIN inbox[c] : inbox[c][i] = "back"
  BY <1>1, <1>2 DEF QueueInStep, HasBack
<1>4. inbox[c] # <<>> /\ Head(inbox[c]) = "bye" => c \notin needsReconnect
  BY <1>1, TailKeeps DEF QueueInStep
<1> QED
  BY <1>1, <1>3, <1>4 DEF KnowsDaemon

LEMMA QueuesInStep == Spec => []SignalsInv
<1>1. Init => SignalsInv
  BY EmptyQueue DEF Init, SignalsInv, QueueInStep, KnowsDaemon
<1>2. TypeOK /\ SignalsInv /\ [Next]_vars => SignalsInv'
  <2>1. ASSUME SignalsInv, UNCHANGED vars PROVE SignalsInv'
    BY <2>1 DEF vars, service, engine, SignalsInv, QueueInStep, KnowsDaemon
  <2> QED
    BY <2>1, DaemonKeepsSignals, StepKeepsSignals DEF Next
<1> QED
  BY <1>1, <1>2, TypeCorrect, PTL DEF Spec

(***************************************************************************)
(* A client that lost gconfd always has its return ahead of it, and never   *)
(* takes the Bye of one gconfd for that of another.                         *)
(***************************************************************************)
THEOREM SignalsInStep == Spec => []SignalsAreInStep
BY QueuesInStep, QueuesGiveSignals, TypeCorrect, PTL

-----------------------------------------------------------------------------
(***************************************************************************)
(* The same of what gconfd lists, what the client registered and the gaps   *)
(* it knows: a step of one client is about that client alone.               *)
(***************************************************************************)
ListsUntouched(e) ==
    /\ \A d \in Dir : notifications'[d][e] = notifications[d][e]
    /\ cnxns'[e] = cnxns[e]
    /\ \A why : (<<e, why>> \in gaps' <=> <<e, why>> \in gaps)

LEMMA ReinitializeLeavesGaps ==
  ASSUME NEW c \in Client, NEW mine, NEW own, Reinitialize(c, mine, own),
         NEW e \in Client \ {c}, NEW why
  PROVE  <<e, why>> \in gaps' <=> <<e, why>> \in gaps
<1>1. <<e, why>> # <<c, "failed">> /\ <<e, why>> # <<c, "removed">> /\ <<e, why>>[1] # c
  OBVIOUS
<1> QED
  BY <1>1 DEF Reinitialize, Filled

LEMMA CallTouchesOneList ==
  ASSUME TypeOK, NEW c \in Client,
         \/ GetDatabase(c) \/ ReadOwn(c) \/ CallFails(c)
         \/ \E x \in Cnxn : AddAgain(c, x) \/ AddOwn(c, x) \/ RemoveOwn(c, x),
         NEW e \in Client \ {c}
  PROVE  ListsUntouched(e)
<1>1. CASE GetDatabase(c) \/ ReadOwn(c)
  BY <1>1 DEF GetDatabase, ReadOwn, registry, ListsUntouched
<1>2. CASE CallFails(c)
  <2>1. UNCHANGED notifications
    BY <1>2 DEF CallFails, registry
  <2>2. cnxns'[e] = cnxns[e]
    BY <1>2 DEF CallFails, TypeOK
  <2>3. \A why : (<<e, why>> \in gaps' <=> <<e, why>> \in gaps)
    <3>1. \A why : <<e, why>> # <<c, "failed">>
      OBVIOUS
    <3> QED
      BY <1>2, <3>1 DEF CallFails
  <2> QED
    BY <2>1, <2>2, <2>3 DEF ListsUntouched
<1>3. ASSUME NEW x \in Cnxn, AddAgain(c, x) \/ AddOwn(c, x) \/ RemoveOwn(c, x)
      PROVE  ListsUntouched(e)
  <2>1. UNCHANGED <<cnxns, gaps>>
    BY <1>3 DEF AddAgain, AddOwn, RemoveOwn
  <2>2. \/ notifications' = [notifications EXCEPT ![DirOf[x]][c] = @ + 1]
        \/ notifications' = [notifications EXCEPT ![DirOf[x]][c] = Less(@)]
    BY <1>3 DEF AddAgain, AddOwn, RemoveOwn, Register
  <2>3. ASSUME NEW n, notifications' = [notifications EXCEPT ![DirOf[x]][c] = n], NEW d \in Dir
        PROVE  notifications'[d][e] = notifications[d][e]
    BY <2>3 DEF TypeOK
  <2>4. \A d \in Dir : notifications'[d][e] = notifications[d][e]
    BY <2>2, <2>3
  <2> QED
    BY <2>1, <2>4 DEF ListsUntouched
<1> QED
  BY <1>1, <1>2, <1>3

LEMMA StepTouchesOneList ==
  ASSUME TypeOK, NEW c \in Client, Step(c), NEW e \in Client \ {c}
  PROVE  ListsUntouched(e)
<1>1. CASE Request(c) \/ \E x \in Cnxn : NotifyAdd(c, x) \/ NotifyRemove(c, x)
  <2>1. UNCHANGED notifications /\ cnxns'[e] = cnxns[e]
    BY <1>1 DEF Request, NotifyAdd, NotifyRemove, registry, TypeOK
  <2>2. \/ \E mine, own : EnsureDatabase(c, mine, own)
        \/ UNCHANGED gaps
    BY <1>1 DEF Request, NotifyAdd, NotifyRemove
  <2>3. \/ \E mine, own : Reinitialize(c, mine, own)
        \/ UNCHANGED gaps
    BY <2>2 DEF EnsureDatabase
  <2> QED
    BY <2>1, <2>3, ReinitializeLeavesGaps DEF ListsUntouched
<1>2. CASE Unref(c) \/ Die(c)
  BY <1>2 DEF Unref, Die, registry, ListsUntouched, TypeOK
<1>3. CASE HandleDeparture(c)
  BY <1>3 DEF HandleDeparture, ListsUntouched, TypeOK
<1>4. CASE Dispatch(c)
  <2>1. UNCHANGED <<notifications, cnxns>>
    BY <1>4 DEF Dispatch, registry
  <2>2. inbox[c] \in Seq(Message) /\ inbox[c] # <<>>
    BY <1>4 DEF TypeOK, Dispatch
  <2>3. Head(inbox[c]) \in {"gone", "back", "bye"}
    BY <2>2 DEF Message
  <2>4. \/ Reinitialize(c, cnxns[c], <<>>)
        \/ gaps' = Filled(c)
        \/ UNCHANGED gaps
    BY <1>4, <2>3 DEF Dispatch
  <2> QED
    BY <2>1, <2>4, ReinitializeLeavesGaps DEF ListsUntouched, Filled
<1>5. CASE \/ GetDatabase(c) \/ ReadOwn(c) \/ CallFails(c)
           \/ \E x \in Cnxn : AddAgain(c, x) \/ AddOwn(c, x) \/ RemoveOwn(c, x)
  BY <1>5, CallTouchesOneList
<1> QED
  BY <1>1, <1>2, <1>3, <1>4, <1>5 DEF Step

-----------------------------------------------------------------------------
(***************************************************************************)
(* What gconfd counts of a client, against what it lists.                   *)
(***************************************************************************)
WatchedEnough(c) ==
    IsFiniteSet(EntriesOf(c)) /\ listening[c] <= Cardinality(EntriesOf(c))

WatchedInv == \A c \in Client : WatchedEnough(c)

EntriesOfNow == \A c \in Client : \A p :
    p \in EntriesOf(c) <=> \E d \in Dir : \E i \in 1 .. notifications[d][c] : p = <<d, i>>

LEMMA EntriesAre == EntriesOfNow
BY DEF EntriesOfNow, EntriesOf

LEMMA EntriesAgain ==
  ASSUME NEW c \in Client, \A d \in Dir : notifications'[d][c] = notifications[d][c]
  PROVE  EntriesOf(c)' = EntriesOf(c)
BY DEF EntriesOf

LEMMA NoEntries ==
  ASSUME NEW c \in Client, \A d \in Dir : notifications'[d][c] = 0, listening'[c] = 0
  PROVE  WatchedEnough(c)'
<1>1. EntriesOf(c)' = {}
  BY DEF EntriesOf
<1>2. IsFiniteSet(EntriesOf(c)') /\ Cardinality(EntriesOf(c)') = 0
  BY <1>1, FS_EmptySet
<1> QED
  BY <1>2 DEF WatchedEnough

LEMMA OneEntryMore ==
  ASSUME TypeOK, NEW c \in Client, WatchedEnough(c), NEW x \in Cnxn, Register(c, x)
  PROVE  WatchedEnough(c)'
<1> DEFINE d == DirOf[x]
           n == notifications[d][c]
<1>1. d \in Dir /\ n \in Nat /\ listening[c] \in Nat
  BY DEF TypeOK
<1>2. /\ notifications'[d][c] = n + 1
      /\ \A e \in Dir \ {d} : notifications'[e][c] = notifications[e][c]
      /\ listening'[c] = listening[c] + 1
  BY <1>1 DEF Register, TypeOK
<1> HIDE DEF d, n
<1>3. <<d, n + 1>> \notin EntriesOf(c)
  BY <1>1, EntriesAre DEF EntriesOfNow, n
<1>4. EntriesOf(c)' = EntriesOf(c) \cup {<<d, n + 1>>}
  <2>1. EntriesOfNow'
    BY EntriesAre, PTL
  <2>2. ASSUME NEW p PROVE p \in EntriesOf(c)' <=> p \in EntriesOf(c) \/ p = <<d, n + 1>>
    <3>1. p \in EntriesOf(c)' <=> \E e \in Dir : \E i \in 1 .. notifications'[e][c] : p = <<e, i>>
      BY <2>1 DEF EntriesOfNow
    <3>2. p \in EntriesOf(c) <=> \E e \in Dir : \E i \in 1 .. notifications[e][c] : p = <<e, i>>
      BY EntriesAre DEF EntriesOfNow
    <3>3. 1 .. n + 1 = (1 .. n) \cup {n + 1}
      BY <1>1
    <3>4. 1 .. notifications'[d][c] = (1 .. notifications[d][c]) \cup {n + 1}
      BY <1>2, <3>3 DEF n
    <3> QED
      BY <1>1, <1>2, <3>1, <3>2, <3>4
  <2> QED
    BY <2>2
<1>5. /\ IsFiniteSet(EntriesOf(c)') /\ Cardinality(EntriesOf(c)') = Cardinality(EntriesOf(c)) + 1
  BY <1>3, <1>4, FS_AddElement DEF WatchedEnough
<1>6. Cardinality(EntriesOf(c)) \in Nat
  BY FS_CardinalityType DEF WatchedEnough
<1> QED
  BY <1>1, <1>2, <1>5, <1>6 DEF WatchedEnough

LEMMA OneEntryLess ==
  ASSUME TypeOK, NEW c \in Client, WatchedEnough(c), NEW d \in Dir,
         notifications' = [notifications EXCEPT ![d][c] = Less(@)],
         listening' = [listening EXCEPT ![c] = Less(@)]
  PROVE  WatchedEnough(c)'
<1> DEFINE n == notifications[d][c]
<1>1. n \in Nat /\ listening[c] \in Nat
  BY DEF TypeOK
<1>2. /\ notifications'[d][c] = Less(n)
      /\ \A e \in Dir \ {d} : notifications'[e][c] = notifications[e][c]
      /\ listening'[c] = Less(listening[c])
  BY DEF TypeOK
<1> HIDE DEF n
<1>3. Cardinality(EntriesOf(c)) \in Nat
  BY FS_CardinalityType DEF WatchedEnough
<1>4. CASE n = 0
  <2>1. EntriesOf(c)' = EntriesOf(c)
    <3>1. notifications'[d][c] = notifications[d][c]
      BY <1>2, <1>4 DEF Less, n
    <3> QED
      BY <1>2, <3>1, EntriesAgain
  <2> QED
    BY <1>1, <1>2, <1>3, <2>1 DEF WatchedEnough, Less
<1>5. CASE n # 0
  <2>1. <<d, n>> \in EntriesOf(c)
    <3>1. n \in 1 .. n
      BY <1>1, <1>5
    <3> QED
      BY <3>1, EntriesAre DEF EntriesOfNow, n
  <2>2. EntriesOf(c)' = EntriesOf(c) \ {<<d, n>>}
    <3>1. EntriesOfNow'
      BY EntriesAre, PTL
    <3>2. ASSUME NEW p PROVE p \in EntriesOf(c)' <=> p \in EntriesOf(c) /\ p # <<d, n>>
      <4>1. p \in EntriesOf(c)' <=> \E e \in Dir : \E i \in 1 .. notifications'[e][c] : p = <<e, i>>
        BY <3>1 DEF EntriesOfNow
      <4>2. p \in EntriesOf(c) <=> \E e \in Dir : \E i \in 1 .. notifications[e][c] : p = <<e, i>>
        BY EntriesAre DEF EntriesOfNow
      <4>3. 1 .. n - 1 = (1 .. n) \ {n}
        BY <1>1
      <4>4. 1 .. notifications'[d][c] = (1 .. notifications[d][c]) \ {n}
        BY <1>2, <1>5, <4>3 DEF Less, n
      <4> QED
        BY <1>2, <4>1, <4>2, <4>4
    <3> QED
      BY <3>2
  <2>3. /\ IsFiniteSet(EntriesOf(c)')
        /\ Cardinality(EntriesOf(c)') = Cardinality(EntriesOf(c)) - 1
        /\ Cardinality(EntriesOf(c)') \in Nat
    BY <2>1, <2>2, FS_RemoveElement, FS_CardinalityType DEF WatchedEnough
  <2> QED
    BY <1>1, <1>2, <1>3, <2>3 DEF WatchedEnough, Less
<1> QED
  BY <1>4, <1>5

LEMMA NothingLeft ==
  ASSUME TypeOK, NEW c \in Client, WatchedEnough(c), HandleDeparture(c)
  PROVE  WatchedEnough(c)'
<1>1. /\ \A d \in Dir : notifications'[d][c] = Less(notifications[d][c])
      /\ listening'[c] = 0
  BY DEF HandleDeparture, TypeOK
<1>2. ASSUME NEW d \in Dir PROVE 1 .. notifications'[d][c] \subseteq 1 .. notifications[d][c]
  BY <1>1 DEF TypeOK, Less
<1>3. EntriesOf(c)' \subseteq EntriesOf(c)
  BY <1>2 DEF EntriesOf
<1>4. IsFiniteSet(EntriesOf(c)') /\ Cardinality(EntriesOf(c)') \in Nat
  BY <1>3, FS_Subset, FS_CardinalityType DEF WatchedEnough
<1> QED
  BY <1>1, <1>4 DEF WatchedEnough

LEMMA StepKeepsWatched ==
  ASSUME TypeOK, WatchedInv, NEW c \in Client, Step(c)
  PROVE  WatchedInv'
<1>1. ASSUME NEW e \in Client \ {c} PROVE WatchedEnough(e)'
  <2>1. listening'[e] = listening[e] /\ EntriesOf(e)' = EntriesOf(e)
    BY StepTouchesOne, StepTouchesOneList, EntriesAgain DEF Untouched, ListsUntouched
  <2> QED
    BY <2>1 DEF WatchedInv, WatchedEnough
<1>2. WatchedEnough(c)'
  <2>1. WatchedEnough(c)
    BY DEF WatchedInv
  <2>2. CASE UNCHANGED <<notifications, listening>>
    BY <2>1, <2>2, EntriesAgain DEF WatchedEnough
  <2>3. ASSUME NEW x \in Cnxn, AddAgain(c, x) \/ AddOwn(c, x) PROVE WatchedEnough(c)'
    BY <2>1, <2>3, OneEntryMore DEF AddAgain, AddOwn
  <2>4. ASSUME NEW x \in Cnxn, RemoveOwn(c, x) PROVE WatchedEnough(c)'
    BY <2>1, <2>4, OneEntryLess DEF RemoveOwn
  <2>5. CASE HandleDeparture(c)
    BY <2>1, <2>5, NothingLeft
  <2> QED
    BY <2>2, <2>3, <2>4, <2>5
       DEF Step, Request, NotifyAdd, NotifyRemove, Unref, Dispatch, Die, GetDatabase,
           ReadOwn, CallFails, registry
<1> QED
  BY <1>1, <1>2 DEF WatchedInv

(***************************************************************************)
(* gconfd never watches a client it has no entry of: whatever removals went *)
(* wrong before, its count is not above the number of the entries.          *)
(***************************************************************************)
THEOREM Watched == Spec => []WatchedForSomething
<1>1. Init => WatchedInv
  <2> SUFFICES ASSUME Init, NEW c \in Client PROVE WatchedEnough(c)
    BY DEF WatchedInv
  <2>1. EntriesOf(c) = {} /\ listening[c] = 0
    BY DEF Init, NoRegistrations, NoWatches, EntriesOf
  <2> QED
    BY <2>1, FS_EmptySet DEF WatchedEnough
<1>2. TypeOK /\ WatchedInv /\ [Next]_vars => WatchedInv'
  <2> SUFFICES ASSUME TypeOK, WatchedInv, [Next]_vars PROVE WatchedInv'
    OBVIOUS
  <2>1. CASE UNCHANGED <<notifications, listening>>
    BY <2>1, EntriesAgain DEF WatchedInv, WatchedEnough
  <2>2. CASE Shutdown \/ Exit
    BY <2>2, NoEntries DEF Shutdown, Exit, NoRegistrations, NoWatches, WatchedInv
  <2> QED
    BY <2>1, <2>2, StepKeepsWatched DEF Next, Activate, vars, registry
<1>3. WatchedInv => WatchedForSomething
  BY DEF WatchedInv, WatchedEnough, WatchedForSomething
<1> QED
  BY <1>1, <1>2, <1>3, TypeCorrect, PTL DEF Spec

-----------------------------------------------------------------------------
(***************************************************************************)
(* The registrations of a client.  On a directory, what gconfd lists and    *)
(* what is still to be added make up for the connections and for what is    *)
(* still to be removed; nothing needs to be there without connections.      *)
(***************************************************************************)
OnDir(S, d) == {x \in S : DirOf[x] = d}
Asked(own, what, d) == IF \E x \in Cnxn : own = <<what, x>> /\ DirOf[x] = d THEN 1 ELSE 0
Delta(x, d) == IF DirOf[x] = d THEN 1 ELSE 0

Enough(own, again, mine, n, d) ==
    OnDir(mine, d) # {} =>
        n + Cardinality(OnDir(again, d)) + Asked(own, "add", d)
            >= Cardinality(OnDir(mine, d)) + Asked(own, "remove", d)

LEMMA AskedOf ==
  ASSUME NEW d
  PROVE  /\ \A what : Asked(<<>>, what, d) = 0 /\ Asked(<<"read">>, what, d) = 0
         /\ \A x \in Cnxn : /\ Asked(<<"add", x>>, "add", d) = Delta(x, d)
                            /\ Asked(<<"add", x>>, "remove", d) = 0
                            /\ Asked(<<"remove", x>>, "add", d) = 0
                            /\ Asked(<<"remove", x>>, "remove", d) = Delta(x, d)
         /\ \A own, what : Asked(own, what, d) \in {0, 1}
BY DEF Asked, Delta

LEMMA OnDirIsFinite ==
  ASSUME NEW S, IsFiniteSet(S), NEW d
  PROVE  IsFiniteSet(OnDir(S, d)) /\ Cardinality(OnDir(S, d)) \in Nat
<1>1. OnDir(S, d) \subseteq S
  BY DEF OnDir
<1> QED
  BY <1>1, FS_Subset, FS_CardinalityType

LEMMA OnNone ==
  ASSUME NEW d
  PROVE  OnDir({}, d) = {} /\ Cardinality(OnDir({}, d)) = 0
<1>1. OnDir({}, d) = {}
  BY DEF OnDir
<1> QED
  BY <1>1, FS_EmptySet

LEMMA OneMore ==
  ASSUME NEW S, IsFiniteSet(S), NEW x, x \notin S, NEW d
  PROVE  Cardinality(OnDir(S \cup {x}, d)) = Cardinality(OnDir(S, d)) + Delta(x, d)
<1>1. IsFiniteSet(OnDir(S, d)) /\ Cardinality(OnDir(S, d)) \in Nat /\ x \notin OnDir(S, d)
  BY OnDirIsFinite DEF OnDir
<1>2. CASE DirOf[x] = d
  <2>1. OnDir(S \cup {x}, d) = OnDir(S, d) \cup {x}
    BY <1>2 DEF OnDir
  <2> QED
    BY <1>1, <1>2, <2>1, FS_AddElement DEF Delta
<1>3. CASE DirOf[x] # d
  <2>1. OnDir(S \cup {x}, d) = OnDir(S, d)
    BY <1>3 DEF OnDir
  <2> QED
    BY <1>1, <1>3, <2>1 DEF Delta
<1> QED
  BY <1>2, <1>3

LEMMA OneLess ==
  ASSUME NEW S, IsFiniteSet(S), NEW x \in S, NEW d
  PROVE  Cardinality(OnDir(S, d)) = Cardinality(OnDir(S \ {x}, d)) + Delta(x, d)
<1>1. IsFiniteSet(S \ {x}) /\ x \notin S \ {x}
  BY FS_RemoveElement
<1>2. PICK T : T = S \ {x}
  OBVIOUS
<1>3. S = T \cup {x}
  BY <1>2
<1> QED
  BY <1>1, <1>2, <1>3, OneMore

(* What each request and each answer does to the account. *)
LEMMA EnoughRead ==
  ASSUME NEW mine, NEW again, NEW n, NEW d
  PROVE  Enough(<<>>, again, mine, n, d) <=> Enough(<<"read">>, again, mine, n, d)
BY AskedOf DEF Enough

LEMMA EnoughAdding ==
  ASSUME NEW mine, IsFiniteSet(mine), NEW x \in Cnxn, x \notin mine, NEW n \in Nat, NEW d,
         Enough(<<>>, {}, mine, n, d)
  PROVE  Enough(<<"add", x>>, {}, mine \cup {x}, n, d)
<1>1. /\ Cardinality(OnDir(mine, d)) \in Nat /\ Cardinality(OnDir({}, d)) = 0
      /\ Cardinality(OnDir(mine \cup {x}, d)) = Cardinality(OnDir(mine, d)) + Delta(x, d)
  BY OnDirIsFinite, OnNone, OneMore
<1>2. /\ Asked(<<>>, "add", d) = 0 /\ Asked(<<>>, "remove", d) = 0
      /\ Asked(<<"add", x>>, "add", d) = Delta(x, d) /\ Asked(<<"add", x>>, "remove", d) = 0
  BY AskedOf
<1>3. Delta(x, d) \in {0, 1}
  BY DEF Delta
<1>4. n >= Cardinality(OnDir(mine, d))
  <2>1. CASE OnDir(mine, d) = {}
    BY <1>1, <2>1, FS_EmptySet
  <2>2. CASE OnDir(mine, d) # {}
    BY <1>1, <1>2, <2>2 DEF Enough
  <2> QED
    BY <2>1, <2>2
<1> QED
  BY <1>1, <1>2, <1>3, <1>4 DEF Enough

LEMMA EnoughOfLess ==
  ASSUME NEW mine, IsFiniteSet(mine), NEW x \in mine, NEW rest, rest = mine \ {x}, NEW d
  PROVE  /\ Cardinality(OnDir(mine, d)) \in Nat /\ Cardinality(OnDir(rest, d)) \in Nat
         /\ Cardinality(OnDir(mine, d)) = Cardinality(OnDir(rest, d)) + Delta(x, d)
         /\ OnDir(rest, d) # {} => OnDir(mine, d) # {}
<1>1. IsFiniteSet(rest)
  BY FS_RemoveElement
<1>2. OnDir(rest, d) # {} => OnDir(mine, d) # {}
  BY DEF OnDir
<1> QED
  BY <1>1, <1>2, OnDirIsFinite, OneLess

LEMMA EnoughForLess ==
  ASSUME NEW mine, NEW x \in Cnxn, NEW rest, NEW n \in Nat, NEW d,
         Cardinality(OnDir(mine, d)) \in Nat, Cardinality(OnDir(rest, d)) \in Nat,
         Cardinality(OnDir(mine, d)) = Cardinality(OnDir(rest, d)) + Delta(x, d),
         OnDir(rest, d) # {} => OnDir(mine, d) # {},
         Enough(<<>>, {}, mine, n, d)
  PROVE  /\ Enough(<<"remove", x>>, {}, rest, n, d)
         /\ Enough(<<>>, {}, rest, n, d)
<1>1. Cardinality(OnDir({}, d)) = 0
  BY OnNone
<1>2. /\ Asked(<<>>, "add", d) = 0 /\ Asked(<<>>, "remove", d) = 0
      /\ Asked(<<"remove", x>>, "add", d) = 0
      /\ Asked(<<"remove", x>>, "remove", d) = Delta(x, d)
  BY AskedOf
<1>3. Delta(x, d) \in {0, 1}
  BY DEF Delta
<1> QED
  BY <1>1, <1>2, <1>3 DEF Enough

LEMMA EnoughRemoving ==
  ASSUME NEW mine, IsFiniteSet(mine), NEW x \in mine, x \in Cnxn, NEW rest, rest = mine \ {x},
         NEW n \in Nat, NEW d,
         Enough(<<>>, {}, mine, n, d)
  PROVE  /\ Enough(<<"remove", x>>, {}, rest, n, d)
         /\ Enough(<<>>, {}, rest, n, d)
<1>1. /\ Cardinality(OnDir(mine, d)) \in Nat /\ Cardinality(OnDir(rest, d)) \in Nat
      /\ Cardinality(OnDir(mine, d)) = Cardinality(OnDir(rest, d)) + Delta(x, d)
      /\ OnDir(rest, d) # {} => OnDir(mine, d) # {}
  <2>1. IsFiniteSet(mine) /\ x \in mine /\ x \in Cnxn /\ rest = mine \ {x}
    OBVIOUS
  <2> QED
    BY ONLY <2>1, EnoughOfLess
<1>2. Enough(<<>>, {}, mine, n, d) /\ n \in Nat /\ x \in Cnxn
  OBVIOUS
<1> QED
  BY ONLY <1>1, <1>2, EnoughForLess

LEMMA EnoughAgain ==
  ASSUME NEW mine, IsFiniteSet(mine), NEW own, NEW n \in Nat, NEW d,
         OnDir(mine, d) # {} => Asked(own, "remove", d) = 0
  PROVE  Enough(own, mine, mine, n, d)
<1>1. Cardinality(OnDir(mine, d)) \in Nat /\ Asked(own, "add", d) \in {0, 1}
  BY OnDirIsFinite, AskedOf
<1> QED
  BY <1>1 DEF Enough

LEMMA EnoughAlone ==
  ASSUME NEW mine, NEW own, \A x \in mine : x \in Cnxn /\ own = <<"add", x>>, NEW n \in Nat, NEW d
  PROVE  Enough(own, {}, mine, n, d)
<1> SUFFICES ASSUME OnDir(mine, d) # {}
             PROVE  n + Cardinality(OnDir({}, d)) + Asked(own, "add", d)
                      >= Cardinality(OnDir(mine, d)) + Asked(own, "remove", d)
  BY DEF Enough
<1>1. PICK x \in mine : DirOf[x] = d
  BY DEF OnDir
<1>2. own = <<"add", x>> /\ x \in Cnxn
  OBVIOUS
<1>3. OnDir(mine, d) = {x}
  <2>1. \A y \in mine : y = x
    BY <1>2
  <2> QED
    BY <1>1, <2>1 DEF OnDir
<1>4. Cardinality(OnDir(mine, d)) = 1 /\ Cardinality(OnDir({}, d)) = 0
  BY <1>3, FS_Singleton, OnNone
<1>5. Asked(own, "add", d) = 1 /\ Asked(own, "remove", d) = 0
  BY <1>1, <1>2, AskedOf DEF Delta
<1> QED
  BY <1>4, <1>5

LEMMA EnoughAddedAgain ==
  ASSUME NEW mine, IsFiniteSet(mine), NEW again, IsFiniteSet(again), NEW x \in again,
         NEW own, NEW n \in Nat, NEW d,
         Enough(own, again, mine, n, d)
  PROVE  Enough(own, again \ {x}, mine, n + Delta(x, d), d)
<1>1. IsFiniteSet(again \ {x})
  BY FS_RemoveElement
<1>2. /\ Cardinality(OnDir(mine, d)) \in Nat /\ Cardinality(OnDir(again, d)) \in Nat
      /\ Cardinality(OnDir(again \ {x}, d)) \in Nat
      /\ Cardinality(OnDir(again, d)) = Cardinality(OnDir(again \ {x}, d)) + Delta(x, d)
  BY <1>1, OnDirIsFinite, OneLess
<1>3. Delta(x, d) \in {0, 1} /\ Asked(own, "add", d) \in {0, 1} /\ Asked(own, "remove", d) \in {0, 1}
  BY AskedOf DEF Delta
<1> QED
  BY <1>2, <1>3 DEF Enough

LEMMA EnoughAdded ==
  ASSUME NEW mine, IsFiniteSet(mine), NEW x \in Cnxn, NEW n \in Nat, NEW d,
         Enough(<<"add", x>>, {}, mine, n, d)
  PROVE  Enough(<<>>, {}, mine, n + Delta(x, d), d)
<1>1. Cardinality(OnDir(mine, d)) \in Nat /\ Cardinality(OnDir({}, d)) = 0
  BY OnDirIsFinite, OnNone
<1>2. /\ Asked(<<>>, "add", d) = 0 /\ Asked(<<>>, "remove", d) = 0
      /\ Asked(<<"add", x>>, "add", d) = Delta(x, d) /\ Asked(<<"add", x>>, "remove", d) = 0
  BY AskedOf
<1>3. Delta(x, d) \in {0, 1}
  BY DEF Delta
<1> QED
  BY <1>1, <1>2, <1>3 DEF Enough

LEMMA EnoughRemoved ==
  ASSUME NEW mine, IsFiniteSet(mine), NEW x \in Cnxn, NEW n \in Nat, NEW d,
         Enough(<<"remove", x>>, {}, mine, n, d)
  PROVE  Enough(<<>>, {}, mine, IF DirOf[x] = d THEN Less(n) ELSE n, d)
<1>1. Cardinality(OnDir(mine, d)) \in Nat /\ Cardinality(OnDir({}, d)) = 0
  BY OnDirIsFinite, OnNone
<1>2. /\ Asked(<<>>, "add", d) = 0 /\ Asked(<<>>, "remove", d) = 0
      /\ Asked(<<"remove", x>>, "add", d) = 0
      /\ Asked(<<"remove", x>>, "remove", d) = Delta(x, d)
  BY AskedOf
<1>3. CASE DirOf[x] = d
  BY <1>1, <1>2, <1>3 DEF Enough, Delta, Less
<1>4. CASE DirOf[x] # d
  BY <1>1, <1>2, <1>4 DEF Enough, Delta
<1> QED
  BY <1>3, <1>4

LEMMA EnoughGivenUp ==
  ASSUME NEW mine, IsFiniteSet(mine), NEW own \in OwnCall, NEW n \in Nat, NEW d,
         Enough(own, {}, mine, n, d), \A x \in Cnxn : own = <<"add", x>> => x \in mine
  PROVE  Enough(<<>>, {}, {x \in mine : own # <<"add", x>>}, n, d)
<1>1. CASE \E x \in mine : own = <<"add", x>>
  <2>1. PICK x \in mine : own = <<"add", x>>
    BY <1>1
  <2>2. PICK rest : rest = mine \ {x}
    OBVIOUS
  <2>3. {y \in mine : own # <<"add", y>>} = rest
    BY <2>1, <2>2
  <2>4. /\ Cardinality(OnDir(mine, d)) \in Nat /\ Cardinality(OnDir({}, d)) = 0
        /\ Cardinality(OnDir(rest, d)) \in Nat
        /\ Cardinality(OnDir(mine, d)) = Cardinality(OnDir(rest, d)) + Delta(x, d)
        /\ OnDir(rest, d) # {} => OnDir(mine, d) # {}
    BY <2>2, OnNone, EnoughOfLess
  <2>5. /\ Asked(<<>>, "add", d) = 0 /\ Asked(<<>>, "remove", d) = 0
        /\ Asked(own, "add", d) = Delta(x, d) /\ Asked(own, "remove", d) = 0
        /\ Delta(x, d) \in {0, 1}
    <3>1. x \in Cnxn
      BY <2>1 DEF OwnCall
    <3> QED
      BY <2>1, <3>1, AskedOf DEF Delta
  <2>6. Enough(<<>>, {}, rest, n, d)
    BY <2>4, <2>5 DEF Enough
  <2> QED
    BY <2>3, <2>6
<1>2. CASE \A x \in mine : own # <<"add", x>>
  <2>1. {x \in mine : own # <<"add", x>>} = mine
    BY <1>2
  <2>2. Cardinality(OnDir(mine, d)) \in Nat /\ Cardinality(OnDir({}, d)) = 0
    BY OnDirIsFinite, OnNone
  <2>3. Enough(<<>>, {}, mine, n, d)
    <3>1. CASE own \in {<<>>, <<"read">>}
      BY <3>1, EnoughRead
    <3>2. CASE \E x \in Cnxn : own = <<"remove", x>>
      <4>1. /\ Asked(<<>>, "add", d) = 0 /\ Asked(<<>>, "remove", d) = 0
            /\ Asked(own, "add", d) = 0 /\ Asked(own, "remove", d) \in {0, 1}
        BY <3>2, AskedOf
      <4> QED
        BY <2>2, <4>1 DEF Enough
    <3> QED
      BY <1>2, <3>1, <3>2 DEF OwnCall
  <2> QED
    BY <2>1, <2>3
<1> QED
  BY <1>1, <1>2

(***************************************************************************)
(* The invariant of Covered.  A client is outdated when it has yet to act   *)
(* on the end of a gconfd.  One that is not has its registrations, or is    *)
(* asking for them; and one that has connections knows its database or is   *)
(* about to, so that the next return of gconfd is the time to register.     *)
(***************************************************************************)
NoGaps(c) == <<c, "failed">> \notin gaps /\ <<c, "removed">> \notin gaps

Outdated(c) ==
    c \in needsReconnect \/ \E i \in 1 .. Len(inbox[c]) : inbox[c][i] # "back"

ListedEnough(c) ==
    \A d \in Dir : Enough(task[c].own, task[c].again, cnxns[c], notifications[d][c], d)

AttachedFor(c) ==
    c \in attached \/ \A x \in cnxns[c] : x \in task[c].again \/ task[c].own = <<"add", x>>

CoveredOrToBe(c) ==
    /\ IsFiniteSet(cnxns[c]) /\ IsFiniteSet(task[c].again)
    /\ \A x \in Cnxn : task[c].own = <<"add", x>> => x \in cnxns[c]
    /\ NoGaps(c) => (Outdated(c) \/ ListedEnough(c)) /\ AttachedFor(c)

CoverInv == \A c \in alive : CoveredOrToBe(c)

LEMMA IdleTask ==
  Idle.own = <<>> /\ Idle.again = {} /\ Idle.attach = FALSE
BY DEF Idle

LEMMA ReinitializeCovers ==
  ASSUME TypeOK, NEW c \in Client, NEW mine \in SUBSET Cnxn, NEW own \in OwnCall,
         cnxns'[c] = mine, IsFiniteSet(mine), UNCHANGED notifications,
         \A x \in Cnxn : own = <<"add", x>> => x \in mine,
         Reinitialize(c, mine, own)
  PROVE  CoveredOrToBe(c)'
<1>1. \A d \in Dir : notifications'[d][c] \in Nat
  BY DEF TypeOK
<1>2. CASE c \in attached
  <2>1. Continue(c, [attach |-> TRUE, again |-> mine, own |-> own])
    BY <1>2 DEF Reinitialize
  <2>2. task'[c] = [attach |-> TRUE, again |-> mine, own |-> own]
    BY <2>1, TaskType, ContinueType
  <2>3. task'[c].again = mine /\ task'[c].own = own
    BY <2>2
  <2>4. ASSUME NoGaps(c)', NEW d \in Dir
        PROVE  Enough(own, mine, mine, notifications'[d][c], d)
    <3>1. ~ TakesAnothers(mine, own)
      BY <1>2, <2>4 DEF Reinitialize, NoGaps
    <3>2. OnDir(mine, d) # {} => Asked(own, "remove", d) = 0
      BY <3>1 DEF TakesAnothers, OnDir, Asked
    <3> QED
      BY <1>1, <3>2, EnoughAgain
  <2> QED
    BY <2>3, <2>4 DEF CoveredOrToBe, ListedEnough, AttachedFor
<1>3. CASE c \notin attached
  <2>1. Continue(c, [attach |-> FALSE, again |-> {}, own |-> own])
    BY <1>3 DEF Reinitialize
  <2>2. task'[c] = [attach |-> FALSE, again |-> {}, own |-> own]
    BY <2>1, TaskType, ContinueType
  <2>3. task'[c].again = {} /\ task'[c].own = own
    BY <2>2
  <2>4. ASSUME NoGaps(c)' PROVE \A x \in mine : own = <<"add", x>>
    BY <1>3, <2>4 DEF Reinitialize, NoGaps
  <2>5. ASSUME NoGaps(c)', NEW d \in Dir
        PROVE  Enough(own, {}, mine, notifications'[d][c], d)
    BY <1>1, <2>4, <2>5, EnoughAlone
  <2> QED
    BY <2>3, <2>4, <2>5, FS_EmptySet DEF CoveredOrToBe, ListedEnough, AttachedFor
<1> QED
  BY <1>2, <1>3

(* A request that need not reconnect: one call is to be made. *)
LEMMA PlainRequest ==
  ASSUME TypeOK, NEW c \in Client, NEW mine, NEW own \in OwnCall,
         c \notin needsReconnect, EnsureDatabase(c, mine, own)
  PROVE  /\ task'[c].again = {} /\ task'[c].own = own
         /\ UNCHANGED <<needsReconnect, attached, gaps>>
<1>1. /\ Continue(c, [attach |-> FALSE, again |-> {}, own |-> own])
      /\ UNCHANGED <<needsReconnect, attached, gaps>>
  BY DEF EnsureDatabase
<1>2. task'[c] = [attach |-> FALSE, again |-> {}, own |-> own]
  BY <1>1, TaskType, ContinueType
<1> QED
  BY <1>1, <1>2

LEMMA RequestCovers ==
  ASSUME TypeOK, NEW c \in Client, CoveredOrToBe(c), Request(c)
  PROVE  CoveredOrToBe(c)'
<1>1. /\ UNCHANGED <<notifications, cnxns, inbox>> /\ task[c] = Idle
      /\ EnsureDatabase(c, cnxns[c], <<"read">>)
      /\ cnxns[c] \in SUBSET Cnxn /\ <<"read">> \in OwnCall
  BY TaskType DEF Request, registry, Free, TypeOK
<1>2. CASE c \in needsReconnect
  <2>1. Reinitialize(c, cnxns[c], <<"read">>)
    BY <1>1, <1>2 DEF EnsureDatabase
  <2> QED
    BY <1>1, <2>1, ReinitializeCovers DEF CoveredOrToBe
<1>3. CASE c \notin needsReconnect
  <2>1. /\ task'[c].again = {} /\ task'[c].own = <<"read">>
        /\ UNCHANGED <<needsReconnect, attached, gaps>>
    BY <1>1, <1>3, PlainRequest
  <2>2. ListedEnough(c) => ListedEnough(c)'
    BY <1>1, <2>1, IdleTask, EnoughRead DEF ListedEnough
  <2> QED
    BY <1>1, <2>1, <2>2, IdleTask, FS_EmptySet
       DEF CoveredOrToBe, AttachedFor, Outdated, NoGaps
<1> QED
  BY <1>2, <1>3

LEMMA NotifyAddCovers ==
  ASSUME TypeOK, NEW c \in Client, CoveredOrToBe(c), NEW x \in Cnxn, NotifyAdd(c, x)
  PROVE  CoveredOrToBe(c)'
<1> DEFINE mine == cnxns[c] \cup {x}
<1>1. /\ UNCHANGED <<notifications, inbox>> /\ task[c] = Idle
      /\ cnxns'[c] = mine /\ x \notin cnxns[c] /\ cnxns[c] \subseteq Cnxn
      /\ EnsureDatabase(c, mine, <<"add", x>>)
      /\ mine \in SUBSET Cnxn /\ <<"add", x>> \in OwnCall
  BY TaskType DEF NotifyAdd, registry, Free, TypeOK
<1>2. IsFiniteSet(cnxns[c]) /\ IsFiniteSet(mine)
  BY FS_AddElement DEF CoveredOrToBe
<1> HIDE DEF mine
<1>3. \A y \in Cnxn : <<"add", x>> = <<"add", y>> => y \in mine
  BY DEF mine
<1>4. CASE c \in needsReconnect
  <2>1. Reinitialize(c, mine, <<"add", x>>)
    BY <1>1, <1>4 DEF EnsureDatabase
  <2> QED
    BY <1>1, <1>2, <1>3, <2>1, ReinitializeCovers
<1>5. CASE c \notin needsReconnect
  <2>1. /\ task'[c].again = {} /\ task'[c].own = <<"add", x>>
        /\ UNCHANGED <<needsReconnect, attached, gaps>>
    BY <1>1, <1>5, PlainRequest
  <2>2. ASSUME ListedEnough(c), NEW d \in Dir
        PROVE  Enough(<<"add", x>>, {}, mine, notifications'[d][c], d)
    <3>1. Enough(<<>>, {}, cnxns[c], notifications[d][c], d) /\ notifications[d][c] \in Nat
      BY <1>1, <2>2, IdleTask DEF ListedEnough, TypeOK
    <3> QED
      BY <1>1, <1>2, <3>1, EnoughAdding DEF mine
  <2>3. ListedEnough(c) => ListedEnough(c)'
    BY <1>1, <2>1, <2>2 DEF ListedEnough
  <2>4. AttachedFor(c) => AttachedFor(c)'
    BY <1>1, <2>1, IdleTask DEF AttachedFor, mine
  <2> QED
    BY <1>1, <1>2, <1>3, <2>1, <2>3, <2>4, FS_EmptySet DEF CoveredOrToBe, Outdated, NoGaps
<1> QED
  BY <1>4, <1>5

LEMMA NotifyRemoveCovers ==
  ASSUME TypeOK, NEW c \in Client, CoveredOrToBe(c), NEW x \in Cnxn, NotifyRemove(c, x)
  PROVE  CoveredOrToBe(c)'
<1> PICK mine : mine = cnxns[c] \ {x}
  OBVIOUS
<1>1. /\ UNCHANGED <<notifications, inbox>> /\ task[c] = Idle
      /\ cnxns'[c] = mine /\ x \in cnxns[c] /\ cnxns[c] \subseteq Cnxn
      /\ mine \in SUBSET Cnxn /\ <<"remove", x>> \in OwnCall
  BY TaskType DEF NotifyRemove, registry, Free, TypeOK
<1>2. IsFiniteSet(cnxns[c]) /\ IsFiniteSet(mine)
  BY FS_RemoveElement, <1>1 DEF CoveredOrToBe
<1>3. ASSUME ListedEnough(c), NEW d \in Dir
      PROVE  /\ Enough(<<"remove", x>>, {}, mine, notifications'[d][c], d)
             /\ Enough(<<>>, {}, mine, notifications'[d][c], d)
  <2>1. Enough(<<>>, {}, cnxns[c], notifications[d][c], d) /\ notifications[d][c] \in Nat
    BY <1>1, <1>3, IdleTask DEF ListedEnough, TypeOK
  <2> QED
    BY <1>1, <1>2, <2>1, EnoughRemoving
<1>4. mine \subseteq cnxns[c]
  OBVIOUS
<1>5. CASE EnsureDatabase(c, mine, <<"remove", x>>)
  <2>1. \A y \in Cnxn : <<"remove", x>> = <<"add", y>> => y \in mine
    OBVIOUS
  <2>2. CASE c \in needsReconnect
    <3>1. Reinitialize(c, mine, <<"remove", x>>)
      BY <1>5, <2>2 DEF EnsureDatabase
    <3> QED
      BY <1>1, <1>2, <2>1, <3>1, ReinitializeCovers
  <2>3. CASE c \notin needsReconnect
    <3>1. /\ task'[c].again = {} /\ task'[c].own = <<"remove", x>>
          /\ UNCHANGED <<needsReconnect, attached, gaps>>
      BY <1>1, <1>5, <2>3, PlainRequest
    <3>2. ListedEnough(c) => ListedEnough(c)'
      BY <1>1, <1>3, <3>1 DEF ListedEnough
    <3>3. AttachedFor(c) => AttachedFor(c)'
      BY <1>1, <1>4, <3>1, IdleTask DEF AttachedFor
    <3> QED
      BY <1>1, <1>2, <2>1, <3>1, <3>2, <3>3, FS_EmptySet DEF CoveredOrToBe, Outdated, NoGaps
  <2> QED
    BY <2>2, <2>3
<1>6. CASE UNCHANGED <<engine, task, gaps>>
  <2>1. ListedEnough(c) => ListedEnough(c)'
    BY <1>1, <1>3, <1>6, IdleTask DEF ListedEnough
  <2>2. AttachedFor(c) => AttachedFor(c)'
    BY <1>1, <1>4, <1>6, IdleTask DEF AttachedFor, engine
  <2>3. /\ UNCHANGED <<needsReconnect, gaps, inbox>>
        /\ task'[c].own = <<>> /\ task'[c].again = {}
    BY <1>1, <1>6, IdleTask DEF engine
  <2>4. NoGaps(c)' => NoGaps(c)
    BY <2>3 DEF NoGaps
  <2>5. Outdated(c) => Outdated(c)'
    BY <2>3 DEF Outdated
  <2> QED
    BY <1>1, <1>2, <2>1, <2>2, <2>3, <2>4, <2>5, FS_EmptySet DEF CoveredOrToBe
<1> QED
  <2>1. \/ EnsureDatabase(c, cnxns'[c], <<"remove", x>>)
        \/ UNCHANGED <<engine, task, gaps>>
    BY DEF NotifyRemove
  <2> QED
    BY <1>1, <1>5, <1>6, <2>1

LEMMA UnrefCovers ==
  ASSUME TypeOK, NEW c \in Client, CoveredOrToBe(c), Unref(c)
  PROVE  CoveredOrToBe(c)'
<1>1. cnxns'[c] = {} /\ task[c] = Idle /\ UNCHANGED <<task, notifications>>
  BY DEF Unref, Free, registry, TypeOK
<1>2. ListedEnough(c)'
  BY <1>1, OnNone DEF ListedEnough, Enough
<1>3. AttachedFor(c)'
  BY <1>1 DEF AttachedFor
<1>4. task'[c].again = {} /\ task'[c].own = <<>>
  BY <1>1, IdleTask
<1>5. IsFiniteSet({}) /\ \A x : <<>> # <<"add", x>>
  BY FS_EmptySet
<1> QED
  BY <1>1, <1>2, <1>3, <1>4, <1>5 DEF CoveredOrToBe

LEMMA OutdatedTail ==
  ASSUME NEW q \in Seq(Message), q # <<>>, Head(q) = "back",
         NEW i \in 1 .. Len(q), q[i] # "back"
  PROVE  \E j \in 1 .. Len(Tail(q)) : Tail(q)[j] # "back"
<1>1. /\ Len(q) \in Nat /\ Len(Tail(q)) = Len(q) - 1 /\ q[1] = "back"
      /\ \A j \in 1 .. Len(q) - 1 : Tail(q)[j] = q[j + 1]
  BY TailOf
<1>2. i - 1 \in 1 .. Len(q) - 1 /\ (i - 1) + 1 = i
  BY <1>1
<1>3. Tail(q)[i - 1] = q[i]
  BY <1>1, <1>2
<1> QED
  BY <1>1, <1>2, <1>3

LEMMA DispatchCovers ==
  ASSUME TypeOK, NEW c \in Client, CoveredOrToBe(c), Dispatch(c)
  PROVE  CoveredOrToBe(c)'
<1> PICK q : q = inbox[c]
  OBVIOUS
<1>1. /\ q \in Seq(Message) /\ q # <<>> /\ inbox'[c] = Tail(q)
      /\ UNCHANGED <<notifications, cnxns>> /\ task[c] = Idle
      /\ cnxns[c] \in SUBSET Cnxn /\ <<>> \in OwnCall
  BY TaskType DEF Dispatch, registry, Free, TypeOK
<1>2. Head(q) \in {"gone", "back", "bye"}
  BY <1>1 DEF Message
<1>3. /\ IsFiniteSet(cnxns'[c]) /\ \A x \in Cnxn : <<>> # <<"add", x>>
      /\ IsFiniteSet({})
  BY <1>1, FS_EmptySet DEF CoveredOrToBe
<1>4. CASE Head(q) = "gone"
  <2>1. UNCHANGED <<attached, task, gaps>> /\ c \in needsReconnect'
    BY <1>4 DEF Dispatch
  <2> QED
    BY <1>1, <2>1 DEF CoveredOrToBe, Outdated, NoGaps, AttachedFor
<1>5. CASE Head(q) = "back"
  <2>1. CASE c \in needsReconnect
    <3>1. Reinitialize(c, cnxns[c], <<>>)
      BY <1>5, <2>1 DEF Dispatch
    <3> QED
      BY <1>1, <1>3, <3>1, ReinitializeCovers
  <2>2. CASE c \notin needsReconnect
    <3>1. UNCHANGED <<needsReconnect, attached, task, gaps>>
      BY <1>5, <2>2 DEF Dispatch
    <3>2. Outdated(c) => Outdated(c)'
      BY <1>1, <1>5, <2>2, OutdatedTail DEF Outdated
    <3>3. ListedEnough(c) => ListedEnough(c)'
      BY <1>1, <3>1 DEF ListedEnough
    <3> QED
      BY <1>1, <3>1, <3>2, <3>3 DEF CoveredOrToBe, NoGaps, AttachedFor
  <2> QED
    BY <2>1, <2>2
<1>6. CASE Head(q) = "bye"
  <2>1. CASE c \in attached
    <3>1. Continue(c, [Idle EXCEPT !.again = cnxns[c]])
      BY <1>6, <2>1 DEF Dispatch
    <3>2. task'[c] = [Idle EXCEPT !.again = cnxns[c]]
      BY <1>1, <3>1, TaskType, ContinueType
    <3>3. task'[c].again = cnxns[c] /\ task'[c].own = <<>>
      BY <3>2 DEF Idle
    <3>4. ASSUME NEW d \in Dir
          PROVE  Enough(<<>>, cnxns[c], cnxns[c], notifications[d][c], d)
      <4>1. notifications[d][c] \in Nat /\ IsFiniteSet(cnxns[c])
        BY DEF TypeOK, CoveredOrToBe
      <4> QED
        BY <4>1, AskedOf, EnoughAgain
    <3>5. ListedEnough(c)' /\ AttachedFor(c)'
      BY <1>1, <3>3, <3>4 DEF ListedEnough, AttachedFor
    <3> QED
      BY <1>1, <1>3, <3>3, <3>5 DEF CoveredOrToBe
  <2>2. CASE c \notin attached
    <3>1. UNCHANGED <<needsReconnect, task, gaps>>
      BY <1>6, <2>2 DEF Dispatch
    <3>2. task[c].again = {} /\ task[c].own = <<>>
      BY <1>1, IdleTask
    <3>3. ASSUME NoGaps(c)' PROVE cnxns[c] = {}
      <4>1. AttachedFor(c)
        BY <3>1, <3>3 DEF CoveredOrToBe, NoGaps
      <4> QED
        BY <2>2, <3>2, <4>1 DEF AttachedFor
    <3>4. ASSUME NoGaps(c)' PROVE ListedEnough(c)' /\ AttachedFor(c)'
      BY <1>1, <3>3, <3>4, OnNone DEF ListedEnough, Enough, AttachedFor
    <3> QED
      BY <1>1, <1>3, <3>1, <3>2, <3>4 DEF CoveredOrToBe
  <2> QED
    BY <2>1, <2>2
<1> QED
  BY <1>2, <1>4, <1>5, <1>6

LEMMA GetDatabaseCovers ==
  ASSUME TypeOK, NEW c \in Client, CoveredOrToBe(c), GetDatabase(c)
  PROVE  CoveredOrToBe(c)'
<1>1. UNCHANGED <<needsReconnect, notifications, cnxns, inbox, gaps>> /\ c \in attached'
  BY DEF GetDatabase, registry
<1>2. task'[c].again = task[c].again /\ task'[c].own = task[c].own
  <2>1. task[c] \in Task
    BY DEF TypeOK
  <2>2. task'[c] = [task[c] EXCEPT !.attach = FALSE]
    BY <2>1, TaskType, ContinueType DEF GetDatabase
  <2> QED
    BY <2>1, <2>2 DEF Task
<1>3. (ListedEnough(c) => ListedEnough(c)') /\ AttachedFor(c)'
  BY <1>1, <1>2 DEF ListedEnough, AttachedFor
<1> QED
  BY <1>1, <1>2, <1>3 DEF CoveredOrToBe, NoGaps, Outdated

LEMMA RegisterLists ==
  ASSUME TypeOK, NEW c \in Client, NEW x \in Cnxn, Register(c, x)
  PROVE  \A d \in Dir : /\ notifications[d][c] \in Nat
                        /\ notifications'[d][c] = notifications[d][c] + Delta(x, d)
<1>1. notifications' = [notifications EXCEPT ![DirOf[x]][c] = @ + 1] /\ DirOf[x] \in Dir
  BY DEF Register
<1>2. ASSUME NEW d \in Dir, DirOf[x] = d
      PROVE  notifications'[d][c] = notifications[d][c] + 1
  BY <1>1, <1>2 DEF TypeOK
<1>3. ASSUME NEW d \in Dir, DirOf[x] # d
      PROVE  notifications'[d][c] = notifications[d][c]
  BY <1>1, <1>3 DEF TypeOK
<1>4. \A d \in Dir : notifications[d][c] \in Nat
  BY DEF TypeOK
<1> QED
  BY <1>2, <1>3, <1>4 DEF Delta

LEMMA AddAgainCovers ==
  ASSUME TypeOK, NEW c \in Client, CoveredOrToBe(c), NEW x \in Cnxn, AddAgain(c, x)
  PROVE  CoveredOrToBe(c)'
<1>1. /\ UNCHANGED <<needsReconnect, attached, cnxns, inbox, gaps>> /\ c \in attached
      /\ Register(c, x) /\ x \in task[c].again
  BY DEF AddAgain, Serves, engine
<1>2. PICK t : t = task[c]
  OBVIOUS
<1>3. t \in Task
  BY <1>2 DEF TypeOK
<1>4. task'[c].again = t.again \ {x} /\ task'[c].own = t.own
  <2>1. task'[c] = [t EXCEPT !.again = @ \ {x}]
    BY <1>2, <1>3, TaskType, ContinueType DEF AddAgain
  <2> QED
    BY <1>3, <2>1 DEF Task
<1>5. IsFiniteSet(cnxns[c]) /\ IsFiniteSet(t.again) /\ IsFiniteSet(t.again \ {x})
  BY <1>1, <1>2, FS_RemoveElement DEF CoveredOrToBe
<1>6. ASSUME ListedEnough(c) PROVE ListedEnough(c)'
  <2>1. ASSUME NEW d \in Dir
        PROVE  Enough(t.own, t.again \ {x}, cnxns[c], notifications[d][c] + Delta(x, d), d)
    <3>1. Enough(t.own, t.again, cnxns[c], notifications[d][c], d) /\ notifications[d][c] \in Nat
      BY <1>1, <1>2, <1>6, RegisterLists DEF ListedEnough
    <3> QED
      BY <1>1, <1>2, <1>5, <3>1, EnoughAddedAgain
  <2> QED
    BY <1>1, <1>4, <2>1, RegisterLists DEF ListedEnough
<1> QED
  BY <1>1, <1>2, <1>4, <1>5, <1>6 DEF CoveredOrToBe, NoGaps, Outdated, AttachedFor

(* The call a client was asked for is answered: nothing is left to do. *)
LEMMA AnsweredCovers ==
  ASSUME TypeOK, NEW c \in Client, CoveredOrToBe(c), Continue(c, Idle),
         UNCHANGED <<needsReconnect, attached, cnxns, inbox, gaps>>, c \in attached,
         ListedEnough(c) => ListedEnough(c)'
  PROVE  CoveredOrToBe(c)'
<1>1. task'[c].again = {} /\ task'[c].own = <<>>
  BY TaskType, ContinueType, IdleTask
<1>2. IsFiniteSet({}) /\ \A x : <<>> # <<"add", x>>
  BY FS_EmptySet
<1> QED
  BY <1>1, <1>2 DEF CoveredOrToBe, NoGaps, Outdated, AttachedFor

LEMMA OwnCovers ==
  ASSUME TypeOK, NEW c \in Client, CoveredOrToBe(c), NEW x \in Cnxn,
         AddOwn(c, x) \/ RemoveOwn(c, x) \/ ReadOwn(c)
  PROVE  CoveredOrToBe(c)'
<1>1. /\ UNCHANGED <<needsReconnect, attached, cnxns, inbox, gaps>> /\ c \in attached
      /\ Continue(c, Idle) /\ task[c].again = {} /\ IsFiniteSet(cnxns[c])
  BY DEF AddOwn, RemoveOwn, ReadOwn, Own, Serves, engine, CoveredOrToBe
<1>2. task'[c].again = {} /\ task'[c].own = <<>>
  BY <1>1, TaskType, ContinueType, IdleTask
<1>3. \A d \in Dir : notifications[d][c] \in Nat
  BY DEF TypeOK
<1>4. ASSUME AddOwn(c, x), ListedEnough(c) PROVE ListedEnough(c)'
  <2>1. task[c].own = <<"add", x>> /\ Register(c, x)
    BY <1>4 DEF AddOwn, Own
  <2>2. \A d \in Dir : notifications'[d][c] = notifications[d][c] + Delta(x, d)
    BY <2>1, RegisterLists
  <2>3. ASSUME NEW d \in Dir
        PROVE  Enough(<<>>, {}, cnxns[c], notifications[d][c] + Delta(x, d), d)
    <3>1. Enough(<<"add", x>>, {}, cnxns[c], notifications[d][c], d)
      BY <1>1, <1>4, <2>1 DEF ListedEnough
    <3> QED
      BY <1>1, <1>3, <3>1, EnoughAdded
  <2> QED
    BY <1>1, <1>2, <2>2, <2>3 DEF ListedEnough
<1>5. ASSUME RemoveOwn(c, x), ListedEnough(c) PROVE ListedEnough(c)'
  <2>1. task[c].own = <<"remove", x>>
    BY <1>5 DEF RemoveOwn, Own
  <2>2. ASSUME NEW d \in Dir
        PROVE  notifications'[d][c] = IF DirOf[x] = d THEN Less(notifications[d][c])
                                      ELSE notifications[d][c]
    <3>1. notifications' = [notifications EXCEPT ![DirOf[x]][c] = Less(@)]
      BY <1>5 DEF RemoveOwn
    <3>2. CASE DirOf[x] = d
      BY <3>1, <3>2 DEF TypeOK
    <3>3. CASE DirOf[x] # d
      BY <3>1, <3>3 DEF TypeOK
    <3> QED
      BY <3>2, <3>3
  <2>3. ASSUME NEW d \in Dir
        PROVE  Enough(<<>>, {}, cnxns[c], notifications'[d][c], d)
    <3>1. Enough(<<"remove", x>>, {}, cnxns[c], notifications[d][c], d)
      BY <1>1, <1>5, <2>1 DEF ListedEnough
    <3>2. Enough(<<>>, {}, cnxns[c], IF DirOf[x] = d THEN Less(notifications[d][c])
                                     ELSE notifications[d][c], d)
      BY <1>1, <1>3, <3>1, EnoughRemoved
    <3> QED
      BY <2>2, <3>2
  <2> QED
    BY <1>1, <1>2, <2>3 DEF ListedEnough
<1>6. ASSUME ReadOwn(c), ListedEnough(c) PROVE ListedEnough(c)'
  <2>1. task[c].own = <<"read">> /\ UNCHANGED notifications
    BY <1>6 DEF ReadOwn, Own, registry
  <2> QED
    BY <1>1, <1>2, <1>6, <2>1, EnoughRead DEF ListedEnough
<1> QED
  BY <1>1, <1>4, <1>5, <1>6, AnsweredCovers

LEMMA CallFailsCovers ==
  ASSUME TypeOK, NEW c \in Client, CoveredOrToBe(c), CallFails(c)
  PROVE  CoveredOrToBe(c)'
<1>1. PICK t : t = task[c]
  OBVIOUS
<1>2. /\ UNCHANGED <<needsReconnect, attached, notifications, inbox>>
      /\ t \in Task /\ IsFiniteSet(cnxns[c]) /\ cnxns[c] \subseteq Cnxn /\ IsFiniteSet(t.again)
      /\ \A x \in Cnxn : t.own = <<"add", x>> => x \in cnxns[c]
  BY <1>1 DEF CallFails, registry, engine, TypeOK, CoveredOrToBe
<1>3. CASE Continue(c, [t EXCEPT !.attach = FALSE]) /\ UNCHANGED <<cnxns, gaps>>
  <2>1. task'[c] = [t EXCEPT !.attach = FALSE]
    BY <1>2, <1>3, TaskType, ContinueType
  <2>2. task'[c].again = t.again /\ task'[c].own = t.own
    BY <1>2, <2>1 DEF Task
  <2>3. (ListedEnough(c) => ListedEnough(c)') /\ (AttachedFor(c) => AttachedFor(c)')
    BY <1>1, <1>2, <1>3, <2>2 DEF ListedEnough, AttachedFor
  <2> QED
    BY <1>1, <1>2, <1>3, <2>2, <2>3 DEF CoveredOrToBe, NoGaps, Outdated
<1>4. ASSUME NEW x \in t.again, Continue(c, [t EXCEPT !.again = @ \ {x}]),
             <<c, "failed">> \in gaps', UNCHANGED cnxns
      PROVE  CoveredOrToBe(c)'
  <2>1. task'[c] = [t EXCEPT !.again = @ \ {x}]
    BY <1>2, <1>4, TaskType, ContinueType
  <2>2. task'[c].again = t.again \ {x} /\ task'[c].own = t.own
    BY <1>2, <2>1 DEF Task
  <2>3. IsFiniteSet(t.again \ {x})
    BY <1>2, FS_RemoveElement
  <2> QED
    BY <1>2, <1>4, <2>2, <2>3 DEF CoveredOrToBe, NoGaps
<1>5. CASE /\ t.again = {} /\ Continue(c, Idle) /\ UNCHANGED gaps
           /\ cnxns' = [cnxns EXCEPT ![c] = {x \in @ : t.own # <<"add", x>>}]
  <2>1. PICK left : left = {x \in cnxns[c] : t.own # <<"add", x>>}
    OBVIOUS
  <2>2. cnxns'[c] = left
    BY <1>5, <2>1 DEF TypeOK
  <2>3. task'[c].again = {} /\ task'[c].own = <<>>
    BY <1>5, TaskType, ContinueType, IdleTask
  <2>4. IsFiniteSet(left) /\ IsFiniteSet({}) /\ \A x : <<>> # <<"add", x>>
    <3>1. left \subseteq cnxns[c]
      BY <2>1
    <3> QED
      BY <1>2, <3>1, FS_Subset, FS_EmptySet
  <2>5. ASSUME ListedEnough(c) PROVE ListedEnough(c)'
    <3>1. ASSUME NEW d \in Dir PROVE Enough(<<>>, {}, left, notifications[d][c], d)
      <4>1. Enough(t.own, {}, cnxns[c], notifications[d][c], d)
        BY <1>1, <1>5, <2>5 DEF ListedEnough
      <4>2. notifications[d][c] \in Nat /\ t.own \in OwnCall
        BY <1>2 DEF TypeOK, Task
      <4> QED
        BY <1>2, <2>1, <4>1, <4>2, EnoughGivenUp
    <3> QED
      BY <1>2, <2>2, <2>3, <3>1 DEF ListedEnough
  <2>6. ASSUME AttachedFor(c) PROVE AttachedFor(c)'
    <3>1. c \in attached \/ left = {}
      BY <1>1, <1>5, <2>1, <2>6 DEF AttachedFor
    <3> QED
      BY <1>2, <2>2, <3>1 DEF AttachedFor
  <2> QED
    BY <1>2, <1>5, <2>2, <2>3, <2>4, <2>5, <2>6 DEF CoveredOrToBe, NoGaps, Outdated
<1> QED
  BY <1>1, <1>3, <1>4, <1>5 DEF CallFails

LEMMA StepCovers ==
  ASSUME TypeOK, CoverInv, NEW c \in Client, Step(c)
  PROVE  CoverInv'
<1>1. ASSUME NEW e \in alive', e # c PROVE CoveredOrToBe(e)'
  <2>1. e \in Client
    BY NextType DEF Next, TypeOK
  <2>2. Untouched(e) /\ ListsUntouched(e) /\ e \in alive
    BY <1>1, <2>1, StepTouchesOne, StepTouchesOneList DEF Untouched
  <2>3. CoveredOrToBe(e)
    BY <2>2 DEF CoverInv
  <2>4. /\ Outdated(e)' <=> Outdated(e)
        /\ NoGaps(e)' <=> NoGaps(e)
        /\ AttachedFor(e)' <=> AttachedFor(e)
        /\ ListedEnough(e)' <=> ListedEnough(e)
    BY <2>2 DEF Untouched, ListsUntouched, Outdated, NoGaps, AttachedFor, ListedEnough
  <2> QED
    BY <2>2, <2>3, <2>4 DEF Untouched, ListsUntouched, CoveredOrToBe
<1>2. ASSUME c \in alive' PROVE CoveredOrToBe(c)'
  <2>1. c \in alive /\ ~ Die(c)
    <3>1. ~ Die(c)
      BY <1>2 DEF Die
    <3>2. UNCHANGED alive
      BY <3>1 DEF Step, Request, NotifyAdd, NotifyRemove, Unref, Dispatch, HandleDeparture,
         GetDatabase, ReadOwn, CallFails, AddAgain, AddOwn, RemoveOwn
    <3> QED
      BY <1>2, <3>1, <3>2
  <2>2. CoveredOrToBe(c)
    BY <2>1 DEF CoverInv
  <2>3. ~ HandleDeparture(c)
    BY <2>1 DEF HandleDeparture, TypeOK
  <2>4. ASSUME NEW x \in Cnxn, \/ NotifyAdd(c, x) \/ NotifyRemove(c, x)
                               \/ AddAgain(c, x) \/ AddOwn(c, x) \/ RemoveOwn(c, x)
        PROVE  CoveredOrToBe(c)'
    BY <2>2, <2>4, NotifyAddCovers, NotifyRemoveCovers, AddAgainCovers, OwnCovers
  <2>5. CASE ReadOwn(c)
    <3>1. c \in attached /\ ListedEnough(c) => ListedEnough(c)'
      <4>1. /\ task[c].own = <<"read">> /\ task[c].again = {} /\ UNCHANGED <<notifications, cnxns>>
            /\ Continue(c, Idle)
        BY <2>5 DEF ReadOwn, Own, registry
      <4>2. task'[c].again = {} /\ task'[c].own = <<>>
        BY <4>1, TaskType, ContinueType, IdleTask
      <4> QED
        BY <4>1, <4>2, EnoughRead DEF ListedEnough
    <3> QED
      BY <2>2, <2>5, <3>1, AnsweredCovers DEF ReadOwn, Own, Serves, engine
  <2> QED
    BY <1>2, <2>1, <2>2, <2>3, <2>4, <2>5, RequestCovers, UnrefCovers, DispatchCovers,
       GetDatabaseCovers, CallFailsCovers DEF Step
<1> QED
  BY <1>1, <1>2 DEF CoverInv

LEMMA DaemonCovers ==
  ASSUME TypeOK, CoverInv, Activate \/ Shutdown \/ Exit
  PROVE  CoverInv'
<1> SUFFICES ASSUME NEW c \in alive PROVE CoveredOrToBe(c)'
  BY DEF Activate, Shutdown, Exit, CoverInv
<1>1. /\ c \in Client /\ inbox[c] \in Seq(Message) /\ CoveredOrToBe(c)
      /\ UNCHANGED <<needsReconnect, attached, cnxns, gaps>> /\ task'[c] = task[c]
  BY DEF TypeOK, CoverInv, Activate, Shutdown, Exit, engine
<1>2. AttachedFor(c) => AttachedFor(c)'
  BY <1>1 DEF AttachedFor
<1>3. CASE Activate
  <2>1. inbox'[c] = Append(inbox[c], "back") /\ UNCHANGED notifications
    BY <1>1, <1>3 DEF Activate, Tell, registry
  <2>2. Outdated(c) => Outdated(c)'
    <3>1. "back" \in Message
      BY DEF Message
    <3>2. /\ Len(inbox'[c]) = Len(inbox[c]) + 1 /\ Len(inbox[c]) \in Nat
          /\ \A i \in 1 .. Len(inbox[c]) : inbox'[c][i] = inbox[c][i]
      BY <1>1, <2>1, <3>1, AppendProperties, LenProperties
    <3> QED
      BY <1>1, <3>2 DEF Outdated
  <2>3. ListedEnough(c) => ListedEnough(c)'
    BY <1>1, <2>1 DEF ListedEnough
  <2> QED
    BY <1>1, <1>2, <2>2, <2>3 DEF CoveredOrToBe, NoGaps
<1>4. CASE Shutdown \/ Exit
  <2>1. PICK m \in {"bye", "gone"} : inbox'[c] = Append(inbox[c], m)
    BY <1>1, <1>4 DEF Shutdown, Exit, Tell
  <2>2. Outdated(c)'
    <3>1. m \in Message
      BY DEF Message
    <3>2. /\ Len(inbox'[c]) = Len(inbox[c]) + 1 /\ Len(inbox[c]) \in Nat
          /\ inbox'[c][Len(inbox[c]) + 1] = m
      BY <1>1, <2>1, <3>1, AppendProperties, LenProperties
    <3>3. Len(inbox[c]) + 1 \in 1 .. Len(inbox'[c])
      BY <3>2
    <3> QED
      BY <3>2, <3>3 DEF Outdated
  <2> QED
    BY <1>1, <1>2, <2>2 DEF CoveredOrToBe, NoGaps
<1> QED
  BY <1>3, <1>4

LEMMA SettledIsCovered ==
  ASSUME TypeOK, SignalsInv, CoverInv
  PROVE  Covered
<1> SUFFICES ASSUME NEW c \in Client, Settled(c), NoGaps(c), NEW d \in Dir
             PROVE  notifications[d][c] >= Cardinality(On(c, d))
  BY DEF Covered, Registered, NoGaps
<1>1. c \in alive /\ task[c] = Idle /\ inbox[c] = <<>> /\ daemon = "up"
  BY DEF Settled, Free
<1>2. ~ Outdated(c)
  BY <1>1 DEF SignalsInv, QueueInStep, HasBack, Outdated
<1>3. CoveredOrToBe(c) /\ ListedEnough(c)
  BY <1>1, <1>2 DEF CoverInv, CoveredOrToBe
<1>4. Enough(<<>>, {}, cnxns[c], notifications[d][c], d)
  BY <1>1, <1>3, IdleTask DEF ListedEnough
<1>5. /\ On(c, d) = OnDir(cnxns[c], d) /\ notifications[d][c] \in Nat
      /\ Cardinality(OnDir({}, d)) = 0
      /\ Asked(<<>>, "add", d) = 0 /\ Asked(<<>>, "remove", d) = 0
      /\ Cardinality(OnDir(cnxns[c], d)) \in Nat
  <2>1. On(c, d) = OnDir(cnxns[c], d)
    BY DEF On, OnDir
  <2>2. notifications[d][c] \in Nat
    BY DEF TypeOK
  <2>3. Cardinality(OnDir({}, d)) = 0
    BY ONLY OnNone
  <2>4. Asked(<<>>, "add", d) = 0 /\ Asked(<<>>, "remove", d) = 0
    BY ONLY AskedOf
  <2>5. Cardinality(OnDir(cnxns[c], d)) \in Nat
    <3>1. IsFiniteSet(cnxns[c])
      BY <1>3 DEF CoveredOrToBe
    <3> QED
      BY ONLY <3>1, OnDirIsFinite
  <2> QED
    BY ONLY <2>1, <2>2, <2>3, <2>4, <2>5
<1>6. OnDir(cnxns[c], d) = {} => Cardinality(OnDir(cnxns[c], d)) = 0
  BY FS_EmptySet
<1> QED
  BY ONLY <1>4, <1>5, <1>6 DEF Enough

(***************************************************************************)
(* A client that has nothing left to do is registered for each of its       *)
(* connections with the gconfd that runs, however many came and went, but    *)
(* for the two known gaps.                                                  *)
(***************************************************************************)
THEOREM CoveredAlways == Spec => []Covered
<1>1. Init => CoverInv
  <2> SUFFICES ASSUME Init, NEW c \in alive PROVE CoveredOrToBe(c)
    BY DEF CoverInv
  <2>1. cnxns[c] = {} /\ task[c] = Idle
    BY DEF Init
  <2>2. ListedEnough(c) /\ AttachedFor(c)
    BY <2>1, OnNone DEF ListedEnough, Enough, AttachedFor
  <2>3. IsFiniteSet({}) /\ \A x : <<>> # <<"add", x>>
    BY FS_EmptySet
  <2> QED
    BY <2>1, <2>2, <2>3, IdleTask DEF CoveredOrToBe
<1>2. TypeOK /\ CoverInv /\ [Next]_vars => CoverInv'
  <2> SUFFICES ASSUME TypeOK, CoverInv, [Next]_vars PROVE CoverInv'
    OBVIOUS
  <2>1. CASE UNCHANGED vars
    BY <2>1 DEF vars, registry, engine, CoverInv, CoveredOrToBe, NoGaps, Outdated,
                ListedEnough, AttachedFor
  <2> QED
    BY <2>1, DaemonCovers, StepCovers DEF Next
<1> QED
  BY <1>1, <1>2, QueuesInStep, SettledIsCovered, TypeCorrect, PTL DEF Spec
=============================================================================
