------------------------------ MODULE Defaults ------------------------------
(***************************************************************************)
(* The defaults mechanism: a helper on the system bus, started on demand,   *)
(* that copies keys of its caller to the system or the mandatory storage    *)
(* once PolicyKit agrees (gconf-defaults.c, gconf_client_commit_change_set), *)
(* and the caller's gconfd, which reads those storages and hears SystemSet   *)
(* (gconfd.c).                                                             *)
(*                                                                         *)
(* The callers are programs of one user.  A storage is one file: mandatory  *)
(* is looked up before the user's own, system after it.                     *)
(***************************************************************************)
EXTENDS KeySpace, Sequences, Integers

CONSTANTS
  Callers,
  Key,          \* the paths that are keys
  Value,
  None,         \* no value
  NotLoaded,    \* a storage gconfd has not read
  NotAsked,     \* a key the client never asked for
  Starts,       \* Starts[p]: the paths whose text begins with that of p
  Annotated,    \* the paths named in the annotation of some PolicyKit action
  Requests,     \* the calls that are made
  Initially,    \* the user's values at the start
  UserChanges,  \* the keys and values the user sets
  MaxCalls,     \* bound: calls made
  MaxSets       \* bound: values the user sets

Storages == {"mandatory", "system"}
Values == Value \cup {None}

ASSUME DefaultsAssumption ==
  /\ Key \subseteq Path \ {Root}
  /\ None \notin Value
  /\ NotLoaded \notin [Key -> Values]
  /\ NotAsked \notin Values
  /\ Starts \in [Path -> SUBSET Path]
  /\ \A p \in Path : Subtree(p) \subseteq Starts[p]
  /\ Annotated \subseteq Path
  /\ Initially \in [Key -> Values]
  /\ Requests \subseteq [does : {"copy", "value", "check", "unset"}, db : Storages,
                         includes : SUBSET Path \ {{}}, excludes : SUBSET Path, value : Values]
  /\ UserChanges \subseteq Key \X Value
  /\ MaxCalls \in Nat /\ MaxSets \in Nat

VARIABLES
  helper,     \* the helper runs, or not
  timer,      \* its kill timer is set
  operations, \* operations
  calls,      \* of each caller, its call
  busy,       \* the copy the helper is in the middle of, or Idle
  made,       \* calls made
  stored,     \* the files of the two storages
  mine,       \* the user's own values as gconfd has them
  saved,      \* the file of those
  sets,       \* values the user set
  cached,     \* what gconfd has read of the two storages
  signals,    \* SystemSet signals on their way to gconfd: sets of keys
  known       \* what the client last heard of each key

helperVars == <<helper, timer, operations, busy>>
userVars == <<mine, saved, sets>>
gconfdVars == <<cached, known>>
vars == <<helper, timer, operations, calls, busy, made, stored, mine, saved, sets,
          cached, signals, known>>

Free == [stage |-> "free"]
Idle == [copying |-> FALSE]

InStage(S) == {c \in Callers : calls[c].stage \in S}
(* the calls start_operation counted, and those not answered yet            *)
Taken == InStage({"listing", "asking", "copied"})
Waiting == Taken \cup InStage({"sent"})

(***************************************************************************)
(* polkit_action_for_gconf_path: the longest annotated prefix of the path;  *)
(* the walk upwards ends before the root.  Root stands for the default      *)
(* action when nothing else is found.                                      *)
(***************************************************************************)
ActionFor(p) ==
  LET found == Annotated \cap ((Up[p] \ {Root}) \cup {p})
  IN IF found = {} THEN "default" ELSE CHOOSE q \in found : found \subseteq Up[q]

(* copy_tree and copy_entry over the includes: the keys the user has saved   *)
(* at or below one, unless their text begins with an exclude.               *)
Changes(q) ==
  LET keys == {k \in Key : /\ saved[k] # None
                           /\ \E i \in q.includes : k \in Subtree(i)
                           /\ \A e \in q.excludes : k \notin Starts[e]}
  IN IF q.does = "value" THEN [k \in q.includes |-> q.value] ELSE [k \in keys |-> saved[k]]

(* The answer to c's call; nobody hears it when the caller is gone.          *)
Answered(c, outcome) ==
  IF calls[c].gone THEN Free ELSE [stage |-> "done", outcome |-> outcome]

(* Mutant of Ends: an operation that ends sets no timer.                    *)
EndsUntimed(c, outcome) ==
  /\ calls' = [calls EXCEPT ![c] = Answered(c, outcome)]
  /\ operations' = operations - 1
  /\ UNCHANGED timer

(* A call is answered and stop_operation called.                            *)
Ends(c, outcome) ==
  /\ calls' = [calls EXCEPT ![c] = Answered(c, outcome)]
  /\ operations' = operations - 1
  /\ timer' = (operations = 1 \/ timer)

(* The helper's process ends: the bus tells every caller it owes an answer.  *)
HelperEnds ==
  /\ helper' = "off"
  /\ timer' = FALSE
  /\ operations' = 0
  /\ calls' = [c \in Callers |->
       IF c \in Waiting \cup InStage({"mute"}) THEN Answered(c, "no reply") ELSE calls[c]]
  /\ UNCHANGED <<busy, made, stored, signals, userVars, gconfdVars>>

-----------------------------------------------------------------------------
Init ==
  /\ helper = "off" /\ timer = FALSE /\ operations = 0
  /\ calls = [c \in Callers |-> Free]
  /\ busy = Idle
  /\ made = 0
  /\ stored = [s \in Storages |-> [k \in Key |-> None]]
  /\ mine = Initially /\ saved = Initially
  /\ sets = 0
  /\ cached = [s \in Storages |-> NotLoaded]
  /\ signals = <<>>
  /\ known = [k \in Key |-> NotAsked]

(* A program makes a call and waits.                                        *)
Call(c, q) ==
  /\ calls[c].stage \in {"free", "done"}
  /\ made < MaxCalls
  /\ made' = made + 1
  /\ calls' = [calls EXCEPT ![c] =
       [stage |-> "sent", request |-> q, todo |-> {}, challenge |-> FALSE,
        gone |-> FALSE]]
  /\ UNCHANGED <<helperVars, stored, signals, userVars, gconfdVars>>

(* ... or ends without waiting for the answer.                              *)
Leave(c) ==
  /\ c \in Waiting
  /\ ~calls[c].gone
  /\ calls' = [calls EXCEPT ![c].gone = TRUE]
  /\ UNCHANGED <<helperVars, made, stored, signals, userVars, gconfdVars>>

(* The bus starts the helper for a call; register_mechanism sets the timer.  *)
Activate ==
  /\ helper = "off"
  /\ InStage({"sent"}) # {}
  /\ helper' = "on" /\ timer' = TRUE /\ operations' = 0
  /\ UNCHANGED <<calls, busy, made, stored, signals, userVars, gconfdVars>>

(* do_exit, also with a call in the queue.                                  *)
TimerFires ==
  /\ helper = "on" /\ timer /\ busy = Idle
  /\ HelperEnds

(* do_copy, do_check and gconf_defaults_unset_mandatory: start_operation,    *)
(* and the actions are asked for.  A value that gconf_value_decode refuses   *)
(* ends the handler: no operation, and no answer.                           *)
Handle(c) ==
  LET q == calls[c].request
      mute == q.does = "value" /\ q.value = None
  IN
  /\ helper = "on" /\ busy = Idle
  /\ calls[c].stage = "sent"
  /\ calls' = [calls EXCEPT ![c].stage = IF mute THEN "mute" ELSE "listing"]
  /\ operations' = IF mute THEN operations ELSE operations + 1
  /\ timer' = (timer /\ (mute \/ operations # 0))
  /\ UNCHANGED <<helper, busy, made, stored, signals, userVars, gconfdVars>>

(* actions_ready_cb: with an error the call fails ...                       *)
ListingFails(c) ==
  /\ busy = Idle
  /\ calls[c].stage = "listing"
  /\ Ends(c, "failed")
  /\ UNCHANGED <<helper, busy, made, stored, signals, userVars, gconfdVars>>

(* ... else the actions of the includes are found and the first is asked     *)
(* about ...                                                               *)
Listed(c) ==
  /\ busy = Idle
  /\ calls[c].stage = "listing"
  /\ calls[c].request.does # "unset"
  /\ calls' = [calls EXCEPT ![c].stage = "asking",
                            ![c].todo = {ActionFor(i) : i \in calls[c].request.includes}]
  /\ UNCHANGED <<helperVars, made, stored, signals, userVars, gconfdVars>>

(* ... but for UnsetMandatory, which never filled in what to do with them:   *)
(* a call of a NULL function, and the process ends.                         *)
ListedForUnset(c) ==
  /\ busy = Idle
  /\ calls[c].stage = "listing"
  /\ calls[c].request.does = "unset"
  /\ HelperEnds

(* PolicyKit agrees to the action a and there are more: the next is asked.   *)
(* A check goes on when it only would have to ask the user.                 *)
Agrees(c, a, challenge) ==
  /\ busy = Idle
  /\ calls[c].stage = "asking"
  /\ a \in calls[c].todo /\ calls[c].todo # {a}
  /\ challenge => calls[c].request.does = "check"
  /\ calls' = [calls EXCEPT ![c].todo = @ \ {a}, ![c].challenge = @ \/ challenge]
  /\ UNCHANGED <<helperVars, made, stored, signals, userVars, gconfdVars>>

(* check_authorization_only_callback: 1 when the user would be asked, 2 when *)
(* not.                                                                    *)
CheckAgrees(c, a, challenge) ==
  /\ busy = Idle
  /\ calls[c].stage = "asking"
  /\ calls[c].todo = {a}
  /\ calls[c].request.does = "check"
  /\ Ends(c, IF challenge \/ calls[c].challenge THEN "1" ELSE "2")
  /\ UNCHANGED <<helper, busy, made, stored, signals, userVars, gconfdVars>>

(* PolicyKit does not agree, cannot without asking, or fails: the call ends. *)
Refuses(c) ==
  /\ busy = Idle
  /\ calls[c].stage = "asking"
  /\ \E o \in (IF calls[c].request.does = "check" THEN {"0", "refused"} ELSE {"refused"}) :
       Ends(c, o)
  /\ UNCHANGED <<helper, busy, made, stored, signals, userVars, gconfdVars>>

(* Mutant of CopiesInto: the storage is mistaken.                           *)
MandatoryInto(q) == "mandatory"

CopiesInto(q) == q.db

(* gconf_client_commit_change_set went through the changes up to done.      *)
Committed(old, changes, done) == [k \in Key |-> IF k \in done THEN changes[k] ELSE old[k]]

(***************************************************************************)
(* do_copy_authorized, after the last action was agreed to: the change set   *)
(* is built from the user's file and committed to the storage, up to the     *)
(* first key that fails; then it is synced, and an error of that is dropped. *)
(***************************************************************************)
Copy(c) ==
  LET q == calls[c].request
      changes == Changes(q)
      db == CopiesInto(q)
  IN
  /\ busy = Idle
  /\ calls[c].stage = "asking" /\ Cardinality(calls[c].todo) = 1
  /\ q.does # "check"
  /\ ~calls[c].gone
  /\ \E done \in SUBSET DOMAIN changes, synced \in BOOLEAN :
       /\ stored' = IF ~synced THEN stored
                    ELSE [stored EXCEPT ![db] = Committed(@, changes, done)]
       /\ busy' = [copying |-> TRUE, synced |-> synced, keys |-> DOMAIN changes, db |-> db,
                   outcome |-> IF done = DOMAIN changes THEN "ok" ELSE "failed"]
  /\ calls' = [calls EXCEPT ![c].stage = "copied", ![c].todo = {}]
  /\ UNCHANGED <<helper, timer, operations, made, signals, userVars, gconfdVars>>

(* The storage cannot be opened, or the bus no longer knows the caller.      *)
CopyFails(c) ==
  /\ busy = Idle
  /\ calls[c].stage = "asking" /\ Cardinality(calls[c].todo) = 1
  /\ calls[c].request.does # "check"
  /\ Ends(c, "failed")
  /\ UNCHANGED <<helper, busy, made, stored, signals, userVars, gconfdVars>>

(* set_system_changes: the keys of the whole change set.                    *)
Announced == IF busy.db = "system" THEN {busy.keys} ELSE {}

(* The rest of do_copy_authorized: the signal and the answer.               *)
FinishCopy(c) ==
  /\ busy # Idle
  /\ calls[c].stage = "copied"
  /\ signals' = IF Announced = {} THEN signals ELSE Append(signals, busy.keys)
  /\ Ends(c, busy.outcome)
  /\ busy' = Idle
  /\ UNCHANGED <<helper, made, stored, userVars, gconfdVars>>

-----------------------------------------------------------------------------
(* What gconfd has once it looked into the storages S.                       *)
Loaded(S) == [s \in Storages |-> IF s \in S /\ cached[s] = NotLoaded THEN stored[s] ELSE cached[s]]

(* The first layer with a value: mandatory, the user's, system.             *)
Decided(mandatory, own, system) ==
  IF mandatory # None THEN mandatory ELSE IF own # None THEN own ELSE system

(* The client asks for a key; the walk for its schema goes through all.     *)
Ask(k) ==
  LET now == Loaded(Storages) IN
  /\ cached' = now
  /\ known' = [known EXCEPT ![k] = Decided(now["mandatory"][k], mine[k], now["system"][k])]
  /\ UNCHANGED <<helperVars, calls, made, stored, signals, userVars>>

(* The client sets a key, unless gconfd knows it as mandatory.              *)
UserSets(k, v) ==
  LET now == Loaded({"mandatory"}) IN
  /\ sets < MaxSets
  /\ now["mandatory"][k] = None
  /\ cached' = now
  /\ mine' = [mine EXCEPT ![k] = v]
  /\ sets' = sets + 1
  /\ known' = [known EXCEPT ![k] = IF @ = NotAsked THEN @ ELSE v]
  /\ UNCHANGED <<helperVars, calls, made, stored, signals, saved>>

(* gconfd's sync timer.                                                     *)
UserSaves ==
  /\ saved # mine
  /\ saved' = mine
  /\ UNCHANGED <<helperVars, calls, made, stored, signals, mine, sets, gconfdVars>>

(* Mutant of Forgotten: nothing is dropped from the caches.                  *)
Remembered == cached

(* gconfd_clear_cache_for_sources for the system storage.                   *)
Forgotten == [cached EXCEPT !["system"] = NotLoaded]

(* system_bus_message_handler: then gconfd_notify_other_listeners for each   *)
(* key, which looks into the layers in front of the system storage and, if   *)
(* they have nothing, into that.                                            *)
HearSystemSet ==
  LET keys == Head(signals)
      mandatory == IF keys = {} THEN cached["mandatory"] ELSE Loaded({"mandatory"})["mandatory"]
      affected == {k \in keys \cap Key : mandatory[k] = None /\ mine[k] = None}
      system == IF affected # {} /\ Forgotten["system"] = NotLoaded
                THEN stored["system"] ELSE Forgotten["system"]
  IN
  /\ signals # <<>>
  /\ signals' = Tail(signals)
  /\ cached' = [cached EXCEPT !["mandatory"] = mandatory, !["system"] = system]
  /\ known' = [k \in Key |-> IF k \in affected /\ known[k] # NotAsked THEN system[k] ELSE known[k]]
  /\ UNCHANGED <<helperVars, calls, made, stored, userVars>>

Next ==
  \/ \E c \in Callers, q \in Requests : Call(c, q)
  \/ \E c \in Callers : Leave(c)
  \/ Activate
  \/ TimerFires
  \/ \E c \in Callers : Handle(c)
  \/ \E c \in Callers : ListingFails(c)
  \/ \E c \in Callers : Listed(c)
  \/ \E c \in Callers : ListedForUnset(c)
  \/ \E c \in Callers : \E a \in Path \cup {"default"}, ch \in BOOLEAN : Agrees(c, a, ch)
  \/ \E c \in Callers : \E a \in Path \cup {"default"}, ch \in BOOLEAN : CheckAgrees(c, a, ch)
  \/ \E c \in Callers : Refuses(c)
  \/ \E c \in Callers : Copy(c)
  \/ \E c \in Callers : CopyFails(c)
  \/ \E c \in Callers : FinishCopy(c)
  \/ \E k \in Key : Ask(k)
  \/ \E kv \in UserChanges : UserSets(kv[1], kv[2])
  \/ UserSaves
  \/ HearSystemSet

(* The process and the timer run, and the bus and PolicyKit answer.          *)
Fairness ==
  /\ WF_vars(Activate)
  /\ WF_vars(TimerFires)
  /\ \A c \in Callers :
       /\ WF_vars(Handle(c))
       /\ WF_vars(ListingFails(c) \/ Listed(c) \/ ListedForUnset(c))
       /\ WF_vars(\/ \E a \in Path \cup {"default"}, ch \in BOOLEAN :
                       Agrees(c, a, ch) \/ CheckAgrees(c, a, ch)
                  \/ Refuses(c) \/ Copy(c) \/ CopyFails(c))
       /\ WF_vars(FinishCopy(c))

Spec == Init /\ [][Next]_vars /\ Fairness

-----------------------------------------------------------------------------
(* What gconfd would answer if it read the storages now.                    *)
Truth(k) == Decided(stored["mandatory"][k], mine[k], stored["system"][k])

(* A difference the helper is about to announce, or has announced.          *)
Announcing(k) ==
  \/ busy # Idle /\ k \in busy.keys
  \/ \E i \in DOMAIN signals : k \in signals[i]

(* gconfd has read the mandatory storage, and nothing tells it of a change.  *)
Unheard(k) ==
  cached["mandatory"] # NotLoaded /\ cached["mandatory"][k] # stored["mandatory"][k]

(* The helper writes a file behind gconfd's back, which keeps what it has    *)
(* read of it.  Whatever a client was told of a key is what the files and    *)
(* its own values make of it, unless the helper is about to announce the     *)
(* key, the signal is on its way, or the mandatory storage was changed under *)
(* a gconfd that has read it (SystemSet, do_copy_authorized and              *)
(* system_bus_message_handler).                                            *)
ClientsLearn ==
  \A k \in Key : known[k] \notin {NotAsked, Truth(k)} => Announcing(k) \/ Unheard(k)

(* What gconf-defaults.xml says a call sets: the key of its path, or the     *)
(* subtrees of the includes without those of the excludes.                  *)
AskedFor(q) ==
  IF q.does = "value" THEN Key \cap q.includes
  ELSE {k \in Key : /\ \E i \in q.includes : k \in Subtree(i)
                    /\ \A e \in q.excludes : k \notin Subtree(e)}

(* Skipped, though its name only begins like that of an exclude.            *)
MistakenForExcluded(q, k) == \E e \in q.excludes : k \in Starts[e] \ Subtree(e)

Due(q, k) == IF q.does = "value" THEN q.value ELSE mine[k]

(* A copy changes nothing but the keys that were asked for in the storage it *)
(* is for, and those only to the user's values; when it will be answered     *)
(* with success all of them are there, but for the known gaps: values gconfd *)
(* has not saved yet, a key mistaken for an excluded one, and a sync whose   *)
(* error the helper drops (do_copy_authorized, path_is_excluded).           *)
CopiesAsAsked ==
  [][\A c \in Callers :
       calls[c].stage = "asking" /\ calls'[c].stage = "copied" =>
         LET q == calls[c].request
             old == stored[q.db]
             new == stored'[q.db]
             current(k) == q.does = "value" \/ saved[k] = mine[k]
         IN
         /\ \A s \in Storages \ {q.db} : stored'[s] = stored[s]
         /\ \A k \in Key : new[k] # old[k] =>
              k \in AskedFor(q) /\ new[k] # None /\ (current(k) => new[k] = Due(q, k))
         /\ busy'.outcome = "ok" =>
              \A k \in AskedFor(q) :
                \/ new[k] = Due(q, k)
                \/ Due(q, k) = None
                \/ ~current(k) \/ MistakenForExcluded(q, k) \/ ~busy'.synced]_vars

(* Every call comes to an end, answered by the helper or, when that is gone, *)
(* by the bus; a helper with no call in progress exits; and it never exits   *)
(* under a call it has taken, unless an UnsetMandatory kills it              *)
(* (start_operation, stop_operation, do_exit, actions_ready_cb).  A value    *)
(* that cannot be decoded is a known exception: it is never answered.        *)
ServesAndLeaves ==
  /\ \A c \in Callers : c \in Waiting ~> c \notin Waiting
  /\ (helper = "on" /\ Waiting = {}) ~> (helper = "off" \/ Waiting # {})
  /\ [][helper = "on" /\ helper' = "off" =>
          Taken = {} \/ \E c \in Taken : calls[c].request.does = "unset"]_vars
=============================================================================
