---------------------------- MODULE DefaultsProofs ----------------------------
(***************************************************************************)
(* Proofs about the defaults mechanism, for any set of keys, callers and    *)
(* requests, any tree of paths and any number of calls.                     *)
(***************************************************************************)
EXTENDS Defaults, SequenceTheorems, TLAPS

USE DefaultsAssumption, PathAssumption

-----------------------------------------------------------------------------
(* What the variables hold.                                                 *)
Actions == {"default"} \cup {ActionFor(p) : p \in Path}

CallOf == [stage : {"sent", "listing", "mute", "asking", "copied"}, request : Requests,
           todo : SUBSET Actions, challenge : BOOLEAN, gone : BOOLEAN]
Outcomes == {"ok", "failed", "refused", "no reply", "0", "1", "2"}
Answers == [stage : {"free"}] \cup [stage : {"done"}, outcome : Outcomes]

Contents == [Key -> Values]
CopyOf == [copying : {TRUE}, synced : BOOLEAN, keys : SUBSET Path, db : Storages,
           outcome : {"ok", "failed"}]

CallsType == calls \in [Callers -> CallOf \cup Answers]

RestType ==
  /\ busy \in {Idle} \cup CopyOf
  /\ stored \in [Storages -> Contents]
  /\ mine \in Contents /\ saved \in Contents
  /\ cached \in [Storages -> Contents \cup {NotLoaded}]
  /\ known \in [Key -> Values \cup {NotAsked}]
  /\ signals \in Seq(SUBSET Path)

(* A value that cannot be decoded is not worth a question.                  *)
Decodable(c) ==
  calls[c].stage \in {"listing", "asking"} /\ calls[c].request.does = "value" =>
    calls[c].request.value # None

ShapeInv == CallsType /\ RestType /\ \A c \in Callers : Decodable(c)

LEMMA CallFields ==
  ASSUME NEW r \in CallOf \cup Answers
  PROVE  /\ r.stage \in {"sent", "listing", "mute", "asking", "copied"} => r \in CallOf
         /\ r \in CallOf => r.request \in Requests /\ r.todo \subseteq Actions
BY DEF CallOf, Answers

LEMMA RequestFields ==
  ASSUME NEW q \in Requests
  PROVE  /\ q.does \in {"copy", "value", "check", "unset"} /\ q.db \in Storages
         /\ q.includes \subseteq Path /\ q.excludes \subseteq Path /\ q.value \in Values
OBVIOUS

LEMMA FreeIsAnswer ==
  Free \in Answers /\ \A o \in Outcomes : [stage |-> "done", outcome |-> o] \in Answers
BY DEF Free, Answers

LEMMA AnsweredType ==
  ASSUME NEW c \in Callers, NEW o \in Outcomes
  PROVE  Answered(c, o) \in Answers /\ Answered(c, o).stage \in {"free", "done"}
<1>1. Answered(c, o) \in Answers
  BY FreeIsAnswer DEF Answered
<1>2. \A r \in Answers : r.stage \in {"free", "done"}
  BY DEF Answers
<1> QED
  BY <1>1, <1>2

(* A call goes on, or is answered: what it asks for stays the same.          *)
Onward(c) ==
  /\ calls' \in [Callers -> CallOf \cup Answers]
  /\ \A e \in Callers \ {c} : calls'[e] = calls[e]
  /\ calls'[c].stage \in {"listing", "asking"} =>
       /\ calls'[c].request = calls[c].request
       /\ \/ /\ calls[c].stage = "sent"
             /\ calls[c].request.does = "value" => calls[c].request.value # None
          \/ calls[c].stage \in {"listing", "asking"}
  /\ calls'[c].stage = "copied" => calls[c].stage = "copied" \/ Copy(c)

LEMMA OnwardKeeps ==
  ASSUME CallsType, \A e \in Callers : Decodable(e), NEW c \in Callers, Onward(c)
  PROVE  CallsType' /\ \A e \in Callers : Decodable(e)'
<1>1. Decodable(c)'
  BY DEF Onward, Decodable
<1>2. ASSUME NEW e \in Callers \ {c} PROVE Decodable(e)'
  BY DEF Onward, Decodable
<1> QED
  BY <1>1, <1>2 DEF Onward, CallsType

LEMMA EndsOnward ==
  ASSUME CallsType, NEW c \in Callers, NEW o \in Outcomes, Ends(c, o)
  PROVE  Onward(c)
<1>1. calls' = [calls EXCEPT ![c] = Answered(c, o)]
  BY DEF Ends
<1> QED
  BY <1>1, AnsweredType DEF CallsType, Onward

LEMMA HelperEndsCalls ==
  ASSUME CallsType, \A e \in Callers : Decodable(e), HelperEnds
  PROVE  CallsType' /\ \A e \in Callers : Decodable(e)'
<1>1. ASSUME NEW e \in Callers
      PROVE  \/ calls'[e] = calls[e]
             \/ calls'[e] \in Answers /\ calls'[e].stage \in {"free", "done"}
  <2>1. calls'[e] = calls[e] \/ calls'[e] = Answered(e, "no reply")
    BY DEF HelperEnds
  <2>2. "no reply" \in Outcomes
    BY DEF Outcomes
  <2>3. /\ Answered(e, "no reply") \in Answers
        /\ Answered(e, "no reply").stage \in {"free", "done"}
    BY <2>2, AnsweredType
  <2> QED
    BY <2>1, <2>3
<1>2. calls' \in [Callers -> CallOf \cup Answers]
  <2>1. calls' = [e \in Callers |-> calls'[e]]
    BY DEF HelperEnds
  <2> QED
    BY <1>1, <2>1 DEF CallsType
<1>3. ASSUME NEW e \in Callers PROVE Decodable(e)'
  BY <1>1 DEF Decodable
<1> QED
  BY <1>2, <1>3 DEF CallsType

LEMMA CallStep ==
  ASSUME CallsType, NEW c \in Callers, NEW q \in Requests, Call(c, q)
  PROVE  Onward(c)
<1>1. PICK r : r = [stage |-> "sent", request |-> q, todo |-> {}, challenge |-> FALSE,
                    gone |-> FALSE]
  OBVIOUS
<1>2. r \in CallOf /\ r.stage = "sent"
  BY <1>1 DEF CallOf
<1>3. calls' = [calls EXCEPT ![c] = r]
  BY <1>1 DEF Call
<1> QED
  BY <1>2, <1>3 DEF CallsType, Onward

LEMMA LeaveStep ==
  ASSUME CallsType, NEW c \in Callers, Leave(c)
  PROVE  Onward(c)
<1>1. calls[c] \in CallOf
  BY CallFields DEF Leave, Waiting, Taken, InStage, CallsType
<1>2. PICK r : r = [calls[c] EXCEPT !.gone = TRUE]
  OBVIOUS
<1>3. r \in CallOf /\ r.stage = calls[c].stage /\ r.request = calls[c].request
  BY <1>1, <1>2 DEF CallOf
<1>4. calls' = [calls EXCEPT ![c] = r]
  BY <1>2 DEF Leave
<1> QED
  BY <1>3, <1>4 DEF CallsType, Onward

LEMMA HandleStep ==
  ASSUME CallsType, NEW c \in Callers, Handle(c)
  PROVE  Onward(c)
<1>1. calls[c] \in CallOf /\ calls[c].stage = "sent"
  BY CallFields DEF Handle, CallsType
<1>2. PICK s \in {"mute", "listing"} :
        /\ calls' = [calls EXCEPT ![c].stage = s]
        /\ s = "listing" /\ calls[c].request.does = "value" => calls[c].request.value # None
  BY DEF Handle
<1>3. PICK r : r = [calls[c] EXCEPT !.stage = s]
  OBVIOUS
<1>4. r \in CallOf /\ r.stage = s /\ r.request = calls[c].request
  BY <1>1, <1>3 DEF CallOf
<1>5. calls' = [calls EXCEPT ![c] = r]
  BY <1>2, <1>3
<1> QED
  BY <1>1, <1>2, <1>4, <1>5 DEF CallsType, Onward

LEMMA ListedStep ==
  ASSUME CallsType, NEW c \in Callers, Listed(c)
  PROVE  Onward(c)
<1>1. calls[c] \in CallOf /\ calls[c].stage = "listing"
  BY CallFields DEF Listed, CallsType
<1>2. PICK todo : todo = {ActionFor(i) : i \in calls[c].request.includes}
  OBVIOUS
<1>3. todo \subseteq Actions
  BY <1>1, <1>2, CallFields, RequestFields DEF Actions
<1>4. PICK r : r = [calls[c] EXCEPT !.stage = "asking", !.todo = todo]
  OBVIOUS
<1>5. r \in CallOf /\ r.stage = "asking" /\ r.request = calls[c].request
  BY <1>1, <1>3, <1>4 DEF CallOf
<1>6. calls' = [calls EXCEPT ![c] = r]
  BY <1>2, <1>4, <1>1 DEF Listed, CallsType, CallOf
<1> QED
  BY <1>1, <1>5, <1>6 DEF CallsType, Onward

LEMMA AgreesStep ==
  ASSUME CallsType, NEW c \in Callers, NEW a, NEW ch \in BOOLEAN, Agrees(c, a, ch)
  PROVE  Onward(c)
<1>1. calls[c] \in CallOf /\ calls[c].stage = "asking"
  BY CallFields DEF Agrees, CallsType
<1>2. PICK left, asked : left = calls[c].todo \ {a} /\ asked = (calls[c].challenge \/ ch)
  OBVIOUS
<1>3. left \subseteq Actions /\ asked \in BOOLEAN
  BY <1>1, <1>2 DEF CallOf
<1>4. PICK r : r = [calls[c] EXCEPT !.todo = left, !.challenge = asked]
  OBVIOUS
<1>5. r \in CallOf /\ r.stage = "asking" /\ r.request = calls[c].request
  BY <1>1, <1>3, <1>4 DEF CallOf
<1>6. calls' = [calls EXCEPT ![c].todo = left, ![c].challenge = asked]
  <2>1. calls' = [calls EXCEPT ![c].todo = @ \ {a}, ![c].challenge = @ \/ ch] /\ c \in DOMAIN calls
    BY DEF Agrees, CallsType
  <2> QED
    BY ONLY <1>1, <1>2, <2>1 DEF CallOf
<1>7. calls' = [calls EXCEPT ![c] = r]
  <2>1. calls = [e \in Callers |-> calls[e]]
    BY DEF CallsType
  <2> QED
    BY ONLY <1>4, <1>6, <2>1, c \in Callers
<1> QED
  BY <1>1, <1>5, <1>7 DEF CallsType, Onward

LEMMA CopyCalls ==
  ASSUME CallsType, NEW c \in Callers, Copy(c)
  PROVE  Onward(c) /\ calls[c] \in CallOf
<1>1. calls[c] \in CallOf
  BY CallFields DEF Copy, CallsType
<1>2. PICK r : r = [calls[c] EXCEPT !.stage = "copied", !.todo = {}]
  OBVIOUS
<1>3. r \in CallOf /\ r.stage = "copied"
  BY <1>1, <1>2 DEF CallOf
<1>4. calls' = [calls EXCEPT ![c] = r]
  <2>1. calls' = [calls EXCEPT ![c].stage = "copied", ![c].todo = {}] /\ c \in DOMAIN calls
    BY DEF Copy, CallsType
  <2> QED
    BY ONLY <1>1, <1>2, <2>1 DEF CallOf
<1> QED
  BY <1>1, <1>3, <1>4 DEF CallsType, Onward

-----------------------------------------------------------------------------
(* What a copy changes.                                                     *)
LEMMA ChangesType ==
  ASSUME RestType, NEW q \in Requests
  PROVE  /\ DOMAIN Changes(q) \subseteq Path
         /\ \A k \in DOMAIN Changes(q) : Changes(q)[k] \in Values
<1>1. CASE q.does = "value"
  <2>1. Changes(q) = [k \in q.includes |-> q.value]
    BY <1>1 DEF Changes
  <2> QED
    BY <2>1, RequestFields
<1>2. CASE q.does # "value"
  <2>1. PICK keys : /\ keys = {k \in Key : /\ saved[k] # None
                                          /\ \E i \in q.includes : k \in Subtree(i)
                                          /\ \A e \in q.excludes : k \notin Starts[e]}
                    /\ Changes(q) = [k \in keys |-> saved[k]]
    BY <1>2 DEF Changes
  <2>2. keys \subseteq Key
    BY <2>1
  <2> QED
    BY <2>1, <2>2 DEF RestType, Contents
<1> QED
  BY <1>1, <1>2

LEMMA CommittedType ==
  ASSUME NEW old \in Contents, NEW changes, NEW done \in SUBSET DOMAIN changes,
         \A k \in DOMAIN changes : changes[k] \in Values
  PROVE  Committed(old, changes, done) \in Contents
BY DEF Committed, Contents

LEMMA LoadedType ==
  ASSUME RestType, NEW S
  PROVE  /\ Loaded(S) \in [Storages -> Contents \cup {NotLoaded}]
         /\ \A s \in Storages : /\ Loaded(S)[s] \in {cached[s], stored[s]}
                                /\ cached[s] # NotLoaded => Loaded(S)[s] = cached[s]
                                /\ s \in S /\ cached[s] = NotLoaded => Loaded(S)[s] = stored[s]
                                /\ s \in S => Loaded(S)[s] \in Contents
BY DEF RestType, Loaded

LEMMA StoragesAre ==
  "mandatory" \in Storages /\ "system" \in Storages /\ "mandatory" # "system"
BY DEF Storages

LEMMA CopyRest ==
  ASSUME CallsType, RestType, NEW c \in Callers, Copy(c)
  PROVE  RestType'
<1> PICK q : q = calls[c].request
  OBVIOUS
<1>1. q \in Requests /\ q.db \in Storages
  BY CopyCalls, CallFields, RequestFields
<1>2. PICK done \in SUBSET DOMAIN Changes(q), synced \in BOOLEAN :
        /\ stored' = IF ~synced THEN stored
                     ELSE [stored EXCEPT ![q.db] = Committed(@, Changes(q), done)]
        /\ busy' = [copying |-> TRUE, synced |-> synced, keys |-> DOMAIN Changes(q), db |-> q.db,
                    outcome |-> IF done = DOMAIN Changes(q) THEN "ok" ELSE "failed"]
  BY DEF Copy, CopiesInto
<1>3. /\ DOMAIN Changes(q) \subseteq Path
      /\ \A k \in DOMAIN Changes(q) : Changes(q)[k] \in Values
  BY <1>1, ChangesType
<1>4. Committed(stored[q.db], Changes(q), done) \in Contents
  BY <1>1, <1>3, CommittedType DEF RestType
<1>5. stored' \in [Storages -> Contents]
  BY <1>1, <1>2, <1>4 DEF RestType
<1>6. busy' \in CopyOf
  BY <1>1, <1>2, <1>3 DEF CopyOf
<1>7. UNCHANGED <<mine, saved, cached, known, signals>>
  BY DEF Copy, userVars, gconfdVars
<1> QED
  BY <1>5, <1>6, <1>7 DEF RestType

LEMMA FinishCopyRest ==
  ASSUME RestType, NEW c \in Callers, FinishCopy(c)
  PROVE  RestType'
<1>1. busy \in CopyOf /\ busy.keys \subseteq Path
  BY DEF RestType, FinishCopy, CopyOf
<1>2. signals' \in Seq(SUBSET Path)
  <2>1. signals \in Seq(SUBSET Path) /\ Append(signals, busy.keys) \in Seq(SUBSET Path)
    BY <1>1, AppendProperties DEF RestType
  <2> QED
    BY <2>1 DEF FinishCopy
<1> QED
  BY <1>2 DEF RestType, FinishCopy, userVars, gconfdVars

LEMMA DecidedType ==
  ASSUME NEW x \in Values, NEW y \in Values, NEW z \in Values
  PROVE  Decided(x, y, z) \in Values
BY DEF Decided

LEMMA AskRest ==
  ASSUME RestType, NEW k \in Key, Ask(k)
  PROVE  RestType'
<1> PICK now : now = Loaded(Storages)
  OBVIOUS
<1>1. /\ now \in [Storages -> Contents \cup {NotLoaded}]
      /\ now["mandatory"] \in Contents /\ now["system"] \in Contents
  BY LoadedType, StoragesAre
<1>2. now["mandatory"][k] \in Values /\ now["system"][k] \in Values /\ mine[k] \in Values
  BY <1>1 DEF RestType, Contents
<1>3. Decided(now["mandatory"][k], mine[k], now["system"][k]) \in Values
  BY <1>2, DecidedType
<1>4. cached' = now /\ known' \in [Key -> Values \cup {NotAsked}]
  BY <1>3 DEF Ask, RestType
<1> QED
  BY <1>1, <1>4 DEF RestType, Ask, helperVars, userVars

LEMMA UserSetsRest ==
  ASSUME RestType, NEW kv \in UserChanges, UserSets(kv[1], kv[2])
  PROVE  RestType'
<1>1. kv[1] \in Key /\ kv[2] \in Values
  BY DEF Values
<1> PICK k \in Key, v \in Values : k = kv[1] /\ v = kv[2]
  BY <1>1
<1>2. UserSets(k, v)
  OBVIOUS
<1>3. cached' \in [Storages -> Contents \cup {NotLoaded}]
  BY <1>2, LoadedType DEF UserSets
<1>4. mine' \in Contents
  BY <1>2 DEF UserSets, RestType, Contents
<1>5. known' \in [Key -> Values \cup {NotAsked}]
  BY <1>2 DEF UserSets, RestType
<1> QED
  BY <1>2, <1>3, <1>4, <1>5 DEF RestType, UserSets, helperVars

(* The announcement of some keys is heard.  The system storage is read again *)
(* if a key of them is decided there.                                       *)
Affected(keys, mandatory) == {k \in keys \cap Key : mandatory[k] = None /\ mine[k] = None}

Hears(keys, mandatory, system) ==
  /\ signals # <<>> /\ keys = Head(signals) /\ signals' = Tail(signals)
  /\ cached["mandatory"] # NotLoaded => mandatory = cached["mandatory"]
  /\ cached["mandatory"] = NotLoaded => mandatory \in {NotLoaded, stored["mandatory"]}
  /\ system \in {NotLoaded, stored["system"]}
  /\ Affected(keys, mandatory) # {} => system = stored["system"]
  /\ cached' = [cached EXCEPT !["mandatory"] = mandatory, !["system"] = system]
  /\ known' = [k \in Key |-> IF k \in Affected(keys, mandatory) /\ known[k] # NotAsked
                             THEN system[k] ELSE known[k]]
  /\ UNCHANGED <<busy, stored, mine, saved, calls>>

LEMMA HeardOf ==
  ASSUME RestType, HearSystemSet
  PROVE  \E keys \in SUBSET Path, mandatory \in Contents \cup {NotLoaded},
            system \in Contents \cup {NotLoaded} : Hears(keys, mandatory, system)
<1> DEFINE keys == Head(signals)
           mandatory == IF keys = {} THEN cached["mandatory"] ELSE Loaded({"mandatory"})["mandatory"]
           affected == Affected(keys, mandatory)
           system == IF affected # {} /\ Forgotten["system"] = NotLoaded
                     THEN stored["system"] ELSE Forgotten["system"]
<1>1. /\ signals # <<>> /\ signals' = Tail(signals)
      /\ cached' = [cached EXCEPT !["mandatory"] = mandatory, !["system"] = system]
      /\ known' = [k \in Key |-> IF k \in affected /\ known[k] # NotAsked
                                 THEN system[k] ELSE known[k]]
      /\ UNCHANGED <<busy, stored, mine, saved, calls>>
  BY DEF HearSystemSet, Affected, helperVars, userVars
<1>2. keys \in SUBSET Path
  BY <1>1, HeadTailProperties DEF RestType
<1>3. Forgotten["system"] = NotLoaded
  BY StoragesAre DEF Forgotten, RestType
<1>4. /\ system \in {NotLoaded, stored["system"]}
      /\ affected # {} => system = stored["system"]
  BY <1>3
<1>5. /\ cached["mandatory"] # NotLoaded => mandatory = cached["mandatory"]
      /\ cached["mandatory"] = NotLoaded => mandatory \in {NotLoaded, stored["mandatory"]}
  BY LoadedType, StoragesAre
<1>6. stored["mandatory"] \in Contents /\ stored["system"] \in Contents
      /\ cached["mandatory"] \in Contents \cup {NotLoaded}
  BY StoragesAre DEF RestType
<1>7. mandatory \in Contents \cup {NotLoaded} /\ system \in Contents \cup {NotLoaded}
  BY <1>4, <1>5, <1>6
<1>8. Hears(keys, mandatory, system)
  BY <1>1, <1>4, <1>5 DEF Hears
<1> HIDE DEF keys, mandatory, system
<1> QED
  BY <1>2, <1>7, <1>8

LEMMA HearRest ==
  ASSUME RestType, HearSystemSet
  PROVE  RestType'
<1>1. PICK keys \in SUBSET Path, mandatory \in Contents \cup {NotLoaded},
           system \in Contents \cup {NotLoaded} : Hears(keys, mandatory, system)
  BY HeardOf
<1>2. signals' \in Seq(SUBSET Path)
  BY <1>1, HeadTailProperties DEF RestType, Hears
<1>3. cached' \in [Storages -> Contents \cup {NotLoaded}]
  BY <1>1 DEF RestType, Hears
<1>4. known' \in [Key -> Values \cup {NotAsked}]
  <2>1. ASSUME NEW k \in Key, k \in Affected(keys, mandatory) PROVE system[k] \in Values
    <3>1. system = stored["system"]
      BY <1>1, <2>1 DEF Hears
    <3> QED
      BY <3>1, StoragesAre DEF RestType, Contents
  <2> QED
    BY <1>1, <2>1 DEF RestType, Hears
<1> QED
  BY <1>1, <1>2, <1>3, <1>4 DEF RestType, Hears

(* What each step leaves alone.                                             *)
Quiet == UNCHANGED <<busy, stored, mine, saved, cached, known, signals>>

(* The steps of a call that leave the files alone.                          *)
Moves(c) ==
  \/ \E q \in Requests : Call(c, q)
  \/ Leave(c) \/ Handle(c) \/ ListingFails(c) \/ Listed(c)
  \/ \E a \in Path \cup {"default"}, ch \in BOOLEAN : Agrees(c, a, ch)
  \/ \E a \in Path \cup {"default"}, ch \in BOOLEAN : CheckAgrees(c, a, ch)
  \/ Refuses(c) \/ CopyFails(c)

LEMMA NextSplits ==
  ASSUME [Next]_vars
  PROVE  \/ \E c \in Callers : Moves(c) \/ ListedForUnset(c) \/ Copy(c) \/ FinishCopy(c)
         \/ \E k \in Key : Ask(k)
         \/ \E kv \in UserChanges : UserSets(kv[1], kv[2])
         \/ Activate \/ TimerFires \/ UserSaves \/ HearSystemSet \/ UNCHANGED vars
BY DEF Next, Moves

LEMMA QuietSteps ==
  ASSUME NEW c \in Callers, Moves(c) \/ ListedForUnset(c)
  PROVE  Quiet
BY DEF Moves, Call, Leave, Handle, ListingFails, Listed, ListedForUnset, HelperEnds, Agrees,
       CheckAgrees, Refuses, CopyFails, Quiet, helperVars, userVars, gconfdVars

LEMMA CallSteps ==
  ASSUME CallsType, NEW c \in Callers, Moves(c)
  PROVE  Onward(c)
<1>1. {"failed", "0", "1", "2", "refused"} \subseteq Outcomes
  BY DEF Outcomes
<1>2. CASE ListingFails(c) \/ CopyFails(c)
  <2>1. Ends(c, "failed")
    BY <1>2 DEF ListingFails, CopyFails
  <2> QED
    BY <1>1, <2>1, EndsOnward
<1>3. ASSUME NEW a, NEW ch \in BOOLEAN, CheckAgrees(c, a, ch) PROVE Onward(c)
  <2>1. PICK o \in {"1", "2"} : Ends(c, o)
    BY <1>3 DEF CheckAgrees
  <2> QED
    BY <1>1, <2>1, EndsOnward
<1>4. CASE Refuses(c)
  <2>1. PICK o \in {"0", "refused"} : Ends(c, o)
    BY <1>4 DEF Refuses
  <2> QED
    BY <1>1, <2>1, EndsOnward
<1>5. ASSUME NEW a, NEW ch \in BOOLEAN, Agrees(c, a, ch) PROVE Onward(c)
  BY <1>5, AgreesStep
<1>6. ASSUME NEW q \in Requests, Call(c, q) PROVE Onward(c)
  BY <1>6, CallStep
<1>7. CASE Leave(c) \/ Handle(c) \/ Listed(c)
  BY <1>7, LeaveStep, HandleStep, ListedStep
<1> QED
  BY <1>2, <1>3, <1>4, <1>5, <1>6, <1>7 DEF Moves

LEMMA BusyOutcome ==
  ASSUME RestType, busy # Idle
  PROVE  busy.outcome \in Outcomes
BY DEF RestType, CopyOf, Outcomes

LEMMA NextShape ==
  ASSUME ShapeInv, [Next]_vars
  PROVE  ShapeInv'
<1>1. CallsType /\ RestType /\ \A c \in Callers : Decodable(c)
  BY DEF ShapeInv
<1>2. ASSUME Quiet PROVE RestType'
  BY <1>1, <1>2 DEF Quiet, RestType
<1>3. ASSUME UNCHANGED calls PROVE CallsType' /\ \A c \in Callers : Decodable(c)'
  BY <1>1, <1>3 DEF CallsType, Decodable
<1>4. ASSUME NEW c \in Callers, Moves(c) PROVE ShapeInv'
  <2>1. Quiet /\ Onward(c)
    BY <1>1, <1>4, QuietSteps, CallSteps
  <2> QED
    BY <1>1, <1>2, <2>1, OnwardKeeps DEF ShapeInv
<1>5. ASSUME NEW c \in Callers, Copy(c) PROVE ShapeInv'
  BY <1>1, <1>5, CopyCalls, CopyRest, OnwardKeeps DEF ShapeInv
<1>6. ASSUME NEW c \in Callers, FinishCopy(c) PROVE ShapeInv'
  <2>1. Ends(c, busy.outcome) /\ busy.outcome \in Outcomes
    BY <1>1, <1>6, BusyOutcome DEF FinishCopy
  <2> QED
    BY <1>1, <1>6, <2>1, EndsOnward, OnwardKeeps, FinishCopyRest DEF ShapeInv
<1>7. ASSUME HelperEnds PROVE ShapeInv'
  BY <1>1, <1>2, <1>7, HelperEndsCalls DEF HelperEnds, Quiet, userVars, gconfdVars, ShapeInv
<1>8. CASE TimerFires \/ \E c \in Callers : ListedForUnset(c)
  BY <1>7, <1>8 DEF TimerFires, ListedForUnset
<1>9. CASE Activate \/ UserSaves \/ UNCHANGED vars
  <2>1. UNCHANGED <<busy, stored, mine, cached, known, signals, calls>>
    BY <1>9 DEF Activate, UserSaves, vars, userVars, gconfdVars, helperVars
  <2>2. saved' \in Contents
    BY <1>1, <1>9 DEF Activate, UserSaves, vars, userVars, RestType
  <2> QED
    BY <1>1, <1>3, <2>1, <2>2 DEF RestType, ShapeInv
<1>10. ASSUME NEW k \in Key, Ask(k) PROVE ShapeInv'
  BY <1>1, <1>3, <1>10, AskRest DEF Ask, ShapeInv
<1>11. ASSUME NEW kv \in UserChanges, UserSets(kv[1], kv[2]) PROVE ShapeInv'
  BY <1>1, <1>3, <1>11, UserSetsRest DEF UserSets, ShapeInv
<1>12. ASSUME HearSystemSet PROVE ShapeInv'
  BY <1>1, <1>3, <1>12, HearRest DEF HearSystemSet, ShapeInv
<1> QED
  BY <1>4, <1>5, <1>6, <1>8, <1>9, <1>10, <1>11, <1>12, NextSplits

LEMMA InitShape ==
  Init => ShapeInv
<1> SUFFICES ASSUME Init PROVE ShapeInv
  OBVIOUS
<1>1. calls \in [Callers -> CallOf \cup Answers] /\ \A c \in Callers : calls[c].stage = "free"
  BY FreeIsAnswer DEF Init, Free
<1>2. /\ busy = Idle /\ mine \in Contents /\ saved \in Contents
      /\ signals \in Seq(SUBSET Path)
  BY DEF Init, Contents
<1>3. stored \in [Storages -> Contents] /\ cached \in [Storages -> Contents \cup {NotLoaded}]
  BY DEF Init, Contents, Values
<1>4. known \in [Key -> Values \cup {NotAsked}]
  BY DEF Init
<1> QED
  BY <1>1, <1>2, <1>3, <1>4 DEF ShapeInv, CallsType, RestType, Decodable

LEMMA Shapes == Spec => []ShapeInv
BY InitShape, NextShape, PTL DEF Spec

-----------------------------------------------------------------------------
(***************************************************************************)
(* What a client was told.  gconfd's copy of the system storage differs from *)
(* the file only in keys that are being announced; the mandatory storage is *)
(* never dropped once read; and a client knows a mandatory value as gconfd   *)
(* has it, else the user's own, else what the system storage has or         *)
(* SystemSet is going to say.                                              *)
(***************************************************************************)
Coming(k) ==
  \/ busy # Idle /\ busy.db = "system" /\ k \in busy.keys
  \/ \E i \in DOMAIN signals : k \in signals[i]

Kept == cached["system"] # NotLoaded =>
          \A k \in Key : cached["system"][k] = stored["system"][k] \/ Coming(k)

KnownAs(k) ==
  /\ cached["mandatory"] # NotLoaded
  /\ cached["mandatory"][k] # None => known[k] = cached["mandatory"][k]
  /\ cached["mandatory"][k] = None /\ mine[k] # None => known[k] = mine[k]
  /\ cached["mandatory"][k] = None /\ mine[k] = None =>
       known[k] = stored["system"][k] \/ Coming(k)

LearnInv == Kept /\ \A k \in Key : known[k] # NotAsked => KnownAs(k)

LEMMA CopyLearns ==
  ASSUME CallsType, RestType, LearnInv, NEW c \in Callers, Copy(c)
  PROVE  LearnInv'
<1> PICK q : q = calls[c].request
  OBVIOUS
<1>1. q \in Requests /\ q.db \in Storages /\ busy = Idle
  BY CopyCalls, CallFields, RequestFields DEF Copy
<1>2. PICK done \in SUBSET DOMAIN Changes(q), synced \in BOOLEAN :
        /\ stored' = IF ~synced THEN stored
                     ELSE [stored EXCEPT ![q.db] = Committed(@, Changes(q), done)]
        /\ busy' = [copying |-> TRUE, synced |-> synced, keys |-> DOMAIN Changes(q), db |-> q.db,
                    outcome |-> IF done = DOMAIN Changes(q) THEN "ok" ELSE "failed"]
  BY DEF Copy, CopiesInto
<1>3. UNCHANGED <<mine, cached, known, signals>>
  BY DEF Copy, userVars, gconfdVars
<1>4. busy' # Idle /\ busy'.db = q.db /\ busy'.keys = DOMAIN Changes(q)
  <2>1. busy'.copying = TRUE /\ Idle.copying = FALSE
    BY <1>2 DEF Idle
  <2> QED
    BY <1>2, <2>1
<1>5. ASSUME NEW k \in Key PROVE Coming(k) => Coming(k)'
  BY <1>1, <1>3 DEF Coming
<1>6. ASSUME NEW k \in Key PROVE stored'["system"][k] = stored["system"][k] \/ Coming(k)'
  <2>1. CASE ~synced \/ q.db # "system"
    BY <1>1, <1>2, <2>1, StoragesAre DEF RestType
  <2>2. CASE synced /\ q.db = "system"
    <3>1. stored'["system"] = Committed(stored["system"], Changes(q), done)
      BY <1>2, <2>2, StoragesAre DEF RestType
    <3>2. stored'["system"][k] = stored["system"][k] \/ k \in done
      BY <3>1 DEF Committed
    <3> QED
      BY <1>4, <2>2, <3>2 DEF Coming
  <2> QED
    BY <2>1, <2>2
<1>7. Kept'
  BY <1>3, <1>5, <1>6 DEF LearnInv, Kept
<1>8. ASSUME NEW k \in Key, known'[k] # NotAsked PROVE KnownAs(k)'
  <2>1. KnownAs(k)
    BY <1>3, <1>8 DEF LearnInv
  <2> QED
    BY <1>3, <1>5, <1>6, <2>1 DEF KnownAs
<1> QED
  BY <1>7, <1>8 DEF LearnInv

LEMMA FinishCopyLearns ==
  ASSUME RestType, LearnInv, NEW c \in Callers, FinishCopy(c)
  PROVE  LearnInv'
<1>1. UNCHANGED <<stored, mine, cached, known>> /\ busy # Idle /\ busy' = Idle
  BY DEF FinishCopy, userVars, gconfdVars
<1>2. signals \in Seq(SUBSET Path) /\ busy.keys \in SUBSET Path
  BY <1>1 DEF RestType, CopyOf
<1>3. ASSUME NEW k \in Key, Coming(k) PROVE Coming(k)'
  <2>1. CASE busy.db = "system" /\ k \in busy.keys
    <3>1. signals' = Append(signals, busy.keys)
      BY <2>1 DEF FinishCopy, Announced
    <3>2. Len(signals) + 1 \in DOMAIN signals' /\ signals'[Len(signals) + 1] = busy.keys
      BY <1>2, <3>1, AppendProperties, LenProperties
    <3> QED
      BY <2>1, <3>2 DEF Coming
  <2>2. CASE \E i \in DOMAIN signals : k \in signals[i]
    <3>1. PICK i \in DOMAIN signals : k \in signals[i]
      BY <2>2
    <3>2. i \in 1 .. Len(signals) /\ Len(signals) \in Nat
      BY <1>2, LenProperties
    <3>3. signals' = signals \/ signals' = Append(signals, busy.keys)
      BY DEF FinishCopy
    <3>4. i \in DOMAIN signals' /\ signals'[i] = signals[i]
      <4>1. CASE signals' = Append(signals, busy.keys)
        <5>1. /\ Len(signals') = Len(signals) + 1 /\ DOMAIN signals' = 1 .. Len(signals')
              /\ \A j \in 1 .. Len(signals) : signals'[j] = signals[j]
          BY <1>2, <4>1, AppendProperties, LenProperties
        <5> QED
          BY <3>2, <5>1
      <4> QED
        BY <3>1, <3>3, <4>1
    <3> QED
      BY <3>1, <3>4 DEF Coming
  <2> QED
    BY <1>3, <2>1, <2>2 DEF Coming
<1> QED
  BY <1>1, <1>3 DEF LearnInv, Kept, KnownAs

LEMMA AskLearns ==
  ASSUME RestType, LearnInv, NEW k \in Key, Ask(k)
  PROVE  LearnInv'
<1> PICK now : now = Loaded(Storages)
  OBVIOUS
<1>1. /\ cached' = now
      /\ known' = [known EXCEPT ![k] = Decided(now["mandatory"][k], mine[k], now["system"][k])]
      /\ UNCHANGED <<busy, stored, mine, signals>>
  BY DEF Ask, helperVars, userVars
<1>2. /\ cached["mandatory"] # NotLoaded => now["mandatory"] = cached["mandatory"]
      /\ \/ now["system"] = cached["system"] /\ cached["system"] # NotLoaded
         \/ now["system"] = stored["system"]
      /\ now["mandatory"] \in Contents
  BY LoadedType, StoragesAre
<1>3. \A j \in Key : Coming(j)' <=> Coming(j)
  BY <1>1 DEF Coming
<1>4. \A j \in Key : now["system"][j] = stored["system"][j] \/ Coming(j)
  BY <1>2 DEF LearnInv, Kept
<1>5. Kept'
  BY <1>1, <1>3, <1>4 DEF Kept
<1>6. ASSUME NEW j \in Key, known'[j] # NotAsked PROVE KnownAs(j)'
  <2>1. CASE j = k
    <3>1. known'[j] = Decided(now["mandatory"][k], mine[k], now["system"][k])
      BY <1>1, <2>1 DEF RestType
    <3>2. now["mandatory"] # NotLoaded
      BY <1>2 DEF Contents
    <3> QED
      BY <1>1, <1>3, <1>4, <2>1, <3>1, <3>2 DEF KnownAs, Decided
  <2>2. CASE j # k
    <3>1. known'[j] = known[j] /\ KnownAs(j)
      BY <1>1, <1>6, <2>2 DEF RestType, LearnInv
    <3> QED
      BY <1>1, <1>2, <1>3, <3>1 DEF KnownAs
  <2> QED
    BY <2>1, <2>2
<1> QED
  BY <1>5, <1>6 DEF LearnInv

LEMMA UserSetsLearns ==
  ASSUME RestType, LearnInv, NEW k \in Key, NEW v \in Value, UserSets(k, v)
  PROVE  LearnInv'
<1> PICK now : now = Loaded({"mandatory"})
  OBVIOUS
<1>1. /\ now["mandatory"][k] = None
      /\ cached' = now /\ mine' = [mine EXCEPT ![k] = v]
      /\ known' = [known EXCEPT ![k] = IF @ = NotAsked THEN @ ELSE v]
      /\ UNCHANGED <<busy, stored, signals>>
  BY DEF UserSets, helperVars
<1>2. /\ cached["mandatory"] # NotLoaded => now["mandatory"] = cached["mandatory"]
      /\ now["system"] = cached["system"]
      /\ now["mandatory"] \in Contents
  BY LoadedType, StoragesAre DEF Loaded
<1>3. \A j \in Key : Coming(j)' <=> Coming(j)
  BY <1>1 DEF Coming
<1>4. Kept'
  BY <1>1, <1>2, <1>3 DEF LearnInv, Kept
<1>5. ASSUME NEW j \in Key, known'[j] # NotAsked PROVE KnownAs(j)'
  <2>1. now["mandatory"] # NotLoaded
    BY <1>2 DEF Contents
  <2>2. CASE j = k
    <3>1. known'[j] = v /\ mine'[j] = v /\ v # None
      BY <1>1, <1>5, <2>2 DEF RestType, Contents
    <3> QED
      BY <1>1, <2>1, <2>2, <3>1 DEF KnownAs
  <2>3. CASE j # k
    <3>1. known'[j] = known[j] /\ mine'[j] = mine[j] /\ KnownAs(j)
      BY <1>1, <1>5, <2>3 DEF RestType, Contents, LearnInv
    <3> QED
      BY <1>1, <1>2, <1>3, <3>1 DEF KnownAs
  <2> QED
    BY <2>2, <2>3
<1> QED
  BY <1>4, <1>5 DEF LearnInv

LEMMA HearLearns ==
  ASSUME RestType, LearnInv, HearSystemSet
  PROVE  LearnInv'
<1>1. PICK keys \in SUBSET Path, mandatory \in Contents \cup {NotLoaded},
           system \in Contents \cup {NotLoaded} : Hears(keys, mandatory, system)
  BY HeardOf
<1>2. /\ signals \in Seq(SUBSET Path) /\ signals # <<>> /\ keys = Head(signals)
      /\ signals' = Tail(signals) /\ UNCHANGED <<busy, stored, mine>>
      /\ cached'["mandatory"] = mandatory /\ cached'["system"] = system
      /\ system \in {NotLoaded, stored["system"]}
  BY <1>1, StoragesAre DEF Hears, RestType
<1>3. ASSUME NEW k \in Key, Coming(k) PROVE k \in keys \/ Coming(k)'
  <2>1. CASE busy # Idle /\ busy.db = "system" /\ k \in busy.keys
    BY <1>2, <2>1 DEF Coming
  <2>2. ASSUME NEW i \in DOMAIN signals, k \in signals[i] PROVE k \in keys \/ Coming(k)'
    <3>1. /\ i \in 1 .. Len(signals) /\ Len(signals) \in Nat
          /\ Head(signals) = signals[1] /\ Len(signals') = Len(signals) - 1
          /\ DOMAIN signals' = 1 .. Len(signals')
          /\ \A j \in 1 .. Len(signals) - 1 : signals'[j] = signals[j + 1]
      BY <1>2, HeadTailProperties, LenProperties
    <3>2. CASE i = 1
      BY <1>2, <2>2, <3>1, <3>2
    <3>3. CASE i # 1
      <4>1. i - 1 \in DOMAIN signals' /\ signals'[i - 1] = signals[i]
        BY <3>1, <3>3
      <4> QED
        BY <2>2, <4>1 DEF Coming
    <3> QED
      BY <3>2, <3>3
  <2> QED
    BY <1>3, <2>1, <2>2 DEF Coming
<1>4. Kept'
  BY <1>2 DEF Kept
<1>5. ASSUME NEW k \in Key, known'[k] # NotAsked PROVE KnownAs(k)'
  <2>1. known'[k] = IF k \in Affected(keys, mandatory) /\ known[k] # NotAsked
                    THEN system[k] ELSE known[k]
    BY <1>1 DEF Hears
  <2>2. known[k] # NotAsked
    BY <1>5, <2>1
  <2>3. KnownAs(k) /\ mandatory = cached["mandatory"] /\ mandatory # NotLoaded
    BY <1>1, <2>2 DEF LearnInv, KnownAs, Hears
  <2>4. CASE k \in Affected(keys, mandatory)
    <3>1. known'[k] = stored["system"][k] /\ mandatory[k] = None /\ mine[k] = None
      BY <1>1, <2>1, <2>2, <2>4 DEF Affected, Hears
    <3> QED
      BY <1>2, <2>3, <3>1 DEF KnownAs
  <2>5. CASE k \notin Affected(keys, mandatory)
    <3>1. known'[k] = known[k]
      BY <2>1, <2>5
    <3>2. mandatory[k] = None /\ mine[k] = None => k \notin keys
      BY <2>5 DEF Affected
    <3> QED
      BY <1>2, <1>3, <2>3, <3>1, <3>2 DEF KnownAs
  <2> QED
    BY <2>4, <2>5
<1> QED
  BY <1>4, <1>5 DEF LearnInv

LEMMA NextLearns ==
  ASSUME ShapeInv, LearnInv, [Next]_vars
  PROVE  LearnInv'
<1>1. CallsType /\ RestType
  BY DEF ShapeInv
<1>2. ASSUME UNCHANGED <<busy, stored, mine, cached, known, signals>> PROVE LearnInv'
  BY <1>2 DEF LearnInv, Kept, KnownAs, Coming
<1>3. ASSUME NEW c \in Callers, Moves(c) \/ ListedForUnset(c) PROVE LearnInv'
  BY <1>2, <1>3, QuietSteps DEF Quiet
<1>4. CASE Activate \/ TimerFires \/ UserSaves \/ UNCHANGED vars
  <2>1. UNCHANGED <<busy, stored, mine, cached, known, signals>>
    BY <1>4 DEF Activate, TimerFires, HelperEnds, UserSaves, vars, userVars, gconfdVars, helperVars
  <2> QED
    BY <1>2, <2>1
<1>5. ASSUME NEW c \in Callers, Copy(c) \/ FinishCopy(c) PROVE LearnInv'
  BY <1>1, <1>5, CopyLearns, FinishCopyLearns
<1>6. ASSUME NEW k \in Key, Ask(k) PROVE LearnInv'
  BY <1>1, <1>6, AskLearns
<1>7. ASSUME NEW kv \in UserChanges, UserSets(kv[1], kv[2]) PROVE LearnInv'
  <2>1. kv[1] \in Key /\ kv[2] \in Value
    OBVIOUS
  <2> QED
    BY <1>1, <1>7, <2>1, UserSetsLearns
<1>8. CASE HearSystemSet
  BY <1>1, <1>8, HearLearns
<1> QED
  BY <1>3, <1>4, <1>5, <1>6, <1>7, <1>8, NextSplits

(***************************************************************************)
(* A client of a gconfd whose files the helper writes behind its back knows *)
(* what they and the user's own values say of each key it asked for, or     *)
(* SystemSet is going to tell it; but nothing tells it of a mandatory       *)
(* storage changed after gconfd read it.                                    *)
(***************************************************************************)
THEOREM Learning == Spec => []ClientsLearn
<1>1. Init => LearnInv
  BY StoragesAre DEF Init, LearnInv, Kept
<1>2. ShapeInv /\ LearnInv => ClientsLearn
  <2> SUFFICES ASSUME LearnInv, NEW k \in Key, known[k] \notin {NotAsked, Truth(k)}, ~Unheard(k)
               PROVE  Announcing(k)
    BY DEF ClientsLearn
  <2>1. KnownAs(k) /\ cached["mandatory"][k] = stored["mandatory"][k]
    BY DEF LearnInv, KnownAs, Unheard
  <2>2. Coming(k)
    BY <2>1 DEF KnownAs, Truth, Decided
  <2> QED
    BY <2>2 DEF Coming, Announcing
<1> QED
  BY <1>1, <1>2, NextLearns, Shapes, PTL DEF Spec

-----------------------------------------------------------------------------
(* Copies.                                                                  *)
LEMMA OnlyCopies ==
  ASSUME ShapeInv, [Next]_vars, NEW c \in Callers,
         calls[c].stage = "asking", calls'[c].stage = "copied"
  PROVE  Copy(c)
<1>1. CallsType /\ RestType /\ \A e \in Callers : Decodable(e)
  BY DEF ShapeInv
<1>2. ASSUME NEW e \in Callers, Onward(e) PROVE Copy(c)
  BY <1>2 DEF Onward
<1>3. ASSUME NEW e \in Callers, Moves(e) \/ Copy(e) \/ FinishCopy(e) PROVE Onward(e)
  <2>1. CASE FinishCopy(e)
    BY <1>1, <2>1, BusyOutcome, EndsOnward DEF FinishCopy
  <2> QED
    BY <1>1, <1>3, <2>1, CallSteps, CopyCalls
<1>4. ~HelperEnds
  <2> SUFFICES ASSUME HelperEnds PROVE FALSE
    OBVIOUS
  <2>1. calls'[c] = calls[c] \/ calls'[c] = Answered(c, "no reply")
    BY DEF HelperEnds
  <2>2. Answered(c, "no reply").stage \in {"free", "done"}
    BY AnsweredType DEF Outcomes
  <2> QED
    BY <2>1, <2>2
<1>5. calls' # calls
  OBVIOUS
<1> QED
  BY <1>2, <1>3, <1>4, <1>5, NextSplits
     DEF ListedForUnset, TimerFires, Ask, UserSets, Activate, UserSaves, HearSystemSet, vars,
         gconfdVars

(* The changes of q went through up to done.                                *)
Done(q, done) ==
  /\ \A s \in Storages \ {q.db} : stored'[s] = stored[s]
  /\ \A k \in Key : stored'[q.db][k] =
       IF k \in done /\ busy'.synced THEN Changes(q)[k] ELSE stored[q.db][k]
  /\ busy'.outcome = "ok" => done = DOMAIN Changes(q)

LEMMA CopyDone ==
  ASSUME ShapeInv, NEW c \in Callers, Copy(c), NEW q \in Requests, q = calls[c].request
  PROVE  \E done \in SUBSET DOMAIN Changes(q) : Done(q, done)
<1>1. PICK done \in SUBSET DOMAIN Changes(q), synced \in BOOLEAN :
        /\ stored' = IF ~synced THEN stored
                     ELSE [stored EXCEPT ![q.db] = Committed(@, Changes(q), done)]
        /\ busy' = [copying |-> TRUE, synced |-> synced, keys |-> DOMAIN Changes(q), db |-> q.db,
                    outcome |-> IF done = DOMAIN Changes(q) THEN "ok" ELSE "failed"]
  BY DEF Copy, CopiesInto
<1>2. stored \in [Storages -> Contents] /\ q.db \in Storages
  BY RequestFields DEF ShapeInv, RestType
<1>3. busy'.synced = synced /\ (busy'.outcome = "ok" => done = DOMAIN Changes(q))
  BY <1>1
<1>4. \A s \in Storages \ {q.db} : stored'[s] = stored[s]
  BY <1>1, <1>2
<1>5. ASSUME NEW k \in Key
      PROVE  stored'[q.db][k] = IF k \in done /\ busy'.synced THEN Changes(q)[k]
                                ELSE stored[q.db][k]
  BY <1>1, <1>2, <1>3 DEF Committed
<1> QED
  BY <1>3, <1>4, <1>5 DEF Done

(* Which keys a change set holds, and with which values.                     *)
LEMMA ChangesAre ==
  ASSUME ShapeInv, NEW q \in Requests, NEW k \in Key
  PROVE  /\ q.does = "value" => /\ k \in DOMAIN Changes(q) <=> k \in q.includes
                                /\ k \in q.includes => Changes(q)[k] = q.value
         /\ q.does # "value" =>
              /\ k \in DOMAIN Changes(q) <=> /\ saved[k] # None
                                             /\ \E i \in q.includes : k \in Subtree(i)
                                             /\ \A e \in q.excludes : k \notin Starts[e]
              /\ k \in DOMAIN Changes(q) => Changes(q)[k] = saved[k]
<1>1. CASE q.does = "value"
  BY <1>1 DEF Changes
<1>2. CASE q.does # "value"
  <2>1. PICK keys : /\ keys = {j \in Key : /\ saved[j] # None
                                          /\ \E i \in q.includes : j \in Subtree(i)
                                          /\ \A e \in q.excludes : j \notin Starts[e]}
                    /\ Changes(q) = [j \in keys |-> saved[j]]
    BY <1>2 DEF Changes
  <2> QED
    BY <1>2, <2>1
<1> QED
  BY <1>1, <1>2

LEMMA Asked ==
  ASSUME ShapeInv, NEW q \in Requests, NEW k \in Key
  PROVE  /\ k \in DOMAIN Changes(q) => k \in AskedFor(q)
         /\ k \in AskedFor(q) /\ k \notin DOMAIN Changes(q) =>
              q.does # "value" /\ (saved[k] = None \/ MistakenForExcluded(q, k))
<1>1. \A e \in q.excludes : Subtree(e) \subseteq Starts[e]
  BY RequestFields
<1>2. CASE q.does = "value"
  BY <1>2, ChangesAre DEF AskedFor
<1>3. CASE q.does # "value"
  BY <1>1, <1>3, ChangesAre DEF AskedFor, MistakenForExcluded
<1> QED
  BY <1>2, <1>3

(***************************************************************************)
(* A copy changes only keys that were asked for, in the storage it is for,   *)
(* to the user's values; answered with success it has set them all, but for *)
(* unsaved values, keys mistaken for excluded ones and a sync that failed.   *)
(***************************************************************************)
THEOREM Copying == Spec => CopiesAsAsked
<1> DEFINE
  current(q, k) == q.does = "value" \/ saved[k] = mine[k]
  asAsked(c) ==
    calls[c].stage = "asking" /\ calls'[c].stage = "copied" =>
      LET q == calls[c].request
          old == stored[q.db]
          new == stored'[q.db]
      IN
      /\ \A s \in Storages \ {q.db} : stored'[s] = stored[s]
      /\ \A k \in Key : new[k] # old[k] =>
           k \in AskedFor(q) /\ new[k] # None /\ (current(q, k) => new[k] = Due(q, k))
      /\ busy'.outcome = "ok" =>
           \A k \in AskedFor(q) :
             \/ new[k] = Due(q, k)
             \/ Due(q, k) = None
             \/ ~current(q, k) \/ MistakenForExcluded(q, k) \/ ~busy'.synced
<1>1. ASSUME ShapeInv, [Next]_vars, NEW c \in Callers PROVE asAsked(c)
  <2> SUFFICES ASSUME calls[c].stage = "asking", calls'[c].stage = "copied"
               PROVE  asAsked(c)
    OBVIOUS
  <2> PICK q : q = calls[c].request
    OBVIOUS
  <2>1. Copy(c) /\ q \in Requests
    BY <1>1, OnlyCopies, CallFields DEF ShapeInv, CallsType
  <2>2. PICK done \in SUBSET DOMAIN Changes(q) : Done(q, done)
    BY <1>1, <2>1, CopyDone
  <2>3. q.does = "value" => q.value # None
    BY <1>1 DEF ShapeInv, Decodable
  <2>4. ASSUME NEW k \in Key, k \in DOMAIN Changes(q)
        PROVE  /\ k \in AskedFor(q) /\ Changes(q)[k] # None
               /\ current(q, k) => Changes(q)[k] = Due(q, k)
    BY <1>1, <2>1, <2>3, <2>4, ChangesAre, Asked DEF Due
  <2>5. ASSUME NEW k \in Key, stored'[q.db][k] # stored[q.db][k]
        PROVE  /\ k \in AskedFor(q) /\ stored'[q.db][k] # None
               /\ current(q, k) => stored'[q.db][k] = Due(q, k)
    BY <2>2, <2>4, <2>5 DEF Done
  <2>6. ASSUME busy'.outcome = "ok", NEW k \in AskedFor(q)
        PROVE  \/ stored'[q.db][k] = Due(q, k)
               \/ Due(q, k) = None
               \/ ~current(q, k) \/ MistakenForExcluded(q, k) \/ ~busy'.synced
    <3>1. k \in Key
      BY DEF AskedFor
    <3>2. CASE k \in DOMAIN Changes(q)
      BY <2>2, <2>4, <2>6, <3>1, <3>2 DEF Done
    <3>3. CASE k \notin DOMAIN Changes(q)
      BY <1>1, <2>1, <3>1, <3>3, Asked DEF Due
    <3> QED
      BY <3>2, <3>3
  <2> QED
    BY <2>2, <2>5, <2>6 DEF Done
<1>2. ShapeInv /\ [Next]_vars => [\A c \in Callers : asAsked(c)]_vars
  BY <1>1
<1> QED
  BY <1>2, Shapes, PTL DEF Spec, CopiesAsAsked
=============================================================================
