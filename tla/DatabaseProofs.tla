---------------------------- MODULE DatabaseProofs ----------------------------
(***************************************************************************)
(* Proofs about stacks of sources and the databases made of them, for any   *)
(* namespace, any number of storages, layers and databases, any stores      *)
(* found at the start and any set of storages that may fail.                *)
(***************************************************************************)
EXTENDS Database, SequenceTheorems, WellFoundedInduction, TLAPS


-----------------------------------------------------------------------------
(***************************************************************************)
(* A set of positions in a stack that is not empty has a least one, which   *)
(* Min finds.                                                               *)
(***************************************************************************)
LEMMA MinOf ==
  ASSUME NEW S \in SUBSET Nat, S # {}
  PROVE  Min(S) \in S /\ \A x \in S : Min(S) <= x
<1> DEFINE Less == {ss \in Nat \X Nat : ss[1] < ss[2]}
<1>1. IsWellFoundedOn(Less, Nat)
  BY NatLessThanWellFounded DEF OpToRel
<1>2. S \subseteq Nat
  OBVIOUS
<1>3. \E x \in S : \A y \in S : ~ (<<y, x>> \in Less)
  <2> HIDE DEF Less
  <2> QED
    BY <1>1, <1>2, WFMin, Zenon
<1>4. PICK x \in S : \A y \in S : ~ (<<y, x>> \in Less)
  BY <1>3
<1>5. \A y \in S : x <= y
  <2> SUFFICES ASSUME NEW y \in S PROVE x <= y
    OBVIOUS
  <2>1. ~ (y < x) /\ x \in Nat /\ y \in Nat
    BY <1>2, <1>4
  <2> QED
    BY <2>1
<1> QED
  BY <1>5 DEF Min
USE SourceStackAssumption, DatabaseAssumption

-----------------------------------------------------------------------------
(* The layers of a stack are counted from one, and their storages differ. *)
LEMMA LayersType ==
  ASSUME NEW db \in Db
  PROVE  /\ LayersOf(db) \in SUBSET Nat
         /\ Writable(db) \in SUBSET Nat /\ Writable(db) \subseteq LayersOf(db)
         /\ \A i \in LayersOf(db) : SourceAt(db, i) \in Source
         /\ \A i, j \in LayersOf(db) : SourceAt(db, i) = SourceAt(db, j) => i = j
<1>1. Layers[db] \in Seq([src : Source, writable : BOOLEAN])
  OBVIOUS
<1>2. LayersOf(db) = 1 .. Len(Layers[db]) /\ Len(Layers[db]) \in Nat
  BY <1>1, LenProperties DEF LayersOf
<1>3. \A i \in LayersOf(db) : Layers[db][i] \in [src : Source, writable : BOOLEAN]
  BY <1>1, <1>2, ElementOfSeq
<1>4. \A i \in LayersOf(db) : SourceAt(db, i) \in Source
  BY <1>3 DEF SourceAt
<1>5. \A i, j \in LayersOf(db) : SourceAt(db, i) = SourceAt(db, j) => i = j
  BY DEF SourceAt, LayersOf
<1> QED
  BY <1>2, <1>4, <1>5 DEF Writable

LEMMA HoldingType ==
  ASSUME NEW db \in Db, NEW key \in Path
  PROVE  /\ Holding(db, key) \in SUBSET Nat /\ Holding(db, key) \subseteq LayersOf(db)
         /\ Describing(db, key) \in SUBSET Nat /\ Describing(db, key) \subseteq LayersOf(db)
BY LayersType DEF Holding, Describing

LEMMA TargetType ==
  ASSUME NEW db \in Db, Writable(db) # {}
  PROVE  /\ Min(Writable(db)) \in Writable(db)
         /\ \A i \in Writable(db) : Min(Writable(db)) <= i
         /\ Target(db) \in Source /\ Target(db) \in Synced(db)
BY LayersType, MinOf DEF Target, Synced

(* A query answers with a value the stack stores, or one a schema gives. *)
StoreType == store \in [Source -> [Path -> Cell]]

LEMMA CellType ==
  ASSUME StoreType, NEW db \in Db, NEW key \in Path, NEW i \in LayersOf(db)
  PROVE  CellAt(db, i, key) \in Cell
BY LayersType DEF StoreType, CellAt

LEMMA StoredType ==
  ASSUME StoreType, NEW db \in Db, NEW key \in Path
  PROVE  /\ StoredValue(db, key) \in Value \cup Schema \cup {None}
         /\ Describing(db, key) # {} => SchemaName(db, key) \in Path
<1>1. StoredValue(db, key) \in Value \cup Schema \cup {None}
  <2>1. CASE Holding(db, key) = {}
    BY <2>1 DEF StoredValue
  <2>2. CASE Holding(db, key) # {}
    <3>1. Min(Holding(db, key)) \in LayersOf(db)
      BY <2>2, HoldingType, MinOf
    <3> QED
      BY <2>2, <3>1, CellType DEF StoredValue, Cell
  <2> QED
    BY <2>1, <2>2
<1>2. ASSUME Describing(db, key) # {} PROVE SchemaName(db, key) \in Path
  <2>1. Min(Describing(db, key)) \in Describing(db, key)
    BY <1>2, HoldingType, MinOf
  <2>2. CellAt(db, Min(Describing(db, key)), key) \in Cell
    BY <2>1, HoldingType, CellType
  <2> QED
    BY <1>2, <2>1, <2>2 DEF SchemaName, Describing, Cell
<1> QED
  BY <1>1, <1>2

LEMMA SchemaDefaultType ==
  ASSUME NEW db \in Db, NEW s
  PROVE  SchemaDefault(db, s) \in Value \cup {None}
BY DEF SchemaDefault

AnswersTyped ==
    StoreType => \A db \in Db, key \in Path :
                    /\ QueryValue(db, key) \in Answers
                    /\ DefaultValue(db, key) \in Value \cup {None}

LEMMA AnswerType == AnswersTyped
<1> SUFFICES ASSUME StoreType, NEW db \in Db, NEW key \in Path
             PROVE  /\ QueryValue(db, key) \in Answers
                    /\ DefaultValue(db, key) \in Value \cup {None}
  BY DEF AnswersTyped
<1>1. Defaulted(db, key) \in BOOLEAN /\ QueryWritable(db, key) \in BOOLEAN
  BY DEF Defaulted, QueryWritable
<1>2. StoredValue(db, key) \in Value \cup Schema \cup {None}
  BY StoredType
<1>3. SchemaDefault(db, SchemaName(db, key)) \in Value \cup {None}
  BY SchemaDefaultType
<1>4. QueryValue(db, key) \in Answers
  BY <1>1, <1>2, <1>3 DEF QueryValue, Answers
<1>5. DefaultValue(db, key) \in Value \cup {None}
  BY SchemaDefaultType DEF DefaultValue
<1> QED
  BY <1>4, <1>5

-----------------------------------------------------------------------------
(* What the requests do to the stores and to the list of notices. *)
LEMMA NotifyOthersType ==
  ASSUME TypeOK, StoreType', NEW db \in Db, NEW sources, NEW key \in Path
  PROVE  NotifyOthers(db, sources, key) \subseteq Notice
<1>1. \A d \in Db : QueryValue(d, key)' \in Answers
  <2>1. AnswersTyped'
    BY AnswerType, PTL
  <2> QED
    BY <2>1 DEF AnswersTyped
<1>2. \A i \in DOMAIN DbList : DbList[i] \in Db
  BY LenProperties, ElementOfSeq
<1>3. \A d \in Db : Answer(d, key) \in Notice
  BY <1>1 DEF Answer, Notice
<1> QED
  BY <1>2, <1>3 DEF NotifyOthers, Concerned

LEMMA CellUpdate ==
  ASSUME NEW c \in Cell
  PROVE  /\ \A v \in Value \cup Schema \cup {None} : [c EXCEPT !.val = v] \in Cell
         /\ \A p \in Path \cup {None} : [c EXCEPT !.schema = p] \in Cell
BY DEF Cell

LEMMA WithoutValuesType ==
  ASSUME StoreType, NEW sources, NEW keys
  PROVE  WithoutValues(sources, keys) \in [Source -> [Path -> Cell]]
<1>1. ASSUME NEW s \in Source, NEW k \in Path
      PROVE  store[s][k] \in Cell /\ [store[s][k] EXCEPT !.val = None] \in Cell
  <2>1. store[s][k] \in Cell
    BY DEF StoreType
  <2> QED
    BY <2>1, CellUpdate
<1> QED
  BY <1>1 DEF WithoutValues, StoreType

LEMMA UnsetSourcesType ==
  ASSUME NEW db \in Db
  PROVE  UnsetSources(db) \subseteq Synced(db) /\ Synced(db) \subseteq Source
BY LayersType DEF UnsetSources, Synced

LEMMA ExceptType ==
  ASSUME NEW S, NEW T, NEW f \in [S -> T], NEW x, NEW v, x \in S => v \in T
  PROVE  [f EXCEPT ![x] = v] \in [S -> T]
OBVIOUS

LEMMA DroppedType ==
  ASSUME StoreType, NEW db \in Db, NEW key \in Path, NEW schemas \in BOOLEAN
  PROVE  Dropped(db, key, schemas) \in [Source -> [Path -> Cell]]
<1> DEFINE rest == WithoutValues(UnsetSources(db), {key} \cup Listed(db, key, {}))
           named == {k \in Listed(db, key, {}) : Exists(db, k)}
<1>1. rest \in [Source -> [Path -> Cell]]
  BY WithoutValuesType
<1> HIDE DEF rest, named
<1>2. ASSUME NEW c \in Cell PROVE [c EXCEPT !.schema = None] \in Cell
  BY CellUpdate
<1>3. CASE ~schemas
  BY <1>1, <1>3 DEF Dropped, rest
<1>4. CASE schemas
  <2> DEFINE cells == [k \in Path |-> IF k \in named THEN [rest[Target(db)][k] EXCEPT !.schema = None]
                                     ELSE rest[Target(db)][k]]
  <2>1. Dropped(db, key, schemas) = [rest EXCEPT ![Target(db)] = cells]
    BY <1>4 DEF Dropped, rest, named
  <2>2. Target(db) \in Source => cells \in [Path -> Cell]
    BY <1>1, <1>2
  <2> HIDE DEF cells
  <2> QED
    <3>1. [rest EXCEPT ![Target(db)] = cells] \in [Source -> [Path -> Cell]]
      BY <1>1, <2>2, ExceptType, Zenon
    <3> QED
      BY <2>1, <3>1, Zenon
<1> QED
  BY <1>3, <1>4

LEMMA ModifyType ==
  ASSUME TypeOK, NEW sources \in SUBSET Source, Modify(sources)
  PROVE  unsaved' \subseteq Source /\ syncFailed' \subseteq unsaved'
BY DEF TypeOK, Modify

LEMMA TimersType ==
  ASSUME TypeOK, NEW db \in Db, ScheduleSync(db) \/ SyncNowish(db) \/ UNCHANGED timers
  PROVE  timeouts' \subseteq Db /\ idles' \subseteq Db \ timeouts'
BY DEF TypeOK, ScheduleSync, SyncNowish, timers

(* The part of TypeOK that the requests treat alike. *)
RequestType ==
    /\ store \in [Source -> [Path -> Cell]]
    /\ unsaved \subseteq Source
    /\ syncFailed \subseteq unsaved
    /\ notices \subseteq Notice
    /\ aborted \in {"none", "set", "unset", "recursive_unset", "read_only"}

LEMMA SetValueType ==
  ASSUME TypeOK, NEW db \in Db, NEW r \in Requests, SetValue(db, r.key, r.value)
  PROVE  RequestType' /\ timeouts' \subseteq Db /\ idles' \subseteq Db \ timeouts'
<1>1. r.key \in Path /\ r.value \in Value \cup Schema
  OBVIOUS
<1>2. CASE SetOutcome(db, r.key) = "SUCCESS"
  <2>1. /\ store' = [store EXCEPT ![Target(db)][r.key].val = r.value]
        /\ Modify({Target(db)})
        /\ notices' = {SetNotice(db, r.key, r.value)} \cup NotifyOthers(db, {Target(db)}, r.key)
        /\ ScheduleSync(db)
        /\ UNCHANGED aborted
    BY <1>2 DEF SetValue
  <2>2. Writable(db) # {}
    <3>1. SetStops(db, r.key) # {} /\ Min(SetStops(db, r.key)) \in Writable(db)
      BY <1>2 DEF SetOutcome
    <3> QED
      BY <3>1
  <2>3. Target(db) \in Source
    BY <2>2, TargetType
  <2>4. store' \in [Source -> [Path -> Cell]]
    <3>1. [store[Target(db)][r.key] EXCEPT !.val = r.value] \in Cell
      <4>1. store[Target(db)][r.key] \in Cell
        BY <1>1, <2>3 DEF TypeOK
      <4> QED
        BY <1>1, <4>1, CellUpdate
    <3> QED
      BY <1>1, <2>1, <2>3, <3>1 DEF TypeOK
  <2>5. notices' \subseteq Notice
    <3>1. SetNotice(db, r.key, r.value) \in Notice
      BY <1>1 DEF SetNotice, Notice, Answers
    <3> QED
      BY <1>1, <2>1, <2>4, <3>1, NotifyOthersType DEF StoreType
  <2>6. unsaved' \subseteq Source /\ syncFailed' \subseteq unsaved'
    <3>1. {Target(db)} \in SUBSET Source
      BY <2>3
    <3> QED
      BY <2>1, <3>1, ModifyType
  <2>7. timeouts' \subseteq Db /\ idles' \subseteq Db \ timeouts'
    BY <2>1, TimersType
  <2> QED
    BY <2>1, <2>4, <2>5, <2>6, <2>7 DEF RequestType, TypeOK
<1>3. CASE SetOutcome(db, r.key) = "FAILED"
  BY <1>3 DEF SetValue, RequestType, TypeOK, timers
<1>4. CASE SetOutcome(db, r.key) \notin {"SUCCESS", "FAILED"}
  BY <1>4 DEF SetValue, Refused, RequestType, TypeOK, timers
<1> QED
  BY <1>2, <1>3, <1>4

LEMMA UnsetType ==
  ASSUME TypeOK, NEW db \in Db, NEW key \in Path, Unset(db, key)
  PROVE  RequestType'
<1>1. /\ store' = WithoutValues(UnsetSources(db), {key})
      /\ Modify(UnsetSources(db))
  BY DEF Unset
<1>2. store' \in [Source -> [Path -> Cell]]
  BY <1>1, WithoutValuesType DEF TypeOK, StoreType
<1>3. unsaved' \subseteq Source /\ syncFailed' \subseteq unsaved'
  BY <1>1, UnsetSourcesType, ModifyType
<1>4. UnsetNotice(db, key) \in Notice
  <2>1. DefaultValue(db, key)' \in Value \cup {None}
    <3>1. AnswersTyped'
      BY AnswerType, PTL
    <3> QED
      BY <1>2, <3>1 DEF AnswersTyped, StoreType
  <2> QED
    BY <2>1 DEF UnsetNotice, Notice, Answers
<1>5. notices' \subseteq Notice
  BY <1>2, <1>4, NotifyOthersType DEF Unset, StoreType
<1>6. aborted' \in {"none", "unset"}
  BY DEF Unset
<1> QED
  BY <1>2, <1>3, <1>5, <1>6 DEF RequestType

LEMMA RecursiveUnsetType ==
  ASSUME TypeOK, NEW db \in Db, NEW key \in Path, NEW schemas \in BOOLEAN, NEW emptied,
         RecursiveUnset(db, key, schemas, emptied)
  PROVE  RequestType'
<1>1. CASE UnsetSources(db) = {}
  BY <1>1 DEF RecursiveUnset, RequestType, TypeOK
<1>2. CASE UnsetSources(db) # {}
  <2>1. store' = Dropped(db, key, schemas) /\ Modify(UnsetSources(db)) /\ UNCHANGED aborted
    BY <1>2 DEF RecursiveUnset
  <2>2. store' \in [Source -> [Path -> Cell]]
    BY <2>1, DroppedType DEF TypeOK, StoreType
  <2>3. unsaved' \subseteq Source /\ syncFailed' \subseteq unsaved'
    BY <2>1, UnsetSourcesType, ModifyType
  <2>4. {key} \cup Listed(db, key, emptied) \subseteq Path
    BY DEF Listed, Subtree
  <2>5. UnsetAnswers(db, {key} \cup Listed(db, key, emptied)) \subseteq Notice
    <3>1. ASSUME NEW k \in Path
          PROVE  /\ Answer(db, k) \in Notice
                 /\ [Answer(db, k) EXCEPT !.answer.value = None] \in Notice
      <4>1. QueryValue(db, k)' \in Answers
        <5>1. AnswersTyped'
          BY AnswerType, PTL
        <5> QED
          BY <2>2, <5>1 DEF AnswersTyped, StoreType
      <4>2. [QueryValue(db, k)' EXCEPT !.value = None] \in Answers
        BY <4>1 DEF Answers
      <4> QED
        BY <4>1, <4>2 DEF Answer, Notice
    <3>2. ASSUME NEW k \in Path PROVE NotifyOthers(db, UnsetSources(db), k) \subseteq Notice
      BY <2>2, NotifyOthersType DEF StoreType
    <3>3. ASSUME NEW k \in {key} \cup Listed(db, key, emptied)
          PROVE  (IF QueryFails(db, k)' THEN [Answer(db, k) EXCEPT !.answer.value = None]
                  ELSE Answer(db, k)) \in Notice
      BY <2>4, <3>1
    <3>4. ASSUME NEW n \in UnsetAnswers(db, {key} \cup Listed(db, key, emptied)) PROVE n \in Notice
      <4>1. \/ \E k \in {key} \cup Listed(db, key, emptied) :
                 n = IF QueryFails(db, k)' THEN [Answer(db, k) EXCEPT !.answer.value = None]
                     ELSE Answer(db, k)
            \/ \E k \in {key} \cup Listed(db, key, emptied) : n \in NotifyOthers(db, UnsetSources(db), k)
        BY DEF UnsetAnswers
      <4> QED
        BY <2>4, <3>2, <3>3, <4>1, Zenon
    <3> QED
      BY <3>4
  <2>6. notices' \subseteq Notice
    BY <1>2, <2>5 DEF RecursiveUnset
  <2> QED
    BY <2>1, <2>2, <2>3, <2>6 DEF RequestType, TypeOK
<1> QED
  BY <1>1, <1>2

LEMMA SetSchemaType ==
  ASSUME TypeOK, NEW db \in Db, NEW r \in Described, SetSchema(db, r.key, r.schema)
  PROVE  /\ store' \in [Source -> [Path -> Cell]]
         /\ unsaved' \subseteq Source /\ syncFailed' \subseteq unsaved'
         /\ timeouts' \subseteq Db /\ idles' \subseteq Db \ timeouts'
<1>1. r.key \in Path /\ r.schema \in Path \cup {None}
  OBVIOUS
<1>2. timeouts' \subseteq Db /\ idles' \subseteq Db \ timeouts'
  BY TimersType DEF SetSchema
<1>3. CASE Writable(db) = {}
  BY <1>2, <1>3 DEF SetSchema, TypeOK
<1>4. CASE Writable(db) # {}
  <2>1. Target(db) \in Source
    BY <1>4, TargetType
  <2>2. /\ store' = [store EXCEPT ![Target(db)][r.key].schema = r.schema]
        /\ Modify({Target(db)})
    BY <1>4 DEF SetSchema
  <2>3. [store[Target(db)][r.key] EXCEPT !.schema = r.schema] \in Cell
    <3>1. store[Target(db)][r.key] \in Cell
      BY <1>1, <2>1 DEF TypeOK
    <3> QED
      BY <1>1, <3>1, CellUpdate
  <2>4. store' \in [Source -> [Path -> Cell]]
    BY <1>1, <2>1, <2>2, <2>3 DEF TypeOK
  <2>5. {Target(db)} \in SUBSET Source
    BY <2>1
  <2> QED
    BY <1>2, <2>2, <2>4, <2>5, ModifyType
<1> QED
  BY <1>3, <1>4

(***************************************************************************)
(* Type correctness: whatever the requests, the timers and the failures, a  *)
(* storage holds values in value cells and names in schema cells, only a    *)
(* storage that is unsaved is marked as failed, and no database has both of *)
(* its timers armed.                                                        *)
(***************************************************************************)
THEOREM TypeCorrect == Spec => []TypeOK
<1>1. Init => TypeOK
  BY DEF Init, TypeOK
<1>2. TypeOK /\ [Next]_vars => TypeOK'
  <2> SUFFICES ASSUME TypeOK, [Next]_vars PROVE TypeOK'
    OBVIOUS
  <2>1. CASE HandleSet
    BY <2>1, SetValueType DEF HandleSet, RequestType, TypeOK
  <2>2. CASE HandleUnset
    BY <2>2, UnsetType, TimersType DEF HandleUnset, RequestType, TypeOK
  <2>3. CASE HandleRecursiveUnset
    BY <2>3, RecursiveUnsetType, TimersType DEF HandleRecursiveUnset, RequestType, TypeOK
  <2>4. CASE HandleSetSchema
    <3>1. PICK db \in Db, r \in Described :
            IF Writable(db) # {} /\ Target(db) \in broken
              THEN UNCHANGED <<store, unsaved, syncFailed, timers>>
              ELSE SetSchema(db, r.key, r.schema)
      BY <2>4 DEF HandleSetSchema
    <3>2. CASE SetSchema(db, r.key, r.schema)
      BY <2>4, <3>2, SetSchemaType DEF HandleSetSchema, TypeOK
    <3>3. CASE UNCHANGED <<store, unsaved, syncFailed, timers>>
      BY <2>4, <3>3 DEF HandleSetSchema, TypeOK, timers
    <3> QED
      BY <3>1, <3>2, <3>3
  <2>5. CASE HandleSuggestSync
    BY <2>5, TimersType DEF HandleSuggestSync, TypeOK
  <2>6. ASSUME NEW db \in Db, SyncTimeout(db) PROVE TypeOK'
    BY <2>6 DEF SyncTimeout, TypeOK
  <2>7. ASSUME NEW db \in Db, SyncIdle(db) PROVE TypeOK'
    BY <2>7 DEF SyncIdle, TypeOK
  <2>8. CASE Break
    BY <2>8 DEF Break, TypeOK, timers
  <2>9. CASE Repair
    BY <2>9 DEF Repair, TypeOK, timers
  <2>10. CASE UNCHANGED vars
    BY <2>10 DEF vars, timers, TypeOK
  <2> QED
    BY <2>1, <2>2, <2>3, <2>4, <2>5, <2>6, <2>7, <2>8, <2>9, <2>10 DEF Next
<1> QED
  BY <1>1, <1>2, PTL DEF Spec

-----------------------------------------------------------------------------
(* A request that marks storages of its own stack as unsaved plans a sync.  *)
LEMMA ModifiedIsPlanned ==
  ASSUME UnsavedIsPlanned, aborted = "none", NEW db \in Db,
         NEW sources \in SUBSET Synced(db), Modify(sources),
         ScheduleSync(db) \/ SyncNowish(db)
  PROVE  UnsavedIsPlanned'
<1>1. db \in (timeouts \cup idles)'
  BY DEF ScheduleSync, SyncNowish
<1>2. timeouts \cup idles \subseteq (timeouts \cup idles)'
  BY DEF ScheduleSync, SyncNowish
<1>3. Synced(db)' = Synced(db) /\ \A d : Synced(d)' = Synced(d)
  BY DEF Synced, SourceAt, LayersOf
<1>4. (unsaved \ syncFailed)' \subseteq (unsaved \ syncFailed) \cup sources
  BY DEF Modify
<1> QED
  BY <1>1, <1>2, <1>3, <1>4 DEF UnsavedIsPlanned

LEMMA NothingModified ==
  ASSUME UnsavedIsPlanned, aborted = "none", UNCHANGED <<unsaved, syncFailed>>,
         timeouts \cup idles \subseteq timeouts' \cup idles'
  PROVE  UnsavedIsPlanned'
BY DEF UnsavedIsPlanned, Synced, SourceAt, LayersOf

(***************************************************************************)
(* What is not on disk will be: from type correctness alone.  A request     *)
(* marks only storages of the database it came to, and arms that database;  *)
(* a sync disarms a database after it asked each of its storages.           *)
(***************************************************************************)
THEOREM Planned == Spec => []UnsavedIsPlanned
<1>1. Init => UnsavedIsPlanned
  BY DEF Init, UnsavedIsPlanned
<1>2. UnsavedIsPlanned /\ [Next]_vars => UnsavedIsPlanned'
  <2> SUFFICES ASSUME UnsavedIsPlanned, [Next]_vars PROVE UnsavedIsPlanned'
    OBVIOUS
  <2>1. CASE HandleSet
    <3>1. PICK db \in Db, r \in Requests : SetValue(db, r.key, r.value)
      BY <2>1 DEF HandleSet
    <3>2. aborted = "none"
      BY <2>1 DEF HandleSet
    <3>3. CASE SetOutcome(db, r.key) = "SUCCESS"
      <4>1. Modify({Target(db)}) /\ ScheduleSync(db)
        BY <3>1, <3>3 DEF SetValue
      <4>2. Writable(db) # {}
        BY <3>3 DEF SetOutcome
      <4>3. {Target(db)} \in SUBSET Synced(db)
        BY <4>2, TargetType
      <4> QED
        BY <3>2, <4>1, <4>3, ModifiedIsPlanned
    <3>4. CASE SetOutcome(db, r.key) = "FAILED"
      BY <3>1, <3>4 DEF SetValue, UnsavedIsPlanned
    <3>5. CASE SetOutcome(db, r.key) \notin {"SUCCESS", "FAILED"}
      BY <3>1, <3>2, <3>5, NothingModified DEF SetValue, Refused, timers
    <3> QED
      BY <3>3, <3>4, <3>5
  <2>2. CASE HandleUnset
    <3>1. PICK db \in Db, key \in Path : Unset(db, key) /\ SyncNowish(db)
      BY <2>2 DEF HandleUnset
    <3> QED
      BY <2>2, <3>1, UnsetSourcesType, ModifiedIsPlanned DEF HandleUnset, Unset
  <2>3. CASE HandleRecursiveUnset
    <3>1. PICK db \in Db, key \in Path, schemas \in BOOLEAN, emptied \in SUBSET Path :
           
            RecursiveUnset(db, key, schemas, emptied) /\ SyncNowish(db)
      BY <2>3 DEF HandleRecursiveUnset, Subtree
    <3>2. CASE UnsetSources(db) = {}
      BY <3>1, <3>2 DEF RecursiveUnset, UnsavedIsPlanned
    <3>3. CASE UnsetSources(db) # {}
      BY <2>3, <3>1, <3>3, UnsetSourcesType, ModifiedIsPlanned
         DEF HandleRecursiveUnset, RecursiveUnset
    <3> QED
      BY <3>2, <3>3
  <2>4. CASE HandleSetSchema
    <3>1. PICK db \in Db, r \in Described :
            IF Writable(db) # {} /\ Target(db) \in broken
              THEN UNCHANGED <<store, unsaved, syncFailed, timers>>
              ELSE SetSchema(db, r.key, r.schema)
      BY <2>4 DEF HandleSetSchema
    <3>2. aborted = "none"
      BY <2>4 DEF HandleSetSchema
    <3>3. CASE UNCHANGED <<store, unsaved, syncFailed, timers>>
      BY <3>2, <3>3, NothingModified DEF timers
    <3>4. CASE SetSchema(db, r.key, r.schema) /\ Writable(db) # {}
      <4>1. {Target(db)} \in SUBSET Synced(db)
        BY <3>4, TargetType
      <4> QED
        BY <3>2, <3>4, <4>1, ModifiedIsPlanned DEF SetSchema
    <3>5. CASE SetSchema(db, r.key, r.schema) /\ Writable(db) = {}
      BY <3>2, <3>5, NothingModified DEF SetSchema, ScheduleSync
    <3> QED
      BY <3>1, <3>3, <3>4, <3>5
  <2>5. CASE HandleSuggestSync
    BY <2>5, NothingModified DEF HandleSuggestSync, SyncNowish
  <2>6. ASSUME NEW db \in Db, SyncTimeout(db) PROVE UnsavedIsPlanned'
    BY <2>6, NothingModified DEF SyncTimeout
  <2>7. ASSUME NEW db \in Db, SyncIdle(db) PROVE UnsavedIsPlanned'
    <3>1. ASSUME NEW s \in (unsaved \ syncFailed)'
          PROVE  s \in unsaved \ syncFailed /\ s \notin Synced(db)
      BY <2>7 DEF SyncIdle
    <3>2. \A d : Synced(d)' = Synced(d)
      BY DEF Synced, SourceAt, LayersOf
    <3>3. (timeouts \cup idles)' = (timeouts \cup idles) \ {db}
      BY <2>7 DEF SyncIdle
    <3> QED
      BY <2>7, <3>1, <3>2, <3>3 DEF SyncIdle, UnsavedIsPlanned
  <2>8. CASE Break
    BY <2>8 DEF Break, timers, UnsavedIsPlanned, Synced, SourceAt, LayersOf
  <2>9. CASE Repair
    BY <2>9 DEF Repair, timers, UnsavedIsPlanned, Synced, SourceAt, LayersOf
  <2>10. CASE UNCHANGED vars
    BY <2>10 DEF vars, timers, UnsavedIsPlanned, Synced, SourceAt, LayersOf
  <2> QED
    BY <2>1, <2>2, <2>3, <2>4, <2>5, <2>6, <2>7, <2>8, <2>9, <2>10 DEF Next
<1> QED
  BY <1>1, <1>2, PTL DEF Spec

-----------------------------------------------------------------------------
(***************************************************************************)
(* A query that succeeds has met no failing layer down to the one that      *)
(* holds the key; one that finds no value has asked every layer.            *)
(***************************************************************************)
LEMMA QueryAsks ==
  ASSUME NEW db \in Db, NEW key \in Path, ~WalkFails(db, key, TRUE)
  PROVE  /\ Holding(db, key) # {} => ~Fails(db, Min(Holding(db, key)))
         /\ Holding(db, key) = {} => \A i \in LayersOf(db) : ~Fails(db, i)
<1>1. ASSUME Holding(db, key) # {} PROVE ~Fails(db, Min(Holding(db, key)))
  <2>1. /\ Min(Holding(db, key)) \in LayersOf(db)
        /\ \A h \in Holding(db, key) : Min(Holding(db, key)) <= h
    BY <1>1, HoldingType, MinOf
  <2> QED
    BY <2>1 DEF WalkFails, Visits
<1>2. ASSUME Holding(db, key) = {}, NEW i \in LayersOf(db) PROVE ~Fails(db, i)
  BY <1>2 DEF WalkFails, Visits
<1> QED
  BY <1>1, <1>2

(***************************************************************************)
(* The writable flag of a query tells the truth, of any stack in any state: *)
(* both walks end at the layer that holds the key or at a writable one      *)
(* before it, and the query, having succeeded, has seen what the set sees.  *)
(***************************************************************************)
THEOREM Settable == Spec => []SettableIffWritable
<1>1. SettableIffWritable
  <2> SUFFICES ASSUME NEW db \in Db, NEW key \in Path, ~QueryFails(db, key)
               PROVE  QueryWritable(db, key) <=> SetOutcome(db, key) \in {"SUCCESS", "FAILED"}
    BY DEF SettableIffWritable
  <2> DEFINE stop == Min(SetStops(db, key))
  <2>1. SetStops(db, key) \in SUBSET Nat
    BY LayersType, HoldingType DEF SetStops
  <2>2. SetStops(db, key) # {} => stop \in SetStops(db, key) /\ \A i \in SetStops(db, key) : stop <= i
    BY <2>1, MinOf
  <2>3. SetOutcome(db, key) \in {"SUCCESS", "FAILED"} <=> SetStops(db, key) # {} /\ stop \in Writable(db)
    BY DEF SetOutcome
  <2> HIDE DEF stop
  <2>4. ASSUME QueryWritable(db, key)
        PROVE  SetStops(db, key) # {} /\ stop \in Writable(db)
    <3>1. PICK i \in Writable(db) : \A h \in Holding(db, key) : i <= h
      BY <2>4 DEF QueryWritable
    <3>2. i \in SetStops(db, key)
      BY <3>1 DEF SetStops
    <3>3. CASE stop \in Holding(db, key)
      <4>1. stop <= i /\ i <= stop /\ stop \in Nat /\ i \in Nat
        BY <2>1, <2>2, <3>1, <3>2, <3>3
      <4>2. stop = i
        BY <4>1
      <4> QED
        BY <3>2, <4>2
    <3> QED
      BY <2>2, <3>2, <3>3 DEF SetStops
  <2>5. ASSUME SetStops(db, key) # {}, stop \in Writable(db)
        PROVE  QueryWritable(db, key)
    <3>1. ASSUME Holding(db, key) # {} PROVE \A h \in Holding(db, key) : stop <= h
      <4> DEFINE first == Min(Holding(db, key))
      <4>1. first \in Holding(db, key) /\ \A h \in Holding(db, key) : first <= h
        BY <3>1, HoldingType, MinOf
      <4>2. ~Fails(db, first)
        BY <3>1, QueryAsks DEF QueryFails
      <4>3. first \in SetStops(db, key)
        BY <4>1, <4>2 DEF SetStops
      <4>4. stop <= first /\ stop \in Nat /\ first \in Nat
        BY <2>1, <2>2, <4>3
      <4> HIDE DEF first
      <4>5. \A h \in Holding(db, key) : h \in Nat
        BY HoldingType
      <4> QED
        BY <4>1, <4>4, <4>5
    <3> QED
      BY <2>5, <3>1 DEF QueryWritable
  <2> QED
    BY <2>3, <2>4, <2>5
<1> QED
  BY <1>1, PTL

(***************************************************************************)
(* A set of layers that is not empty has a last one, which Max finds.       *)
(***************************************************************************)
LEMMA MaxOf ==
  ASSUME NEW db \in Db, NEW S \in SUBSET LayersOf(db), S # {}
  PROVE  Max(S) \in S /\ \A x \in S : x <= Max(S)
<1> DEFINE n == Len(Layers[db])
           Back == {n - x : x \in S}
<1>1. n \in Nat /\ LayersOf(db) = 1 .. n
  <2>1. Layers[db] \in Seq([src : Source, writable : BOOLEAN])
    OBVIOUS
  <2> QED
    BY <2>1, LenProperties DEF LayersOf
<1> HIDE DEF n
<1>2. Back \in SUBSET Nat /\ Back # {}
  BY <1>1
<1>3. Min(Back) \in Back /\ \A y \in Back : Min(Back) <= y
  <2> HIDE DEF Back
  <2> QED
    BY <1>2, MinOf
<1>4. PICK last \in S : Min(Back) = n - last
  BY <1>3
<1>5. \A x \in S : x <= last
  <2> SUFFICES ASSUME NEW x \in S PROVE x <= last
    OBVIOUS
  <2>1. x \in Nat /\ last \in Nat
    BY <1>1
  <2>2. n - x \in Back
    OBVIOUS
  <2>3. n - last <= n - x
    <3> HIDE DEF Back
    <3> QED
      BY <1>3, <1>4, <2>2
  <2> HIDE DEF Back
  <2> QED
    BY <1>1, <2>1, <2>3
<1>6. \A x \in S : last >= x
  BY <1>1, <1>5
<1> QED
  BY <1>1, <1>6 DEF Max

(***************************************************************************)
(* A listing agrees with the queries of its keys, of any stack in any state *)
(* and whatever emptied entries it comes upon.  A key with a value is judged *)
(* from the first layer that holds it, as by the query; one without from    *)
(* the last layer that has it.                                              *)
(***************************************************************************)
THEOREM Entries == Spec => []EntriesMatchQueries
<1>1. EntriesMatchQueries
  <2> SUFFICES ASSUME NEW db \in Db, NEW key \in Path,
                      NEW emptied \in SUBSET (LayersOf(db) \ Describing(db, key)),
                      Exists(db, key) \/ emptied # {}
               PROVE  ListedAsQueried(db, key, emptied)
    BY DEF EntriesMatchQueries
  <2> DEFINE has == Describing(db, key) \cup emptied
             entry == EntryOf(db, key, emptied)
             InFront == \A n \in has, i \in Writable(db) : n < i
  <2>1. entry.value = QueryValue(db, key).value
    BY DEF EntryOf, QueryValue
  <2>2. entry.writable <=> \E i \in Writable(db) : i <= EntryLayer(db, key, emptied)
    BY DEF EntryOf
  <2>3. Writable(db) \subseteq Nat /\ Holding(db, key) \subseteq Nat /\ has \subseteq Nat
    BY LayersType, HoldingType
  <2>4. CASE Holding(db, key) = {}
    <3>1. QueryWritable(db, key) <=> Writable(db) # {}
      BY <2>4 DEF QueryWritable
    <3>2. has # {} /\ has \in SUBSET LayersOf(db)
      BY <2>4, HoldingType DEF Exists
    <3>3. PICK last \in has : last = EntryLayer(db, key, emptied) /\ \A n \in has : n <= last
      BY <2>4, <3>2, MaxOf DEF EntryLayer
    <3>4. ASSUME ~InFront PROVE entry.writable
      <4>1. PICK n \in has, i \in Writable(db) : ~(n < i)
        BY <3>4
      <4>2. i <= last
        BY <2>3, <3>3, <4>1
      <4> QED
        BY <2>2, <3>3, <4>2
    <3> HIDE DEF entry, has, InFront
    <3>5. entry.writable => QueryWritable(db, key)
      BY <2>2, <3>1
    <3> QED
      BY <2>1, <2>4, <3>4, <3>5 DEF ListedAsQueried, entry, has, InFront
  <2>5. CASE Holding(db, key) # {}
    <3> DEFINE first == Min(Holding(db, key))
    <3>1. /\ EntryLayer(db, key, emptied) = first /\ first \in Holding(db, key)
          /\ \A h \in Holding(db, key) : first <= h
      BY <2>5, HoldingType, MinOf DEF EntryLayer
    <3> HIDE DEF first, entry
    <3>2. \A i \in Writable(db) : i <= first <=> \A h \in Holding(db, key) : i <= h
      BY <2>3, <3>1
    <3>3. entry.writable <=> QueryWritable(db, key)
      BY <2>2, <3>1, <3>2 DEF QueryWritable
    <3> QED
      BY <2>1, <3>3 DEF ListedAsQueried, entry
  <2> QED
    BY <2>4, <2>5
<1> QED
  BY <1>1, PTL

-----------------------------------------------------------------------------
(* What NoticesMatchQueries asks of one notice. *)
IsTrue(n) ==
    \/ QueryFails(n.db, n.key)
    \/ n.answer = QueryValue(n.db, n.key)
    \/ n.unset /\ (\/ n.answer.value = QueryValue(n.db, n.key).value
                   \/ Holding(n.db, n.key) # {})

(* The other databases are told what was just queried of them. *)
LEMMA OthersAreTrue ==
  ASSUME NEW db \in Db, NEW sources, NEW key \in Path,
         NEW n \in NotifyOthers(db, sources, key)
  PROVE  IsTrue(n)'
<1>1. PICK i \in DOMAIN DbList : n = Answer(DbList[i], key)
  BY DEF NotifyOthers, Concerned
<1> DEFINE d == DbList[i]
<1>2. n.db = d /\ n.key = key /\ n.answer = QueryValue(d, key)'
  BY <1>1 DEF Answer
<1>3. QueryValue(n.db, n.key)' = QueryValue(d, key)'
  BY <1>2
<1> QED
  BY <1>2, <1>3 DEF IsTrue

(* The first layer that holds a key gives its value. *)
FirstHolds ==
    \A db \in Db, key \in Path :
        Holding(db, key) # {} =>
            \E f \in Holding(db, key) :
                /\ \A h \in Holding(db, key) : f <= h
                /\ StoredValue(db, key) = CellAt(db, f, key).val
                /\ ~WalkFails(db, key, TRUE) => ~Fails(db, f)

LEMMA FirstLayer == FirstHolds
<1> SUFFICES ASSUME NEW db \in Db, NEW key \in Path, Holding(db, key) # {}
             PROVE  \E f \in Holding(db, key) :
                      /\ \A h \in Holding(db, key) : f <= h
                      /\ StoredValue(db, key) = CellAt(db, f, key).val
                      /\ ~WalkFails(db, key, TRUE) => ~Fails(db, f)
  BY DEF FirstHolds
<1>1. /\ Min(Holding(db, key)) \in Holding(db, key)
      /\ \A h \in Holding(db, key) : Min(Holding(db, key)) <= h
  BY HoldingType, MinOf
<1>2. StoredValue(db, key) = CellAt(db, Min(Holding(db, key)), key).val
  BY DEF StoredValue
<1> QED
  BY <1>1, <1>2, QueryAsks

(***************************************************************************)
(* After a set that went through, the layer written is the first to hold    *)
(* the key, unless a query of the key fails on its way there.               *)
(***************************************************************************)
LEMMA SetIsSeen ==
  ASSUME TypeOK, NEW db \in Db, NEW r \in Requests,
         SetOutcome(db, r.key) = "SUCCESS",
         store' = [store EXCEPT ![Target(db)][r.key].val = r.value],
         UNCHANGED broken, ~WalkFails(db, r.key, TRUE)'
  PROVE  QueryValue(db, r.key)' = [value |-> r.value, isDefault |-> FALSE, writable |-> TRUE]
<1> DEFINE key == r.key
           m == Min(Writable(db))
           stop == Min(SetStops(db, key))
<1>1. key \in Path /\ r.value \in Value \cup Schema /\ r.value # None
  OBVIOUS
<1>2. SetStops(db, key) \in SUBSET Nat /\ SetStops(db, key) # {} /\ stop \in Writable(db)
  BY LayersType, HoldingType DEF SetStops, SetOutcome
<1>3. stop \in SetStops(db, key) /\ \A i \in SetStops(db, key) : stop <= i
  BY <1>2, MinOf
<1>4. m \in Writable(db) /\ \A i \in Writable(db) : m <= i
  BY <1>2, TargetType
<1>5. m = stop
  <2>1. m <= stop /\ stop <= m /\ m \in Nat /\ stop \in Nat
    BY <1>2, <1>3, <1>4 DEF SetStops
  <2> HIDE DEF m, stop
  <2> QED
    BY <2>1
<1>6. m \in LayersOf(db) /\ SourceAt(db, m) = Target(db) /\ Target(db) \in Source
  BY <1>4, LayersType, TargetType DEF Target
<1> HIDE DEF m, stop
<1>7. store'[Target(db)][key].val = r.value
  BY <1>1, <1>6 DEF TypeOK, Cell
<1>8. m \in Holding(db, key)'
  BY <1>1, <1>6, <1>7 DEF Holding, CellAt, LayersOf, SourceAt
<1>9. ASSUME NEW h \in LayersOf(db), SourceAt(db, h) # Target(db)
      PROVE  CellAt(db, h, key)' = CellAt(db, h, key)
  <2>1. SourceAt(db, h) \in Source
    BY <1>9, LayersType
  <2>2. store'[SourceAt(db, h)] = store[SourceAt(db, h)]
    BY <1>9, <2>1 DEF TypeOK
  <2> QED
    BY <2>2 DEF CellAt, SourceAt
<1>10. Holding(db, key)' \in SUBSET Nat /\ Holding(db, key)' \subseteq LayersOf(db)
  BY LayersType DEF Holding, LayersOf
<1>11. PICK first \in Holding(db, key)' :
          /\ \A h \in Holding(db, key)' : first <= h
          /\ StoredValue(db, key)' = CellAt(db, first, key)'.val
          /\ ~Fails(db, first)'
  <2>1. FirstHolds'
    BY FirstLayer, PTL
  <2> QED
    BY <1>1, <1>8, <2>1 DEF FirstHolds
<1>12. ~Fails(db, first)
  BY <1>11 DEF Fails, SourceAt
<1>13. m <= first
  <2>1. CASE SourceAt(db, first) = Target(db)
    <3>1. first = m
      BY <1>6, <1>10, <1>11, <2>1, LayersType
    <3> QED
      BY <3>1, <1>10, <1>11
  <2>2. CASE SourceAt(db, first) # Target(db)
    <3>1. first \in Holding(db, key)
      BY <1>9, <1>10, <1>11, <2>2 DEF Holding, LayersOf
    <3> QED
      BY <1>3, <1>5, <1>12, <3>1 DEF SetStops
  <2> QED
    BY <2>1, <2>2
<1>14. m = first
  BY <1>8, <1>10, <1>11, <1>13
<1>15. StoredValue(db, key)' = r.value
  BY <1>6, <1>7, <1>11, <1>14 DEF CellAt, SourceAt
<1>16. Defaulted(db, key)' = FALSE
  BY <1>8 DEF Defaulted
<1>17. QueryWritable(db, key)' = TRUE
  <2>1. \A h \in Holding(db, key)' : m <= h
    BY <1>11, <1>14
  <2> QED
    BY <1>4, <2>1 DEF QueryWritable, Writable, LayersOf
<1> QED
  BY <1>15, <1>16, <1>17 DEF QueryValue

(* When no layer holds a key, its default is what a query answers. *)
DefaultIsSeen ==
    \A db \in Db, key \in Path :
        Holding(db, key) = {} /\ ~QueryFails(db, key) =>
            DefaultValue(db, key) = QueryValue(db, key).value

LEMMA DefaultSeen == DefaultIsSeen
<1> SUFFICES ASSUME NEW db \in Db, NEW key \in Path,
                    Holding(db, key) = {}, ~QueryFails(db, key)
             PROVE  DefaultValue(db, key) = QueryValue(db, key).value
  BY DEF DefaultIsSeen
<1>1. \A i \in LayersOf(db) : ~Fails(db, i)
  BY QueryAsks DEF QueryFails
<1>2. \A k : ~WalkFails(db, k, TRUE)
  BY <1>1 DEF WalkFails
<1>3. {i \in Describing(db, key) : ~Fails(db, i)} = Describing(db, key)
  BY <1>1 DEF Describing
<1>4. MetaSchema(db, key) = SchemaName(db, key)
  BY <1>3 DEF MetaSchema, SchemaName
<1>5. CASE Describing(db, key) = {}
  BY <1>4, <1>5 DEF SchemaName, DefaultValue, QueryValue, Defaulted, StoredValue
<1>6. CASE Describing(db, key) # {}
  <2>1. Min(Describing(db, key)) \in Describing(db, key)
    BY <1>6, HoldingType, MinOf
  <2>2. SchemaName(db, key) # None
    BY <1>6, <2>1 DEF SchemaName, Describing
  <2> QED
    BY <1>2, <1>4, <1>6, <2>2 DEF DefaultValue, QueryValue, Defaulted
<1> QED
  BY <1>5, <1>6

LEMMA UnsetIsTrue ==
  ASSUME NEW db \in Db, NEW key \in Path, NEW n, n = UnsetNotice(db, key)
  PROVE  IsTrue(n)'
<1>1. /\ n.db = db /\ n.key = key /\ n.unset = TRUE
      /\ n.answer.value = DefaultValue(db, key)'
  BY DEF UnsetNotice
<1>2. DefaultIsSeen'
  BY DefaultSeen, PTL
<1>3. \/ Holding(db, key)' # {} \/ QueryFails(db, key)'
      \/ DefaultValue(db, key)' = QueryValue(db, key)'.value
  BY <1>2 DEF DefaultIsSeen
<1> QED
  BY <1>1, <1>3 DEF IsTrue

LEMMA SetIsTrue ==
  ASSUME TypeOK, NEW db \in Db, NEW r \in Requests,
         SetOutcome(db, r.key) = "SUCCESS",
         store' = [store EXCEPT ![Target(db)][r.key].val = r.value],
         UNCHANGED broken, NEW n, n = SetNotice(db, r.key, r.value)
  PROVE  IsTrue(n)'
<1>1. n.db = db /\ n.key = r.key
  BY DEF SetNotice
<1>2. n.answer = [value |-> r.value, isDefault |-> FALSE, writable |-> TRUE]
  BY DEF SetNotice
<1>3. QueryFails(db, r.key)' \/ n.answer = QueryValue(db, r.key)'
  BY <1>2, SetIsSeen DEF QueryFails
<1> QED
  BY <1>1, <1>3 DEF IsTrue

LEMMA UnsetAnswersAreTrue ==
  ASSUME NEW db \in Db, NEW keys \in SUBSET Path, NEW n \in UnsetAnswers(db, keys)
  PROVE  IsTrue(n)'
<1>1. \/ \E k \in keys : n = IF QueryFails(db, k)' THEN [Answer(db, k) EXCEPT !.answer.value = None]
                           ELSE Answer(db, k)
      \/ \E k \in keys : n \in NotifyOthers(db, UnsetSources(db), k)
  BY DEF UnsetAnswers
<1>2. ASSUME NEW k \in keys, n \in NotifyOthers(db, UnsetSources(db), k) PROVE IsTrue(n)'
  BY <1>2, OthersAreTrue
<1>3. ASSUME NEW k \in keys, QueryFails(db, k)',
             n = [Answer(db, k) EXCEPT !.answer.value = None]
      PROVE  IsTrue(n)'
  <2>1. n.db = db /\ n.key = k
    BY <1>3 DEF Answer
  <2> QED
    BY <1>3, <2>1 DEF IsTrue
<1>4. ASSUME NEW k \in keys, n = Answer(db, k) PROVE IsTrue(n)'
  <2>1. n.db = db /\ n.key = k /\ n.answer = QueryValue(db, k)'
    BY <1>4 DEF Answer
  <2> QED
    BY <2>1 DEF IsTrue
<1> QED
  BY <1>1, <1>2, <1>3, <1>4

(* Nothing but the stores and their failures decides an answer. *)
LEMMA SameAnswers ==
  ASSUME UNCHANGED <<store, broken>>, NEW db, NEW key
  PROVE  /\ QueryValue(db, key)' = QueryValue(db, key)
         /\ QueryFails(db, key)' <=> QueryFails(db, key)
         /\ Holding(db, key)' = Holding(db, key)
<1>1. \A i, k : CellAt(db, i, k)' = CellAt(db, i, k)
  BY DEF CellAt, SourceAt
<1>2. \A k : Holding(db, k)' = Holding(db, k) /\ Describing(db, k)' = Describing(db, k)
  BY <1>1 DEF Holding, Describing, LayersOf
<1>3. \A k : StoredValue(db, k)' = StoredValue(db, k) /\ SchemaName(db, k)' = SchemaName(db, k)
  BY <1>1, <1>2 DEF StoredValue, SchemaName
<1>4. \A k : Defaulted(db, k)' = Defaulted(db, k)
  BY <1>2 DEF Defaulted
<1>5. \A k, w : WalkFails(db, k, w)' <=> WalkFails(db, k, w)
  BY <1>2 DEF WalkFails, Visits, Fails, SourceAt, LayersOf
<1>6. QueryWritable(db, key)' = QueryWritable(db, key)
  BY <1>2 DEF QueryWritable, Writable, LayersOf
<1>7. \A k : SchemaDefault(db, k)' = SchemaDefault(db, k)
  BY <1>3 DEF SchemaDefault
<1>8. QueryValue(db, key)' = QueryValue(db, key)
  BY <1>3, <1>4, <1>6, <1>7 DEF QueryValue
<1>9. QueryFails(db, key)' <=> QueryFails(db, key)
  <2>1. WalkFails(db, SchemaName(db, key), FALSE)' <=> WalkFails(db, SchemaName(db, key), FALSE)
    BY <1>3, <1>5
  <2>2. StoredValue(db, SchemaName(db, key))' = StoredValue(db, SchemaName(db, key))
    BY <1>3
  <2>3. WalkFails(db, key, TRUE)' <=> WalkFails(db, key, TRUE)
    BY <1>5
  <2> QED
    BY <1>4, <2>1, <2>2, <2>3 DEF QueryFails
<1> QED
  BY <1>2, <1>8, <1>9

(***************************************************************************)
(* A client that is told a value is told what it would get by asking, but   *)
(* for an unset of a key that another layer holds.  Every notice was        *)
(* computed after the change it tells of, and nothing happens to the stores *)
(* before the next request empties the list.                                *)
(***************************************************************************)
THEOREM Notices == Spec => []NoticesMatchQueries
<1>1. NoticesMatchQueries <=> \A n \in notices : IsTrue(n)
  BY DEF NoticesMatchQueries, IsTrue
<1>2. NoticesMatchQueries' <=> \A n \in notices' : IsTrue(n)'
  BY DEF NoticesMatchQueries, IsTrue
<1>3. Init => NoticesMatchQueries
  BY DEF Init, NoticesMatchQueries
<1>4. TypeOK /\ NoticesMatchQueries /\ [Next]_vars => NoticesMatchQueries'
  <2> SUFFICES ASSUME TypeOK, NoticesMatchQueries, [Next]_vars PROVE NoticesMatchQueries'
    OBVIOUS
  <2>1. CASE HandleSet
    <3>1. PICK db \in Db, r \in Requests : SetValue(db, r.key, r.value)
      BY <2>1 DEF HandleSet
    <3>2. CASE SetOutcome(db, r.key) = "SUCCESS"
      <4>1. /\ store' = [store EXCEPT ![Target(db)][r.key].val = r.value]
            /\ notices' = {SetNotice(db, r.key, r.value)}
                           \cup NotifyOthers(db, {Target(db)}, r.key)
            /\ UNCHANGED broken
        BY <2>1, <3>1, <3>2 DEF SetValue, HandleSet
      <4>2. ASSUME NEW n \in notices' PROVE IsTrue(n)'
        BY <3>2, <4>1, SetIsTrue, OthersAreTrue
      <4> QED
        BY <1>2, <4>2
    <3>3. CASE SetOutcome(db, r.key) # "SUCCESS"
      <4>1. notices' = {}
        BY <3>1, <3>3 DEF SetValue, Refused
      <4> QED
        BY <4>1 DEF NoticesMatchQueries
    <3> QED
      BY <3>2, <3>3
  <2>2. CASE HandleUnset
    <3>1. PICK db \in Db, key \in Path : Unset(db, key)
      BY <2>2 DEF HandleUnset
    <3>2. notices' \subseteq {UnsetNotice(db, key)} \cup NotifyOthers(db, UnsetSources(db), key)
      BY <3>1 DEF Unset
    <3>3. ASSUME NEW n \in notices' PROVE IsTrue(n)'
      BY <3>2, UnsetIsTrue, OthersAreTrue
    <3> QED
      BY <1>2, <3>3
  <2>3. CASE HandleRecursiveUnset
    <3>1. PICK db \in Db, key \in Path, schemas \in BOOLEAN, emptied \in SUBSET Path :
            RecursiveUnset(db, key, schemas, emptied)
      BY <2>3 DEF HandleRecursiveUnset, Subtree
    <3>2. {key} \cup Listed(db, key, emptied) \in SUBSET Path
      BY DEF Listed, Subtree
    <3>3. notices' \subseteq UnsetAnswers(db, {key} \cup Listed(db, key, emptied))
      BY <3>1 DEF RecursiveUnset
    <3>4. ASSUME NEW n \in notices' PROVE IsTrue(n)'
      BY <3>2, <3>3, UnsetAnswersAreTrue
    <3> QED
      BY <1>2, <3>4
  <2>4. CASE notices' = {}
    BY <2>4 DEF NoticesMatchQueries
  <2>5. CASE UNCHANGED vars
    <3>1. notices' = notices /\ UNCHANGED <<store, broken>>
      BY <2>5 DEF vars
    <3>2. ASSUME NEW n \in notices PROVE IsTrue(n)'
      <4>1. /\ QueryValue(n.db, n.key)' = QueryValue(n.db, n.key)
            /\ QueryFails(n.db, n.key)' <=> QueryFails(n.db, n.key)
            /\ Holding(n.db, n.key)' = Holding(n.db, n.key)
        BY <3>1, SameAnswers
      <4>2. IsTrue(n)
        BY DEF NoticesMatchQueries, IsTrue
      <4> QED
        BY ONLY <4>1, <4>2 DEF IsTrue
    <3> QED
      BY ONLY <1>2, <3>1, <3>2
  <2> QED
    BY <2>1, <2>2, <2>3, <2>4, <2>5
       DEF Next, HandleSetSchema, HandleSuggestSync, SyncTimeout, SyncIdle, Break, Repair
<1> QED
  BY <1>3, <1>4, TypeCorrect, PTL DEF Spec

-----------------------------------------------------------------------------
(***************************************************************************)
(* When the value a stack gives for a key changes, a layer of it changed    *)
(* with none that holds the key in front: the least of all layers that hold *)
(* the key before or after.                                                 *)
(***************************************************************************)
LEMMA ChangedLayer ==
  ASSUME NEW d \in Db, NEW key \in Path, StoredValue(d, key)' # StoredValue(d, key)
  PROVE  \E i \in LayersOf(d) :
           /\ CellAt(d, i, key)'.val # CellAt(d, i, key).val
           /\ \A h \in Holding(d, key)' : i <= h
<1>1. PICK both : both = Holding(d, key) \cup Holding(d, key)'
  OBVIOUS
<1>2. Holding(d, key)' \subseteq LayersOf(d)
  BY DEF Holding, LayersOf
<1>3. both \in SUBSET Nat /\ both \subseteq LayersOf(d)
  BY <1>1, <1>2, HoldingType, LayersType
<1>4. both # {}
  BY <1>1 DEF StoredValue
<1>5. PICK m \in both : \A x \in both : m <= x
  BY <1>3, <1>4, MinOf
<1>6. SUFFICES ASSUME CellAt(d, m, key)'.val = CellAt(d, m, key).val PROVE FALSE
  BY <1>1, <1>3, <1>5
<1>7. m \in Holding(d, key) /\ m \in Holding(d, key)'
  BY <1>1, <1>5, <1>6 DEF Holding, LayersOf
<1>8. StoredValue(d, key) = CellAt(d, m, key).val
  <2>1. PICK f \in Holding(d, key) : /\ \A h \in Holding(d, key) : f <= h
                                     /\ StoredValue(d, key) = CellAt(d, f, key).val
    BY <1>7, FirstLayer DEF FirstHolds
  <2>2. f = m
    BY <1>1, <1>3, <1>5, <1>7, <2>1
  <2> QED
    BY <2>1, <2>2
<1>9. StoredValue(d, key)' = CellAt(d, m, key)'.val
  <2>1. FirstHolds'
    BY FirstLayer, PTL
  <2>2. PICK f \in Holding(d, key)' : /\ \A h \in Holding(d, key)' : f <= h
                                      /\ StoredValue(d, key)' = CellAt(d, f, key)'.val
    BY <1>7, <2>1 DEF FirstHolds
  <2>3. f = m
    BY <1>1, <1>3, <1>5, <1>7, <2>2
  <2> QED
    BY <2>2, <2>3
<1> QED
  BY <1>6, <1>8, <1>9

AllAnswer(key) == \A d \in Db : ~QueryFails(d, key)

(* Then another database with that layer is told, if every query succeeds. *)
LEMMA OtherIsTold ==
  ASSUME NEW db \in Db, NEW d \in Db \ {db}, NEW key \in Path, NEW sources,
         NEW s \in sources, IsAffected(d, s, key)', AllAnswer(key)'
  PROVE  \E n \in NotifyOthers(db, sources, key) : n.db = d /\ n.key = key
<1>2. PICK j \in DOMAIN DbList : DbList[j] = d
  OBVIOUS
<1>3. j \in Concerned(db, sources, key)
  BY <1>2 DEF Concerned
<1>4. \A k \in DOMAIN DbList : DbList[k] \in Db
  BY LenProperties, ElementOfSeq
<1>5. {k \in Concerned(db, sources, key) : QueryFails(DbList[k], key)'} = {}
  BY <1>4 DEF Concerned, AllAnswer
<1>6. Answer(DbList[j], key) \in NotifyOthers(db, sources, key)
  BY <1>3, <1>5 DEF NotifyOthers
<1>7. Answer(DbList[j], key).db = d /\ Answer(DbList[j], key).key = key
  BY <1>2 DEF Answer
<1> QED
  BY <1>6, <1>7

(* An unset changes the values of the keys it is for, where it was done. *)
LEMMA UnsetChanges ==
  ASSUME TypeOK, NEW sources, NEW keys, NEW s \in Source, NEW k \in Path,
         WithoutValues(sources, keys)[s][k].val # store[s][k].val
  PROVE  s \in sources /\ k \in keys
BY DEF WithoutValues

LEMMA DroppedChanges ==
  ASSUME TypeOK, NEW db \in Db, NEW key \in Path, NEW schemas \in BOOLEAN,
         NEW s \in Source, NEW k \in Path,
         Dropped(db, key, schemas)[s][k].val # store[s][k].val
  PROVE  s \in UnsetSources(db) /\ k \in {key} \cup Listed(db, key, {})
<1> DEFINE rest == WithoutValues(UnsetSources(db), {key} \cup Listed(db, key, {}))
           named == {p \in Listed(db, key, {}) : Exists(db, p)}
<1>1. rest \in [Source -> [Path -> Cell]]
  BY WithoutValuesType DEF TypeOK, StoreType
<1>2. CASE ~schemas
  BY <1>2, UnsetChanges DEF Dropped
<1>3. CASE schemas
  <2> HIDE DEF rest, named
  <2>1. Dropped(db, key, schemas) =
          [rest EXCEPT ![Target(db)] =
             [p \in Path |-> IF p \in named THEN [@[p] EXCEPT !.schema = None] ELSE @[p]]]
    BY <1>3 DEF Dropped, rest, named
  <2>2. rest[s][k] \in Cell
    BY <1>1
  <2>3. [rest[s][k] EXCEPT !.schema = None].val = rest[s][k].val
    BY <2>2 DEF Cell
  <2>4. Dropped(db, key, schemas)[s][k].val = rest[s][k].val
    BY <1>1, <2>1, <2>3
  <2> QED
    BY <2>4, UnsetChanges DEF rest
<1> QED
  BY <1>2, <1>3

(* The layer that changed, with the storage it is on. *)
LEMMA ChangedStorage ==
  ASSUME TypeOK, NEW d \in Db, NEW key \in Path, StoredValue(d, key)' # StoredValue(d, key)
  PROVE  \E i \in LayersOf(d) :
           /\ SourceAt(d, i) \in Source
           /\ store'[SourceAt(d, i)][key].val # store[SourceAt(d, i)][key].val
           /\ \A h \in Holding(d, key)' : i <= h
<1>1. PICK i \in LayersOf(d) : /\ CellAt(d, i, key)'.val # CellAt(d, i, key).val
                               /\ \A h \in Holding(d, key)' : i <= h
  BY ChangedLayer
<1> QED
  BY <1>1, LayersType DEF CellAt, SourceAt

(***************************************************************************)
(* No silent change: the step that changes what a database stores for a key *)
(* announces the key there, when no storage fails and every database can    *)
(* answer for the key.                                                      *)
(***************************************************************************)
THEOREM Noticed == Spec => ChangesAreNoticed
<1> DEFINE Told(d, key) == \E n \in notices' : n.db = d /\ n.key = key
           Step == broken = {} =>
                     \A db \in Db, key \in Path :
                        /\ StoredValue(db, key)' # StoredValue(db, key)
                        /\ \A d \in Db : ~QueryFails(d, key)'
                        => \E n \in notices' : n.db = db /\ n.key = key
<1>1. TypeOK /\ [Next]_vars => [Step]_store
  <2> SUFFICES ASSUME TypeOK, Next PROVE Step
    BY DEF vars
  <2> SUFFICES ASSUME broken = {}, NEW d \in Db, NEW key \in Path,
                      StoredValue(d, key)' # StoredValue(d, key),
                      \A e \in Db : ~QueryFails(e, key)'
               PROVE  Told(d, key)
    OBVIOUS
  <2>1. PICK i \in LayersOf(d) :
          /\ SourceAt(d, i) \in Source
          /\ store'[SourceAt(d, i)][key].val # store[SourceAt(d, i)][key].val
          /\ \A h \in Holding(d, key)' : i <= h
    BY ChangedStorage
  <2> DEFINE src == SourceAt(d, i)
  <2>2. store' # store
    BY <2>1
  <2>3. ASSUME NEW db \in Db, NEW sources, src \in sources, d # db,
               NotifyOthers(db, sources, key) \subseteq notices'
        PROVE  Told(d, key)
    <3>1. PICK n \in NotifyOthers(db, sources, key) : n.db = d /\ n.key = key
      <4>1. IsAffected(d, src, key)'
        BY <2>1 DEF IsAffected, LayersOf, SourceAt
      <4>2. d \in Db \ {db} /\ src \in sources /\ AllAnswer(key)'
        BY <2>3 DEF AllAnswer
      <4> HIDE DEF src
      <4> QED
        BY <4>1, <4>2, OtherIsTold
    <3> QED
      BY <2>3, <3>1
  <2>4. CASE HandleSet
    <3>1. PICK db \in Db, r \in Requests : SetValue(db, r.key, r.value)
      BY <2>4 DEF HandleSet
    <3>2. CASE SetOutcome(db, r.key) = "SUCCESS"
      <4>1. /\ store' = [store EXCEPT ![Target(db)][r.key].val = r.value]
            /\ notices' = {SetNotice(db, r.key, r.value)}
                           \cup NotifyOthers(db, {Target(db)}, r.key)
        BY <3>1, <3>2 DEF SetValue
      <4>2. src = Target(db) /\ key = r.key
        BY <2>1, <4>1 DEF TypeOK
      <4>3. CASE d = db
        <5>1. SetNotice(db, r.key, r.value).db = db /\ SetNotice(db, r.key, r.value).key = r.key
          BY DEF SetNotice
        <5> QED
          BY <4>1, <4>2, <4>3, <5>1
      <4>4. CASE d # db
        BY <2>3, <4>1, <4>2, <4>4
      <4> QED
        BY <4>3, <4>4
    <3>3. CASE SetOutcome(db, r.key) # "SUCCESS"
      BY <2>2, <3>1, <3>3 DEF SetValue, Refused
    <3> QED
      BY <3>2, <3>3
  <2>5. CASE HandleUnset
    <3>1. PICK db \in Db, k \in Path : Unset(db, k)
      BY <2>5 DEF HandleUnset
    <3>2. src \in UnsetSources(db) /\ key = k
      <4>1. store' = WithoutValues(UnsetSources(db), {k})
        BY <3>1 DEF Unset
      <4> QED
        BY <2>1, <4>1, UnsetChanges
    <3>3. ~UnsetFails(db)
      BY DEF UnsetFails, Fails
    <3>4. notices' = {UnsetNotice(db, k)} \cup NotifyOthers(db, UnsetSources(db), k)
      BY <3>1, <3>3 DEF Unset
    <3>5. CASE d = db
      <4>1. UnsetNotice(db, k).db = db /\ UnsetNotice(db, k).key = k
        BY DEF UnsetNotice
      <4> QED
        BY <3>2, <3>4, <3>5, <4>1
    <3>6. CASE d # db
      BY <2>3, <3>2, <3>4, <3>6
    <3> QED
      BY <3>5, <3>6
  <2>6. CASE HandleRecursiveUnset
    <3>1. PICK db \in Db, k \in Path, schemas \in BOOLEAN, emptied \in SUBSET Path :
            RecursiveUnset(db, k, schemas, emptied)
      BY <2>6 DEF HandleRecursiveUnset, Subtree
    <3>2. UnsetSources(db) # {} /\ store' = Dropped(db, k, schemas)
      BY <2>2, <3>1 DEF RecursiveUnset
    <3>3. src \in UnsetSources(db) /\ key \in {k} \cup Listed(db, k, emptied)
      <4>1. src \in UnsetSources(db) /\ key \in {k} \cup Listed(db, k, {})
        BY <2>1, <3>2, DroppedChanges
      <4> QED
        BY <4>1 DEF Listed
    <3>4. ~ \E j \in LayersOf(db) : Fails(db, j)
      BY DEF Fails
    <3>5. notices' = UnsetAnswers(db, {k} \cup Listed(db, k, emptied))
      BY <3>1, <3>2, <3>4 DEF RecursiveUnset
    <3>6. CASE d = db
      <4>1. Answer(db, key) \in notices'
        BY <3>3, <3>5 DEF UnsetAnswers
      <4>2. Answer(db, key).db = db /\ Answer(db, key).key = key
        BY DEF Answer
      <4> QED
        BY <3>6, <4>1, <4>2
    <3>7. CASE d # db
      <4>1. NotifyOthers(db, UnsetSources(db), key) \subseteq notices'
        BY <3>3, <3>5 DEF UnsetAnswers
      <4> QED
        BY <2>3, <3>3, <3>7, <4>1
    <3> QED
      BY <3>6, <3>7
  <2>7. CASE HandleSetSchema
    <3>1. PICK db \in Db, r \in Described :
            IF Writable(db) # {} /\ Target(db) \in broken
              THEN UNCHANGED <<store, unsaved, syncFailed, timers>>
              ELSE SetSchema(db, r.key, r.schema)
      BY <2>7 DEF HandleSetSchema
    <3>2. store' = [store EXCEPT ![Target(db)][r.key].schema = r.schema]
      BY <2>2, <3>1 DEF SetSchema
    <3>3. store[src][key] \in Cell
      BY <2>1 DEF TypeOK
    <3>4. store'[src][key].val = store[src][key].val
      BY <2>1, <3>2, <3>3 DEF TypeOK, Cell
    <3> QED
      BY <2>1, <3>4
  <2> QED
    BY <2>2, <2>4, <2>5, <2>6, <2>7
       DEF Next, HandleSuggestSync, SyncTimeout, SyncIdle, Break, Repair
<1> QED
  BY <1>1, TypeCorrect, PTL DEF Spec, ChangesAreNoticed
=============================================================================
