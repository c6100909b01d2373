----------------------------- MODULE ClientProofs -----------------------------
(***************************************************************************)
(* Proofs about GConfClient, for any namespace, any finite sets of          *)
(* directories and keys, any values, defaults and stores at the start.      *)
(***************************************************************************)
EXTENDS Client, FiniteSetTheorems, SequenceTheorems, WellFoundedInduction, TLAPS

-----------------------------------------------------------------------------
(* What is true of the directories between the steps of a call. *)
WatchedSoFar ==
    /\ \A d, e \in notifyId : KeyIsBelow(d, e) => d = e
    /\ \A d \in notifyId : addCount[d] > 0

TaskIsSound ==
    /\ task.op \in {"add", "renotify"} =>
          /\ task.drop = OverlapsIn(task.dir, notifyId)
          /\ ~Covered(task.dir, notifyId)
    /\ task.op = "add" => addCount[task.dir] = 0
    /\ task.op = "renotify" =>
          addCount[task.dir] > 0 /\ \A d \in task.rest : addCount[d] > 0

(* The call the client is in will see to the directory. *)
ToBeCovered(d) ==
    \/ task.op \in {"add", "renotify"} /\ KeyIsBelow(task.dir, d)
    \/ task.op = "renotify" /\ d \in task.rest

CoveredOrToBe ==
    mishaps = 0 => \A d \in Dir : addCount[d] > 0 => Covered(d, notifyId) \/ ToBeCovered(d)

WatchedInv == WatchedSoFar /\ TaskIsSound /\ CoveredOrToBe

(* The last message for a key that will be dispatched tells its value; *)
(* with no message on its way the cache has it.                        *)
IsFor(m, k, ids) == m.key = k /\ m.dir \in ids

LastSays(w, k, ids, v) ==
    \A i \in DOMAIN w :
        /\ IsFor(w[i], k, ids)
        /\ \A j \in DOMAIN w : j > i => ~IsFor(w[j], k, ids)
        => w[i].val = v

CacheSays(k) ==
    cache[k] # NoEntry /\ ~Pending(k) => cache[k].val = Effective(k, store)

CurrentInv ==
    \A k \in Key \ missed : LastSays(wire, k, notifyId, Effective(k, store)) /\ CacheSays(k)

-----------------------------------------------------------------------------
USE ClientAssumption, PathAssumption

(* SetToSeq lists every element of a finite set. *)
LEMMA SeqOfSet ==
  ASSUME NEW S, IsFiniteSet(S)
  PROVE  /\ SetToSeq(S) \in Seq(S)
         /\ Cardinality(S) \in Nat /\ Len(SetToSeq(S)) = Cardinality(S)
         /\ \A x \in S : \E i \in 1 .. Cardinality(S) : SetToSeq(S)[i] = x
<1> DEFINE n == Cardinality(S)
           f == SetToSeq(S)
<1>1. n \in Nat /\ ExistsBijection(1..n, S)
  BY FS_CardinalityType
<1>2. \E g \in [1..n -> S] : IsInjective(g)
  BY <1>1 DEF ExistsBijection, Bijection, Injection, IsInjective
<1>3. f \in [1..n -> S] /\ IsInjective(f)
  BY <1>2 DEF SetToSeq
<1>4. f \in Injection(1..n, S)
  BY <1>3 DEF Injection, IsInjective
<1>5. Cardinality(1..n) = n
  BY <1>1, FS_Interval
<1>6. f \in Surjection(1..n, S)
  BY <1>4, <1>5, FS_Injection
<1>7. \A x \in S : \E i \in 1..n : f[i] = x
  BY <1>6 DEF Surjection
<1>8. f \in Seq(S) /\ Len(f) = n
  BY <1>1, <1>3, SeqDef
<1> QED
  BY <1>1, <1>7, <1>8

Message == [dir : Dir, key : Key, val : Value \cup {None}]

LEMMA EffectiveType ==
  ASSUME NEW st \in [Key -> Value \cup {None}], NEW k \in Key
  PROVE  Effective(k, st) \in Value \cup {None}
BY DEF Effective

LEMMA AnswerType ==
  ASSUME TypeOK, NEW k \in Key
  PROVE  Answer(k) \in Entry
BY EffectiveType DEF TypeOK, Answer, Entry, HasSchema

LEMMA NoticesType ==
  ASSUME NEW ks \in SUBSET Key, NEW st \in [Key -> Value \cup {None}]
  PROVE  /\ Notices(ks, st) \subseteq Message
         /\ IsFiniteSet(Notices(ks, st))
<1> DEFINE P == {p \in Dir \X ks : p[1] \in Told(p[2])}
           T == Notices(ks, st)
           f == [n \in P |-> [dir |-> n[1], key |-> n[2], val |-> Effective(n[2], st)]]
<1>1. IsFiniteSet(ks)
  BY FS_Subset
<1>2. IsFiniteSet(Dir \X ks)
  BY <1>1, FS_Product
<1>3. IsFiniteSet(P)
  BY <1>2, FS_Subset
<1>4. f \in Surjection(P, T)
  BY DEF Notices, Surjection
<1>5. IsFiniteSet(T)
  <2> HIDE DEF P, T, f
  <2> QED
    BY <1>3, <1>4, FS_Surjection
<1> QED
  BY <1>5, EffectiveType DEF Notices, Message

(* The messages for a change: one at least for each key that a registered *)
(* directory is above, all with the value the key has then.               *)
LEMMA MessagesType ==
  ASSUME notifyId \subseteq Dir,
         NEW ks \in SUBSET Key, NEW st \in [Key -> Value \cup {None}]
  PROVE  /\ Messages(ks, st) \in Seq(Message)
         /\ \A i \in 1 .. Len(Messages(ks, st)) :
               /\ Messages(ks, st)[i].key \in ks
               /\ Messages(ks, st)[i].val = Effective(Messages(ks, st)[i].key, st)
         /\ \A k \in ks : Told(k) # {} =>
               \E i \in 1 .. Len(Messages(ks, st)) :
                  Messages(ks, st)[i].key = k /\ Messages(ks, st)[i].dir \in Told(k)
<1> DEFINE T == Notices(ks, st)
           m == Messages(ks, st)
<1>1. T \subseteq Message /\ IsFiniteSet(T)
  BY NoticesType
<1>2. /\ m \in Seq(T)
      /\ \A x \in T : \E i \in 1 .. Len(m) : m[i] = x
  BY <1>1, SeqOfSet DEF Messages
<1>3. m \in Seq(Message)
  BY <1>1, <1>2, SeqMonotonic
<1>4. \A i \in 1 .. Len(m) : m[i] \in T
  BY <1>2, ElementOfSeq
<1>5. \A x \in T : x.key \in ks /\ x.val = Effective(x.key, st)
  BY DEF Notices
<1>6. ASSUME NEW k \in ks, Told(k) # {}
      PROVE  \E x \in T : x.key = k /\ x.dir \in Told(k)
  <2>1. PICK d \in Told(k) : TRUE
    BY <1>6
  <2>2. d \in Dir
    BY DEF Told, Registered
  <2>3. [dir |-> d, key |-> k, val |-> Effective(k, st)] \in T
    <3>1. <<d, k>> \in {p \in Dir \X ks : p[1] \in Told(p[2])}
      BY <2>1, <2>2
    <3> QED
      BY <3>1 DEF Notices
  <2> QED
    BY <2>1, <2>3
<1> HIDE DEF T, m
<1>7. \A k \in ks : Told(k) # {} => \E i \in 1 .. Len(m) : m[i].key = k /\ m[i].dir \in Told(k)
  BY <1>2, <1>6
<1> QED
  BY <1>3, <1>4, <1>5, <1>7 DEF m

-----------------------------------------------------------------------------
(* The directory of a call under way may be added. *)
AddFits == task.op = "add" => MaxAdds[task.dir] > 0

TypeInv == TypeOK /\ AddFits

LEMMA IdleIsNoCall ==
  Idle \in Task /\ Idle.op = "idle"
BY DEF Idle, Task

LEMMA TaskType ==
  ASSUME NEW t \in Task
  PROVE  /\ t.op = "idle" <=> t = Idle
         /\ t.op = "add" => t \in [op : {"add"}, dir : Dir, drop : SUBSET Dir, preload : PreloadType]
         /\ t.op = "renotify" =>
               t \in [op : {"renotify"}, dir : Dir, drop : SUBSET Dir, rest : SUBSET Dir]
         /\ t.op = "preload" =>
               t \in [op : {"preload"}, todo : Seq(Reads) \ {<<>>}, deep : BOOLEAN]
BY DEF Idle, Task

LEMMA OneRead ==
  ASSUME NEW r \in Reads
  PROVE  <<r>> \in Seq(Reads) /\ <<r>> # <<>>
OBVIOUS

LEMMA PreloadTaskType ==
  ASSUME NEW d \in Dir, NEW type \in PreloadType
  PROVE  /\ PreloadTask(d, type) \in Task
         /\ PreloadTask(d, type).op \in {"idle", "preload"}
<1>1. <<"entries", d>> \in Reads /\ <<"subdirs", d>> \in Reads
  BY DEF Reads
<1>2. /\ <<<<"entries", d>>>> \in Seq(Reads) \ {<<>>}
      /\ <<<<"subdirs", d>>>> \in Seq(Reads) \ {<<>>}
  BY <1>1, OneRead
<1>3. CASE type = "none"
  BY <1>3, IdleIsNoCall DEF PreloadTask
<1>4. CASE type = "onelevel"
  BY <1>2, <1>4 DEF PreloadTask, Task
<1>5. CASE type = "recursive"
  BY <1>2, <1>5 DEF PreloadTask, Task
<1> QED
  BY <1>3, <1>4, <1>5 DEF PreloadType

LEMMA RenotifyType ==
  ASSUME NEW rest \in SUBSET Dir, NEW ids \in SUBSET Dir, NEW t \in RenotifyTasks(rest, ids)
  PROVE  t \in Task /\ t.op # "add"
<1>1. CASE t = Idle
  BY <1>1, IdleIsNoCall
<1>2. CASE t # Idle
  <2>1. PICK d \in rest : t = [op |-> "renotify", dir |-> d, drop |-> OverlapsIn(d, ids),
                               rest |-> {e \in rest : ~Covered(e, ids)} \ {d}]
    BY <1>2 DEF RenotifyTasks
  <2> QED
    BY <2>1 DEF Task, OverlapsIn
<1> QED
  BY <1>1, <1>2

LEMMA ProceedType ==
  ASSUME task \in Task, task.op = "preload", NEW todo \in Seq(Reads), Proceed(todo)
  PROVE  task' \in Task /\ task'.op # "add"
<1>1. task \in [op : {"preload"}, todo : Seq(Reads) \ {<<>>}, deep : BOOLEAN]
  BY TaskType
<1> QED
  BY <1>1, IdleIsNoCall DEF Proceed, Task

LEMMA InnerType ==
  ASSUME NEW d \in Dir
  PROVE  Inner(d) \in Seq(Reads)
<1> DEFINE S == SubdirsOf(d)
           subs == SetToSeq(S)
           n == Cardinality(S)
           e(i) == <<IF i % 2 = 1 THEN "entries" ELSE "below", subs[(i + 1) \div 2]>>
<1>1. S \subseteq Dir /\ IsFiniteSet(S)
  BY FS_Subset DEF SubdirsOf
<1>2. subs \in Seq(S) /\ n \in Nat /\ Len(subs) = n
  BY <1>1, SeqOfSet
<1>3. ASSUME NEW i \in 1 .. 2 * n PROVE subs[(i + 1) \div 2] \in Dir
  <2>1. (i + 1) \div 2 \in 1 .. n
    BY <1>2, <1>3
  <2> HIDE DEF subs, n
  <2> QED
    BY <1>1, <1>2, <2>1, ElementOfSeq
<1>4. \A i \in 1 .. 2 * n : e(i) \in Reads
  BY <1>3 DEF Reads
<1>5. 2 * n \in Nat
  BY <1>2
<1>6. [i \in 1 .. 2 * n |-> e(i)] \in [1 .. 2 * n -> Reads]
  BY <1>4
<1>7. [i \in 1 .. 2 * n |-> e(i)] \in Seq(Reads)
  <2> HIDE DEF e, n
  <2> PICK m, f : m = 2 * n /\ f = [i \in 1 .. 2 * n |-> e(i)]
    OBVIOUS
  <2>1. m \in Nat /\ f \in [1 .. m -> Reads]
    BY <1>5, <1>6
  <2>2. f \in Seq(Reads)
    BY ONLY <2>1, SeqDef
  <2> QED
    BY <2>2
<1> QED
  BY <1>7 DEF Inner

-----------------------------------------------------------------------------
(* The parts that steps have in common. *)
Store == [Key -> Value \cup {None}]
Cache == [Key -> Entry \cup {NoEntry}]

LEMMA ChangeType ==
  ASSUME TypeOK, NEW ks \in SUBSET Key, NEW st \in Store, Change(ks, st)
  PROVE  /\ store' \in Store /\ wire' \in Seq(Message)
         /\ changes' \in 0 .. MaxEvents /\ missed' \subseteq Key
<1>1. Messages(ks, st) \in Seq(Message)
  BY MessagesType DEF TypeOK, Store
<1>2. wire \in Seq(Message)
  BY DEF TypeOK, Message
<1>3. wire' \in Seq(Message)
  BY <1>1, <1>2, ConcatProperties DEF Change
<1>4. changes' \in 0 .. MaxEvents
  BY DEF Change, TypeOK
<1> QED
  BY <1>3, <1>4 DEF Change, TypeOK

LEMMA GoesWrongType ==
  ASSUME TypeOK, GoesWrong
  PROVE  mishaps' \in 0 .. MaxEvents
BY DEF GoesWrong, TypeOK

LEMMA DropType ==
  ASSUME TypeOK, NEW ks \in SUBSET Key, Drop(ks)
  PROVE  cache' \in Cache /\ dropped' \subseteq Key
<1>1. cache \in Cache /\ dropped \subseteq Key
  BY DEF TypeOK, Cache
<1>2. cache' \in Cache
  BY <1>1 DEF Drop, Cache
<1>3. dropped' \subseteq Key
  BY <1>1 DEF Drop
<1> QED
  BY <1>2, <1>3

LEMMA FillType ==
  ASSUME TypeOK, NEW c \in Cache, Fill(c)
  PROVE  cache' \in Cache /\ dropped' \subseteq Key
BY DEF Fill, TypeOK

LEMMA CachedAllType ==
  ASSUME TypeOK, NEW ks
  PROVE  CachedAll(ks) \in Cache
BY AnswerType DEF CachedAll, Cache, TypeOK

LEMMA CachedType ==
  ASSUME NEW c \in Cache, NEW k \in Key, NEW e \in Entry, NEW preserve
  PROVE  Cached(c, k, e, preserve) \in Cache
<1>1. CASE preserve /\ c[k] \notin {NoEntry, e}
  <2>1. c[k] \in Entry
    BY <1>1 DEF Cache
  <2>2. [e EXCEPT !.schema = c[k].schema] \in Entry
    BY <2>1 DEF Entry
  <2> QED
    BY <1>1, <2>2 DEF Cached, Cache
<1>2. CASE ~ (preserve /\ c[k] \notin {NoEntry, e})
  BY <1>2 DEF Cached, Cache
<1> QED
  BY <1>1, <1>2

LEMMA CacheAndQueueType ==
  ASSUME TypeOK, NEW k \in Key, NEW v \in Value \cup {None}, NEW wanted, CacheAndQueue(k, v, wanted)
  PROVE  /\ cache' \in Cache /\ dropped' \subseteq Key
         /\ notifyList' \subseteq Key /\ toNotify' \subseteq Key /\ notifyHandler' \in BOOLEAN
<1>1. Plain(v) \in Entry
  BY DEF Plain, Entry
<1>2. Cached(cache, k, Plain(v), TRUE) \in Cache
  BY <1>1, CachedType DEF TypeOK, Cache
<1>3. cache' \in Cache /\ dropped' \subseteq Key
  BY <1>2, FillType DEF CacheAndQueue
<1>4. notifyList' \subseteq Key /\ toNotify' \subseteq Key /\ notifyHandler' \in BOOLEAN
  <2>1. notifyList \subseteq Key /\ toNotify \subseteq Key /\ notifyHandler \in BOOLEAN
    BY DEF TypeOK
  <2>2. QueueNotify(k) \/ UNCHANGED queue
    BY DEF CacheAndQueue
  <2> QED
    BY <2>1, <2>2 DEF QueueNotify, queue
<1> QED
  BY <1>3, <1>4

LEMMA OnTheWayType ==
  ASSUME TypeOK, NEW ds
  PROVE  OnTheWay(ds) \subseteq Key
<1>1. wire \in Seq(Message)
  BY DEF TypeOK, Message
<1>2. ASSUME NEW i \in DOMAIN wire PROVE wire[i].key \in Key
  <2>1. i \in 1 .. Len(wire)
    BY <1>1, LenProperties
  <2>2. wire[i] \in Message
    BY <1>1, <2>1, ElementOfSeq
  <2> QED
    BY <2>2 DEF Message
<1> QED
  BY <1>2 DEF OnTheWay

LEMMA DeregisterType ==
  ASSUME TypeOK, NEW ds, Deregister(ds)
  PROVE  notifyId' \subseteq Dir /\ missed' \subseteq Key
BY OnTheWayType DEF Deregister, TypeOK

LEMMA FetchType ==
  ASSUME TypeOK, NEW k \in Key, Fetch(k)
  PROVE  cache' \in Cache /\ dropped' \subseteq Key /\ missed' \subseteq Key
<1>1. CASE KeyBeingMonitored(k)
  <2>1. [cache EXCEPT ![k] = Answer(k)] \in Cache
    BY AnswerType DEF TypeOK, Cache
  <2> QED
    BY <1>1, <2>1, FillType DEF Fetch, Refreshed, TypeOK
<1>2. CASE ~ KeyBeingMonitored(k)
  BY <1>2 DEF Fetch, TypeOK, Cache
<1> QED
  BY <1>1, <1>2

-----------------------------------------------------------------------------
LEMMA AddDirType ==
  ASSUME TypeInv, NEW d \in Dir, NEW type \in PreloadType, AddDir(d, type)
  PROVE  TypeInv'
<1> USE DEF TypeInv
<1>1. addCount[d] \in Nat /\ addCount \in [Dir -> Nat] /\ MaxAdds[d] > 0
  BY DEF TypeOK, AddDir
<1>2. CASE addCount[d] > 0 \/ Covered(d, notifyId)
  <2>1. addCount' = [addCount EXCEPT ![d] = @ + 1]
    BY <1>2 DEF AddDir
  <2>2. addCount' \in [Dir -> Nat] /\ (\A e \in Dir : addCount'[e] <= MaxAdds[e])
    BY <1>1, <2>1 DEF TypeOK, AddDir
  <2>3. task' \in Task /\ task'.op # "add"
    BY <1>2, PreloadTaskType, IdleIsNoCall DEF AddDir
  <2> QED
    BY <2>2, <2>3 DEF AddDir, TypeOK, AddFits, gconfd, caches, queue
<1>3. CASE ~ (addCount[d] > 0 \/ Covered(d, notifyId))
  <2>1. /\ task' = [op |-> "add", dir |-> d, drop |-> OverlapsIn(d, notifyId), preload |-> type]
        /\ UNCHANGED addCount
    BY <1>3 DEF AddDir
  <2>2. task' \in Task /\ task'.dir = d
    BY <2>1 DEF Task, OverlapsIn, TypeOK
  <2> QED
    BY <1>1, <2>1, <2>2 DEF AddDir, TypeOK, AddFits, gconfd, caches, queue
<1> QED
  BY <1>2, <1>3

LEMMA RemoveOverlapType ==
  ASSUME TypeInv, RemoveOverlap
  PROVE  TypeInv'
<1>1. PICK e \in task.drop : Deregister({e}) /\ task' = [task EXCEPT !.drop = @ \ {e}]
  BY DEF RemoveOverlap
<1>2. notifyId' \subseteq Dir /\ missed' \subseteq Key
  BY <1>1, DeregisterType DEF TypeInv
<1>3. task' \in Task /\ AddFits'
  <2>1. CASE task.op = "add"
    <3>1. task \in [op : {"add"}, dir : Dir, drop : SUBSET Dir, preload : PreloadType]
      BY <2>1, TaskType DEF TypeInv, TypeOK
    <3>2. /\ task' \in [op : {"add"}, dir : Dir, drop : SUBSET Dir, preload : PreloadType]
          /\ task'.dir = task.dir
      BY <1>1, <3>1
    <3> QED
      BY <2>1, <3>2 DEF Task, AddFits, TypeInv
  <2>2. CASE task.op = "renotify"
    <3>1. task \in [op : {"renotify"}, dir : Dir, drop : SUBSET Dir, rest : SUBSET Dir]
      BY <2>2, TaskType DEF TypeInv, TypeOK
    <3>2. task' \in [op : {"renotify"}, dir : Dir, drop : SUBSET Dir, rest : SUBSET Dir]
      BY <1>1, <3>1
    <3> QED
      BY <3>2 DEF Task, AddFits
  <2> QED
    BY <2>1, <2>2 DEF RemoveOverlap
<1> QED
  BY <1>2, <1>3 DEF RemoveOverlap, TypeInv, TypeOK, gconfd, caches, queue

LEMMA NotifyAddType ==
  ASSUME TypeInv, NotifyAdd
  PROVE  TypeInv'
<1>1. task.dir \in Dir /\ task \in Task
  BY TaskType DEF NotifyAdd, TypeInv, TypeOK
<1>2. notifyId' \subseteq Dir /\ missed' \subseteq Key
  BY <1>1, OnTheWayType DEF NotifyAdd, TypeInv, TypeOK
<1>3. CASE task.op = "add"
  <2>1. addCount' = [addCount EXCEPT ![task.dir] = 1] /\ task' = PreloadTask(task.dir, task.preload)
    BY <1>3 DEF NotifyAdd
  <2>2. MaxAdds[task.dir] > 0
    BY <1>3 DEF TypeInv, AddFits
  <2>3. addCount' \in [Dir -> Nat] /\ (\A e \in Dir : addCount'[e] <= MaxAdds[e])
    BY <1>1, <2>1, <2>2 DEF TypeInv, TypeOK
  <2>4. task.preload \in PreloadType
    BY <1>1, <1>3, TaskType
  <2>5. task' \in Task /\ task'.op # "add"
    BY <1>1, <2>1, <2>4, PreloadTaskType
  <2> QED
    BY <1>2, <2>3, <2>5 DEF NotifyAdd, TypeInv, TypeOK, AddFits, gconfd, caches, queue
<1>4. CASE task.op = "renotify"
  <2>1. task.rest \subseteq Dir
    BY <1>1, <1>4, TaskType
  <2>2. task' \in RenotifyTasks(task.rest, notifyId') /\ UNCHANGED addCount
    BY <1>4 DEF NotifyAdd
  <2>3. task' \in Task /\ task'.op # "add"
    BY <1>2, <2>1, <2>2, RenotifyType
  <2> QED
    BY <1>2, <2>2, <2>3 DEF NotifyAdd, TypeInv, TypeOK, AddFits, gconfd, caches, queue
<1> QED
  BY <1>3, <1>4 DEF NotifyAdd

LEMMA RemoveDirType ==
  ASSUME TypeInv, NEW d \in Dir, RemoveDir(d)
  PROVE  TypeInv'
<1>1. addCount \in [Dir -> Nat] /\ addCount[d] \in Nat /\ addCount[d] > 0
  BY DEF RemoveDir, TypeInv, TypeOK
<1>2. addCount' \in [Dir -> Nat] /\ (\A e \in Dir : addCount'[e] <= MaxAdds[e])
  BY <1>1 DEF RemoveDir, TypeInv, TypeOK
<1>3. CASE addCount[d] = 1
  <2>1. notifyId' \subseteq Dir /\ missed' \subseteq Key
    BY <1>3, DeregisterType DEF RemoveDir, TypeInv
  <2>2. cache' \in Cache /\ dropped' \subseteq Key
    <3>1. Drop({k \in Key : KeyIsBelow(d, k)})
      BY <1>3 DEF RemoveDir
    <3>2. {k \in Key : KeyIsBelow(d, k)} \subseteq Key
      OBVIOUS
    <3> QED
      BY <3>1, <3>2, DropType DEF TypeInv
  <2>3. cacheDirs' \subseteq Dir
    BY <1>3 DEF RemoveDir, TypeInv, TypeOK
  <2>4. task' \in Task /\ task'.op # "add"
    <3>1. task' \in RenotifyTasks({e \in Dir : addCount'[e] > 0}, notifyId')
      BY <1>3 DEF RemoveDir
    <3> QED
      BY <2>1, <3>1, RenotifyType
  <2> QED
    BY <1>2, <2>1, <2>2, <2>3, <2>4 DEF RemoveDir, TypeInv, TypeOK, Cache, AddFits, gconfd, queue
<1>4. CASE addCount[d] # 1
  BY <1>2, <1>4 DEF RemoveDir, TypeInv, TypeOK, AddFits, gconfd, queue
<1> QED
  BY <1>3, <1>4

LEMMA FinalizeType ==
  ASSUME TypeInv, Finalize
  PROVE  TypeInv'
<1>1. notifyId' \subseteq Dir /\ missed' \subseteq Key
  BY DeregisterType DEF Finalize, TypeInv
<1>2. addCount' \in [Dir -> Nat] /\ (\A e \in Dir : addCount'[e] <= MaxAdds[e])
  BY DEF Finalize
<1> QED
  BY <1>1, <1>2 DEF Finalize, TypeInv, TypeOK, AddFits, gconfd

LEMMA PreloadSubdirsType ==
  ASSUME TypeInv, PreloadSubdirs
  PROVE  TypeInv'
<1>1. task \in [op : {"preload"}, todo : Seq(Reads) \ {<<>>}, deep : BOOLEAN]
  BY TaskType DEF PreloadSubdirs, TypeInv, TypeOK
<1>2. Head(task.todo) \in Reads /\ Tail(task.todo) \in Seq(Reads)
  BY <1>1, HeadTailProperties
<1>3. PICK d \in Dir : d = PreloadNext[2]
  BY <1>2 DEF PreloadNext, Reads
<1>4. <<"entries", d>> \in Reads
  BY DEF Reads
<1> DEFINE own == IF PreloadNext[1] = "subdirs" THEN <<<<"entries", d>>>> ELSE <<>>
<1>5. own \in Seq(Reads)
  BY <1>4, OneRead, EmptySeq
<1>6. own \o Inner(d) \o Tail(task.todo) \in Seq(Reads)
  <2> HIDE DEF own
  <2> QED
    BY <1>2, <1>5, InnerType, ConcatProperties
<1>7. Proceed(own \o Inner(d) \o Tail(task.todo))
  BY <1>3 DEF PreloadSubdirs
<1>8. task' \in Task /\ task'.op # "add"
  <2> HIDE DEF own
  <2> QED
    BY <1>1, <1>6, <1>7, ProceedType DEF TypeInv, TypeOK
<1> QED
  BY <1>8 DEF PreloadSubdirs, TypeInv, TypeOK, AddFits, gconfd, dirs, caches, queue

LEMMA PreloadEntriesType ==
  ASSUME TypeInv, PreloadEntries
  PROVE  TypeInv'
<1>1. task \in [op : {"preload"}, todo : Seq(Reads) \ {<<>>}, deep : BOOLEAN]
  BY TaskType DEF PreloadEntries, TypeInv, TypeOK
<1>2. Head(task.todo) \in Reads /\ Tail(task.todo) \in Seq(Reads)
  BY <1>1, HeadTailProperties
<1>3. PICK d \in Dir : d = PreloadNext[2]
  BY <1>2 DEF PreloadNext, Reads
<1>4. task' \in Task /\ task'.op # "add"
  BY <1>1, <1>2, ProceedType DEF PreloadEntries, TypeInv, TypeOK
<1>5. cache' \in Cache /\ dropped' \subseteq Key /\ missed' \subseteq Key /\ mishaps' \in 0 .. MaxEvents
  <2>1. CASE Fill(CachedAll(EntriesOf(d))) /\ Refreshed(EntriesOf(d)) /\ UNCHANGED mishaps
    BY <2>1, CachedAllType, FillType DEF TypeInv, TypeOK, Refreshed
  <2>2. CASE GoesWrong /\ UNCHANGED <<cache, dropped, missed>>
    BY <2>2, GoesWrongType DEF TypeInv, TypeOK, Cache
  <2> QED
    BY <1>3, <2>1, <2>2 DEF PreloadEntries
<1>6. cacheDirs' \subseteq Dir /\ cacheRecursiveDirs' \subseteq Dir
  BY <1>3 DEF PreloadEntries, TypeInv, TypeOK
<1> QED
  BY <1>4, <1>5, <1>6 DEF PreloadEntries, TypeInv, TypeOK, Cache, AddFits, dirs, queue

LEMMA ReadType ==
  ASSUME TypeInv,
         \/ \E d \in Dir, type \in PreloadType : Preload(d, type)
         \/ \E d \in Dir : AllEntries(d)
         \/ \E k \in Key : Get(k) \/ NotifyOne(k)
         \/ ClearCache
  PROVE  TypeInv'
<1>1. ASSUME NEW d \in Dir, NEW type \in PreloadType, Preload(d, type)
      PROVE  TypeInv'
  BY <1>1, PreloadTaskType DEF Preload, TypeInv, TypeOK, AddFits, gconfd, dirs, caches, queue
<1>2. ASSUME NEW d \in Dir, AllEntries(d)
      PROVE  TypeInv'
  <2>1. cache' \in Cache /\ dropped' \subseteq Key
    BY <1>2, CachedAllType, FillType DEF AllEntries, TypeInv
  <2> QED
    BY <1>2, <2>1 DEF AllEntries, Refreshed, TypeInv, TypeOK, Cache, AddFits, gconfd, dirs, queue
<1>3. ASSUME NEW k \in Key, Get(k)
      PROVE  TypeInv'
  <2>1. cache' \in Cache /\ dropped' \subseteq Key /\ missed' \subseteq Key
    BY <1>3, FetchType DEF Get, TypeInv
  <2> QED
    BY <1>3, <2>1 DEF Get, TypeInv, TypeOK, Cache, AddFits, gconfd, dirs, queue
<1>4. ASSUME NEW k \in Key, NotifyOne(k)
      PROVE  TypeInv'
  <2>1. cache' \in Cache /\ dropped' \subseteq Key /\ missed' \subseteq Key
    <3>1. CASE ~Hit(k) /\ KeyBeingMonitored(k)
      BY <1>4, <3>1, FetchType DEF NotifyOne, TypeInv
    <3>2. CASE ~ (~Hit(k) /\ KeyBeingMonitored(k))
      BY <1>4, <3>2 DEF NotifyOne, TypeInv, TypeOK, Cache
    <3> QED
      BY <3>1, <3>2
  <2> QED
    BY <1>4, <2>1 DEF NotifyOne, TypeInv, TypeOK, Cache, AddFits, gconfd, dirs
<1>5. ASSUME ClearCache
      PROVE  TypeInv'
  <2>1. cache' \in Cache /\ dropped' \subseteq Key
    BY <1>5, DropType DEF ClearCache, TypeInv
  <2> QED
    BY <1>5, <2>1 DEF ClearCache, TypeInv, TypeOK, Cache, AddFits, gconfd, dirs, queue
<1> QED
  BY <1>1, <1>2, <1>3, <1>4, <1>5

LEMMA WriteType ==
  ASSUME TypeInv,
         \/ \E k \in Key, v \in Value : Set(k, v)
         \/ \E k \in Key, v \in Value \cup {None} : OtherChange(k, v)
         \/ \E k \in Key : Unset(k)
         \/ \E p \in Key \cup Dir : RecursiveUnset(p) \/ RecursiveUnsetFails(p)
  PROVE  TypeInv'
<1>0. store \in Store
  BY DEF TypeInv, TypeOK, Store
<1>1. ASSUME NEW k \in Key, NEW v \in Value, Set(k, v)
      PROVE  TypeInv'
  <2>1. [store EXCEPT ![k] = v] \in Store
    BY <1>0 DEF Store
  <2>2. /\ store' \in Store /\ wire' \in Seq(Message)
        /\ changes' \in 0 .. MaxEvents /\ missed' \subseteq Key
    BY <1>1, <2>1, ChangeType DEF Set, TypeInv
  <2>3. /\ cache' \in Cache /\ dropped' \subseteq Key
        /\ notifyList' \subseteq Key /\ toNotify' \subseteq Key /\ notifyHandler' \in BOOLEAN
    BY <1>1, CacheAndQueueType DEF Set, TypeInv
  <2> QED
    BY <1>1, <2>2, <2>3 DEF Set, TypeInv, TypeOK, Cache, Store, Message, AddFits, dirs
<1>2. ASSUME NEW k \in Key, NEW v \in Value \cup {None}, OtherChange(k, v)
      PROVE  TypeInv'
  <2>1. [store EXCEPT ![k] = v] \in Store
    BY <1>0 DEF Store
  <2>2. /\ store' \in Store /\ wire' \in Seq(Message)
        /\ changes' \in 0 .. MaxEvents /\ missed' \subseteq Key
    BY <1>2, <2>1, ChangeType DEF OtherChange, TypeInv
  <2> QED
    BY <1>2, <2>2 DEF OtherChange, TypeInv, TypeOK, Store, Message, AddFits, dirs, caches, queue
<1>3. ASSUME NEW k \in Key, Unset(k)
      PROVE  TypeInv'
  <2>1. [store EXCEPT ![k] = None] \in Store
    BY <1>0 DEF Store
  <2>2. /\ store' \in Store /\ wire' \in Seq(Message)
        /\ changes' \in 0 .. MaxEvents /\ missed' \subseteq Key
    BY <1>3, <2>1, ChangeType DEF Unset, TypeInv
  <2>3. cache' \in Cache /\ dropped' \subseteq Key
    <3>1. Drop({k})
      BY <1>3 DEF Unset
    <3> QED
      BY <3>1, DropType DEF TypeInv
  <2> QED
    BY <1>3, <2>2, <2>3 DEF Unset, TypeInv, TypeOK, Store, Cache, Message, AddFits, dirs, queue
<1>4. ASSUME NEW ks
      PROVE  UnsetBelow(ks) \in Store
  BY <1>0 DEF UnsetBelow, Store
<1>5. ASSUME NEW p \in Key \cup Dir, RecursiveUnset(p)
      PROVE  TypeInv'
  <2>1. SetBelow(p) \subseteq Key
    BY DEF SetBelow
  <2>2. /\ store' \in Store /\ wire' \in Seq(Message)
        /\ changes' \in 0 .. MaxEvents /\ missed' \subseteq Key
    <3>1. Change(SetBelow(p), UnsetBelow(SetBelow(p)))
      BY <1>5 DEF RecursiveUnset
    <3> QED
      BY <1>4, <2>1, <3>1, ChangeType DEF TypeInv
  <2>3. cache' \in Cache /\ dropped' \subseteq Key
    <3>1. Drop({k \in Key : ~KeyIsBelow(k, p) \/ k = p})
      BY <1>5 DEF RecursiveUnset
    <3>2. {k \in Key : ~KeyIsBelow(k, p) \/ k = p} \subseteq Key
      OBVIOUS
    <3> QED
      BY <3>1, <3>2, DropType DEF TypeInv
  <2> QED
    BY <1>5, <2>2, <2>3 DEF RecursiveUnset, TypeInv, TypeOK, Store, Cache, Message, AddFits, dirs, queue
<1>6. ASSUME NEW p \in Key \cup Dir, RecursiveUnsetFails(p)
      PROVE  TypeInv'
  <2>1. PICK ks \in SUBSET SetBelow(p) : store' = UnsetBelow(ks) /\ missed' = missed \cup ks
    BY <1>6 DEF RecursiveUnsetFails
  <2>2. ks \subseteq Key
    BY DEF SetBelow
  <2>3. store' \in Store /\ missed' \subseteq Key
    BY <1>4, <2>1, <2>2 DEF TypeInv, TypeOK
  <2>4. mishaps' \in 0 .. MaxEvents
    BY <1>6, GoesWrongType DEF RecursiveUnsetFails, TypeInv
  <2> QED
    BY <1>6, <2>3, <2>4 DEF RecursiveUnsetFails, TypeInv, TypeOK, Store, AddFits, dirs, caches, queue
<1> QED
  BY <1>1, <1>2, <1>3, <1>5, <1>6

LEMMA MainLoopType ==
  ASSUME TypeInv, NotifyFromServer \/ NotifyIdle \/ Restart \/ Reconnect \/ NotifyAddFails
  PROVE  TypeInv'
<1>1. ASSUME NotifyFromServer PROVE TypeInv'
  <2>1. wire \in Seq(Message) /\ wire # <<>>
    BY <1>1 DEF NotifyFromServer, TypeInv, TypeOK, Message
  <2>2. Head(wire) \in Message /\ wire' \in Seq(Message)
    BY <1>1, <2>1, HeadTailProperties DEF NotifyFromServer
  <2>3. /\ cache' \in Cache /\ dropped' \subseteq Key
        /\ notifyList' \subseteq Key /\ toNotify' \subseteq Key /\ notifyHandler' \in BOOLEAN
    <3>1. CASE FindsConnection(Head(wire))
      <4>1. CacheAndQueue(Head(wire).key, Head(wire).val, TRUE)
        BY <1>1, <3>1 DEF NotifyFromServer
      <4>2. Head(wire).key \in Key /\ Head(wire).val \in Value \cup {None}
        BY <2>2 DEF Message
      <4> QED
        BY <4>1, <4>2, CacheAndQueueType DEF TypeInv
    <3>2. CASE ~ FindsConnection(Head(wire))
      BY <1>1, <3>2 DEF NotifyFromServer, TypeInv, TypeOK, Cache, queue
    <3> QED
      BY <3>1, <3>2
  <2> QED
    BY <1>1, <2>2, <2>3 DEF NotifyFromServer, TypeInv, TypeOK, Cache, Message, AddFits, dirs
<1>2. ASSUME NotifyIdle PROVE TypeInv'
  BY <1>2 DEF NotifyIdle, TypeInv, TypeOK, AddFits, gconfd, dirs, caches
<1>3. ASSUME Restart PROVE TypeInv'
  BY <1>3, GoesWrongType DEF Restart, TypeInv, TypeOK, AddFits, dirs, caches, queue
<1>4. ASSUME Reconnect PROVE TypeInv'
  BY <1>4 DEF Reconnect, TypeInv, TypeOK, AddFits, dirs, caches, queue
<1>5. ASSUME NotifyAddFails PROVE TypeInv'
  <2>1. task' \in Task /\ task'.op # "add"
    BY <1>5, IdleIsNoCall DEF NotifyAddFails
  <2>2. mishaps' \in 0 .. MaxEvents
    BY <1>5, GoesWrongType DEF NotifyAddFails, TypeInv
  <2> QED
    BY <1>5, <2>1, <2>2 DEF NotifyAddFails, TypeInv, TypeOK, AddFits, dirs, caches, queue
<1> QED
  BY <1>1, <1>2, <1>3, <1>4, <1>5

LEMMA InitType == Init => TypeInv
<1> SUFFICES ASSUME Init PROVE TypeInv
  OBVIOUS
<1>1. wire \in Seq([dir : Dir, key : Key, val : Value \cup {None}])
  BY EmptySeq DEF Init
<1>2. task \in Task /\ task.op # "add"
  BY IdleIsNoCall DEF Init
<1>3. addCount \in [Dir -> Nat] /\ (\A d \in Dir : addCount[d] <= MaxAdds[d])
  BY DEF Init
<1>4. cache \in [Key -> Entry \cup {NoEntry}]
  BY DEF Init
<1>5. changes \in 0..MaxEvents /\ mishaps \in 0..MaxEvents
  BY DEF Init
<1>6. store \in [Key -> Value \cup {None}] /\ connected \in BOOLEAN
  BY DEF Init
<1>7. /\ notifyId \subseteq Dir /\ cacheDirs \subseteq Dir /\ cacheRecursiveDirs \subseteq Dir
      /\ notifyList \subseteq Key /\ toNotify \subseteq Key /\ notifyHandler \in BOOLEAN
      /\ missed \subseteq Key /\ dropped \subseteq Key
  BY DEF Init
<1>8. TypeOK
  BY <1>1, <1>2, <1>3, <1>4, <1>5, <1>6, <1>7 DEF TypeOK
<1> QED
  BY <1>2, <1>8 DEF TypeInv, AddFits

LEMMA NextType ==
  ASSUME TypeInv, [Next]_vars
  PROVE  TypeInv'
<1>1. CASE Next
  <2>1. ASSUME NEW d \in Dir, NEW type \in PreloadType, AddDir(d, type)
        PROVE  TypeInv'
    BY <2>1, AddDirType
  <2>2. ASSUME NEW d \in Dir, RemoveDir(d)
        PROVE  TypeInv'
    BY <2>2, RemoveDirType
  <2>3. CASE Continue
    BY <2>3, RemoveOverlapType, NotifyAddType, PreloadSubdirsType, PreloadEntriesType DEF Continue
  <2> QED
    BY <1>1, <2>1, <2>2, <2>3, FinalizeType, ReadType, WriteType, MainLoopType DEF Next
<1>2. CASE UNCHANGED vars
  BY <1>2 DEF vars, gconfd, dirs, caches, queue, TypeInv, TypeOK, AddFits
<1> QED
  BY <1>1, <1>2

(* Every variable keeps its type: what is cached has the parts of an entry, *)
(* a call under way is one of the three with a rest, and no directory is    *)
(* added more often than the bound allows.                                  *)
THEOREM TypeCorrect == Spec => []TypeOK
<1>1. Init => TypeInv
  BY InitType
<1>2. TypeInv /\ [Next]_vars => TypeInv'
  BY NextType
<1>3. TypeInv => TypeOK
  BY DEF TypeInv
<1> QED
  BY <1>1, <1>2, <1>3, PTL DEF Spec

-----------------------------------------------------------------------------
(* Queued keys have an idle handler that will take them: whatever the        *)
(* listeners do while one runs, what they queue installs another.            *)
THEOREM Queue == Spec => []QueueIsServed
<1>1. Init => QueueIsServed
  BY DEF Init, QueueIsServed
<1>2. QueueIsServed /\ [Next]_vars => QueueIsServed'
  <2> SUFFICES ASSUME QueueIsServed, [Next]_vars PROVE QueueIsServed'
    OBVIOUS
  <2>1. ASSUME UNCHANGED queue PROVE QueueIsServed'
    BY <2>1 DEF queue, QueueIsServed
  <2>2. ASSUME NEW k, QueueNotify(k) PROVE QueueIsServed'
    BY <2>2 DEF QueueNotify, QueueIsServed
  <2>3. ASSUME NEW k, NEW v, NEW wanted, CacheAndQueue(k, v, wanted) PROVE QueueIsServed'
    BY <2>1, <2>2, <2>3 DEF CacheAndQueue
  <2>4. CASE \E k \in Key, v \in Value : Set(k, v)
    BY <2>3, <2>4 DEF Set
  <2>5. CASE NotifyFromServer
    BY <2>1, <2>3, <2>5 DEF NotifyFromServer, queue
  <2>6. CASE NotifyIdle
    BY <2>6 DEF NotifyIdle, QueueIsServed
  <2>7. CASE \E k \in Key : NotifyOne(k)
    BY <2>7 DEF NotifyOne, QueueIsServed
  <2>8. CASE Finalize
    BY <2>8 DEF Finalize, QueueIsServed
  <2>9. CASE \/ \E d \in Dir, type \in PreloadType : AddDir(d, type) \/ Preload(d, type)
             \/ \E d \in Dir : RemoveDir(d) \/ AllEntries(d)
             \/ \E k \in Key : Get(k) \/ Unset(k)
             \/ \E k \in Key, v \in Value \cup {None} : OtherChange(k, v)
             \/ \E p \in Key \cup Dir : RecursiveUnset(p) \/ RecursiveUnsetFails(p)
             \/ ClearCache \/ Continue \/ NotifyAddFails \/ Restart \/ Reconnect
    BY <2>1, <2>9 DEF AddDir, Preload, RemoveDir, AllEntries, Get, Unset, OtherChange,
       RecursiveUnset, RecursiveUnsetFails, ClearCache, Continue, RemoveOverlap, NotifyAdd,
       PreloadSubdirs, PreloadEntries, NotifyAddFails, Restart, Reconnect
  <2>10. CASE UNCHANGED vars
    BY <2>1, <2>10 DEF vars
  <2> QED
    BY <2>4, <2>5, <2>6, <2>7, <2>8, <2>9, <2>10 DEF Next
<1> QED
  BY <1>1, <1>2, PTL DEF Spec

-----------------------------------------------------------------------------
(***************************************************************************)
(* Notifications.  The list of directories says which have one only         *)
(* between calls; a call that takes off what is below a directory first     *)
(* still has to ask for the directory, and one that gives up a directory    *)
(* has yet to see to those it covered.                                      *)
(***************************************************************************)
LEMMA Below ==
  ASSUME NEW d \in Dir, NEW e \in Dir, NEW f \in Dir
  PROVE  /\ KeyIsBelow(d, d)
         /\ KeyIsBelow(d, e) /\ KeyIsBelow(e, f) => KeyIsBelow(d, f)
         /\ KeyIsBelow(d, e) /\ KeyIsBelow(e, d) => d = e
<1>1. d \in Path /\ e \in Path /\ f \in Path
  OBVIOUS
<1> QED
  BY <1>1 DEF KeyIsBelow

(* A call that ends with nothing left to cover. *)
LEMMA RenotifySound ==
  ASSUME NEW rest \in SUBSET Dir, TypeOK', task' \in RenotifyTasks(rest, notifyId'),
         \A d \in rest : addCount'[d] > 0,
         WatchedSoFar',
         mishaps' = 0 => \A d \in Dir : addCount'[d] > 0 => Covered(d, notifyId') \/ d \in rest
  PROVE  WatchedInv'
<1>1. CASE task' = Idle
  <2>1. TaskIsSound' /\ task'.op = "idle"
    BY <1>1, IdleIsNoCall DEF TaskIsSound
  <2>2. \A d \in rest : Covered(d, notifyId')
    BY <1>1 DEF RenotifyTasks, Idle
  <2> QED
    BY <2>1, <2>2 DEF WatchedInv, CoveredOrToBe
<1>2. CASE task' # Idle
  <2> DEFINE todo == {d \in rest : ~Covered(d, notifyId')}
  <2>1. PICK d \in todo :
           task' = [op |-> "renotify", dir |-> d, drop |-> OverlapsIn(d, notifyId'), rest |-> todo \ {d}]
    BY <1>2 DEF RenotifyTasks
  <2>2. TaskIsSound'
    BY <2>1 DEF TaskIsSound
  <2>3. d \in Dir /\ KeyIsBelow(d, d)
    BY Below
  <2>4. \A e \in todo : ToBeCovered(e)'
    BY <2>1, <2>3 DEF ToBeCovered
  <2>5. CoveredOrToBe'
    BY <2>4 DEF CoveredOrToBe
  <2> QED
    BY <2>2, <2>5 DEF WatchedInv
<1> QED
  BY <1>1, <1>2

LEMMA AddDirWatches ==
  ASSUME TypeInv, WatchedInv, NEW d \in Dir, NEW type \in PreloadType, AddDir(d, type)
  PROVE  WatchedInv'
<1>1. /\ task = Idle /\ task.op = "idle" /\ notifyId' = notifyId /\ mishaps' = mishaps
      /\ addCount \in [Dir -> Nat]
  BY IdleIsNoCall DEF AddDir, Free, gconfd, TypeInv, TypeOK
<1>2. mishaps = 0 => \A e \in Dir : addCount[e] > 0 => Covered(e, notifyId)
  BY <1>1 DEF WatchedInv, CoveredOrToBe, ToBeCovered
<1>3. CASE addCount[d] > 0 \/ Covered(d, notifyId)
  <2>1. addCount' = [addCount EXCEPT ![d] = @ + 1]
    BY <1>3 DEF AddDir
  <2>2. \A e \in Dir : addCount[e] > 0 => addCount'[e] > 0
    BY <1>1, <2>1
  <2>3. WatchedSoFar'
    BY <1>1, <2>2 DEF WatchedInv, WatchedSoFar, TypeInv, TypeOK
  <2>4. task'.op \in {"idle", "preload"}
    BY <1>3, PreloadTaskType, IdleIsNoCall DEF AddDir
  <2>5. TaskIsSound'
    BY <2>4 DEF TaskIsSound
  <2>6. CoveredOrToBe'
    <3>1. \A e \in Dir : e # d => addCount'[e] = addCount[e]
      BY <1>1, <2>1
    <3> QED
      BY <1>1, <1>2, <1>3, <3>1 DEF CoveredOrToBe
  <2> QED
    BY <2>3, <2>5, <2>6 DEF WatchedInv
<1>4. CASE ~ (addCount[d] > 0 \/ Covered(d, notifyId))
  <2>1. /\ task' = [op |-> "add", dir |-> d, drop |-> OverlapsIn(d, notifyId), preload |-> type]
        /\ UNCHANGED addCount
    BY <1>4 DEF AddDir
  <2>2. WatchedSoFar'
    BY <1>1, <2>1 DEF WatchedInv, WatchedSoFar
  <2>3. TaskIsSound'
    <3>1. addCount[d] = 0
      BY <1>1, <1>4
    <3> QED
      BY <1>1, <1>4, <2>1, <3>1 DEF TaskIsSound
  <2>4. CoveredOrToBe'
    BY <1>1, <1>2, <2>1 DEF CoveredOrToBe
  <2> QED
    BY <2>2, <2>3, <2>4 DEF WatchedInv
<1> QED
  BY <1>3, <1>4

LEMMA RemoveOverlapWatches ==
  ASSUME TypeInv, WatchedInv, RemoveOverlap
  PROVE  WatchedInv'
<1>1. PICK e \in task.drop : Deregister({e}) /\ task' = [task EXCEPT !.drop = @ \ {e}]
  BY DEF RemoveOverlap
<1>2. /\ task'.op = task.op /\ task'.dir = task.dir /\ task'.drop = task.drop \ {e}
      /\ task.op = "renotify" => task'.rest = task.rest
      /\ task.dir \in Dir
  <2>1. CASE task.op = "add"
    <3>1. task \in [op : {"add"}, dir : Dir, drop : SUBSET Dir, preload : PreloadType]
      BY <2>1, TaskType DEF TypeInv, TypeOK
    <3> QED
      BY <1>1, <3>1
  <2>2. CASE task.op = "renotify"
    <3>1. task \in [op : {"renotify"}, dir : Dir, drop : SUBSET Dir, rest : SUBSET Dir]
      BY <2>2, TaskType DEF TypeInv, TypeOK
    <3> QED
      BY <1>1, <3>1
  <2> QED
    BY <2>1, <2>2 DEF RemoveOverlap
<1>3. notifyId' = notifyId \ {e} /\ notifyId \subseteq Dir
  BY <1>1 DEF Deregister, TypeInv, TypeOK
<1>4. addCount' = addCount /\ mishaps' = mishaps /\ task.op \in {"add", "renotify"}
  BY DEF RemoveOverlap, gconfd
<1>5. e \in notifyId /\ KeyIsBelow(task.dir, e)
  BY <1>4 DEF WatchedInv, TaskIsSound, OverlapsIn
<1>6. WatchedSoFar'
  BY <1>3, <1>4 DEF WatchedInv, WatchedSoFar
<1>7. TaskIsSound'
  <2>1. task'.drop = OverlapsIn(task'.dir, notifyId')
    BY <1>2, <1>3, <1>4 DEF WatchedInv, TaskIsSound, OverlapsIn
  <2>2. ~Covered(task'.dir, notifyId')
    BY <1>2, <1>3, <1>4 DEF WatchedInv, TaskIsSound, Covered
  <2> QED
    BY <1>2, <1>4, <2>1, <2>2 DEF WatchedInv, TaskIsSound
<1>8. CoveredOrToBe'
  <2> SUFFICES ASSUME mishaps' = 0, NEW d \in Dir, addCount'[d] > 0,
                      ~Covered(d, notifyId')
               PROVE  ToBeCovered(d)'
    BY DEF CoveredOrToBe
  <2>1. CASE Covered(d, notifyId)
    <3>1. KeyIsBelow(e, d)
      BY <1>3, <2>1 DEF Covered
    <3>2. KeyIsBelow(task.dir, d)
      BY <1>2, <1>3, <1>5, <3>1, Below
    <3> QED
      BY <1>2, <1>4, <3>2 DEF ToBeCovered
  <2>2. CASE ~Covered(d, notifyId)
    <3>1. ToBeCovered(d)
      BY <1>4, <2>2 DEF WatchedInv, CoveredOrToBe
    <3> QED
      BY <1>2, <1>4, <3>1 DEF ToBeCovered
  <2> QED
    BY <2>1, <2>2
<1> QED
  BY <1>6, <1>7, <1>8 DEF WatchedInv

LEMMA NotifyAddWatches ==
  ASSUME TypeInv, WatchedInv, NotifyAdd
  PROVE  WatchedInv'
<1>1. task.dir \in Dir /\ task \in Task /\ notifyId \subseteq Dir /\ addCount \in [Dir -> Nat]
  BY TaskType DEF NotifyAdd, TypeInv, TypeOK
<1>2. notifyId' = notifyId \cup {task.dir} /\ mishaps' = mishaps
  BY DEF NotifyAdd, gconfd
<1>3. /\ OverlapsIn(task.dir, notifyId) = {}
      /\ ~Covered(task.dir, notifyId)
  BY DEF NotifyAdd, WatchedInv, TaskIsSound
<1>4. \A d, e \in notifyId' : KeyIsBelow(d, e) => d = e
  BY <1>1, <1>2, <1>3 DEF WatchedInv, WatchedSoFar, OverlapsIn, Covered
<1>5. \A d \in Dir : Covered(d, notifyId) \/ KeyIsBelow(task.dir, d) => Covered(d, notifyId')
  BY <1>2 DEF Covered
<1>6. TypeOK'
  BY NotifyAddType DEF TypeInv
<1>7. CASE task.op = "add"
  <2>1. addCount' = [addCount EXCEPT ![task.dir] = 1] /\ task' = PreloadTask(task.dir, task.preload)
    BY <1>7 DEF NotifyAdd
  <2>2. \A e \in Dir : addCount'[e] > 0 <=> addCount[e] > 0 \/ e = task.dir
    BY <1>1, <2>1
  <2>3. WatchedSoFar'
    BY <1>1, <1>2, <1>4, <2>2 DEF WatchedInv, WatchedSoFar
  <2>4. task.preload \in PreloadType
    BY <1>1, <1>7, TaskType
  <2>5. task'.op \in {"idle", "preload"}
    BY <1>1, <2>1, <2>4, PreloadTaskType
  <2>6. TaskIsSound'
    BY <2>5 DEF TaskIsSound
  <2>7. CoveredOrToBe'
    <3> SUFFICES ASSUME mishaps' = 0, NEW d \in Dir, addCount'[d] > 0
                 PROVE  Covered(d, notifyId')
      BY DEF CoveredOrToBe
    <3>1. CASE d = task.dir
      BY <1>5, <3>1, Below
    <3>2. CASE d # task.dir
      <4>1. Covered(d, notifyId) \/ ToBeCovered(d)
        BY <1>2, <2>2, <3>2 DEF WatchedInv, CoveredOrToBe
      <4> QED
        BY <1>5, <1>7, <4>1 DEF ToBeCovered
    <3> QED
      BY <3>1, <3>2
  <2> QED
    BY <2>3, <2>6, <2>7 DEF WatchedInv
<1>8. CASE task.op = "renotify"
  <2>1. task.rest \subseteq Dir
    BY <1>1, <1>8, TaskType
  <2>2. task' \in RenotifyTasks(task.rest, notifyId') /\ addCount' = addCount
    BY <1>8 DEF NotifyAdd
  <2>3. WatchedSoFar'
    BY <1>2, <1>4, <1>8, <2>2 DEF WatchedInv, WatchedSoFar, TaskIsSound
  <2>4. \A d \in task.rest : addCount'[d] > 0
    BY <1>8, <2>2 DEF WatchedInv, TaskIsSound
  <2>5. mishaps' = 0 => \A d \in Dir : addCount'[d] > 0 => Covered(d, notifyId') \/ d \in task.rest
    BY <1>2, <1>5, <1>8, <2>2 DEF WatchedInv, CoveredOrToBe, ToBeCovered
  <2> QED
    BY <1>6, <2>1, <2>2, <2>3, <2>4, <2>5, RenotifySound
<1> QED
  BY <1>7, <1>8 DEF NotifyAdd

LEMMA RemoveDirWatches ==
  ASSUME TypeInv, WatchedInv, NEW d \in Dir, RemoveDir(d)
  PROVE  WatchedInv'
<1>1. /\ addCount \in [Dir -> Nat] /\ addCount[d] > 0 /\ mishaps' = mishaps
      /\ addCount' = [addCount EXCEPT ![d] = @ - 1]
      /\ task = Idle /\ task.op = "idle" /\ notifyId \subseteq Dir
  BY IdleIsNoCall DEF RemoveDir, Free, gconfd, TypeInv, TypeOK
<1>2. mishaps = 0 => \A e \in Dir : addCount[e] > 0 => Covered(e, notifyId)
  BY <1>1 DEF WatchedInv, CoveredOrToBe, ToBeCovered
<1>3. CASE addCount[d] = 1
  <2> DEFINE rest == {e \in Dir : addCount'[e] > 0}
  <2>1. notifyId' = notifyId \ {d} /\ task' \in RenotifyTasks(rest, notifyId')
    BY <1>3 DEF RemoveDir, Deregister
  <2>2. \A e \in Dir : addCount'[e] > 0 <=> e # d /\ addCount[e] > 0
    BY <1>1, <1>3
  <2>3. WatchedSoFar'
    BY <1>1, <2>1, <2>2 DEF WatchedInv, WatchedSoFar
  <2>4. TypeOK'
    BY RemoveDirType DEF TypeInv
  <2>5. rest \subseteq Dir /\ \A e \in Dir : e \in rest <=> addCount'[e] > 0
    OBVIOUS
  <2> HIDE DEF rest
  <2> QED
    BY <2>1, <2>3, <2>4, <2>5, RenotifySound
<1>4. CASE addCount[d] # 1
  <2>1. notifyId' = notifyId /\ task' = task
    BY <1>4 DEF RemoveDir
  <2>2. \A e \in Dir : addCount'[e] > 0 <=> addCount[e] > 0
    BY <1>1, <1>4
  <2>3. WatchedSoFar'
    BY <1>1, <2>1, <2>2 DEF WatchedInv, WatchedSoFar
  <2>4. TaskIsSound'
    BY <1>1, <2>1 DEF TaskIsSound
  <2>5. CoveredOrToBe'
    BY <1>1, <1>2, <2>1, <2>2 DEF CoveredOrToBe
  <2> QED
    BY <2>3, <2>4, <2>5 DEF WatchedInv
<1> QED
  BY <1>3, <1>4

(* A step that leaves the directories alone, and with them the call that is *)
(* about them, unless that call fails.                                      *)
Calls == {"add", "renotify"}

LEMMA OtherStepWatches ==
  ASSUME TypeInv, WatchedInv, UNCHANGED dirs,
         mishaps' = mishaps \/ mishaps' = mishaps + 1,
         \/ task' = task
         \/ task.op \notin Calls /\ task'.op \notin Calls
         \/ task'.op \notin Calls /\ mishaps' = mishaps + 1
  PROVE  WatchedInv'
<1>1. /\ addCount' = addCount /\ notifyId' = notifyId
      /\ mishaps \in Nat /\ (mishaps' = 0 => mishaps' = mishaps /\ mishaps = 0)
  BY DEF dirs, TypeInv, TypeOK
<1>2. WatchedSoFar'
  BY <1>1 DEF WatchedInv, WatchedSoFar
<1>3. CASE task' = task
  BY <1>1, <1>2, <1>3 DEF WatchedInv, TaskIsSound, CoveredOrToBe, ToBeCovered
<1>4. CASE task.op \notin Calls /\ task'.op \notin Calls
  BY <1>1, <1>2, <1>4 DEF WatchedInv, TaskIsSound, CoveredOrToBe, ToBeCovered, Calls
<1>5. CASE task'.op \notin Calls /\ mishaps' = mishaps + 1
  BY <1>1, <1>2, <1>5 DEF WatchedInv, TaskIsSound, CoveredOrToBe, Calls
<1> QED
  BY <1>3, <1>4, <1>5

LEMMA ReadWatches ==
  ASSUME TypeInv, WatchedInv,
         \/ \E d \in Dir, type \in PreloadType : Preload(d, type)
         \/ \E d \in Dir : AllEntries(d)
         \/ \E k \in Key : Get(k) \/ NotifyOne(k)
         \/ ClearCache \/ PreloadSubdirs \/ PreloadEntries
  PROVE  WatchedInv'
<1>1. ASSUME NEW d \in Dir, NEW type \in PreloadType, Preload(d, type) PROVE WatchedInv'
  <2>1. task.op \notin Calls /\ task'.op \notin Calls
    BY <1>1, IdleIsNoCall, PreloadTaskType DEF Preload, Free, Calls
  <2>2. UNCHANGED dirs /\ mishaps' = mishaps
    BY <1>1 DEF Preload, gconfd
  <2> QED
    BY <2>1, <2>2, OtherStepWatches
<1>2. CASE \/ \E d \in Dir : AllEntries(d)
           \/ \E k \in Key : Get(k) \/ NotifyOne(k)
           \/ ClearCache
  <2>1. UNCHANGED dirs /\ mishaps' = mishaps /\ task' = task
    BY <1>2 DEF AllEntries, Get, NotifyOne, ClearCache, gconfd
  <2> QED
    BY <2>1, OtherStepWatches
<1>3. ASSUME PreloadSubdirs \/ PreloadEntries PROVE WatchedInv'
  <2>1. UNCHANGED dirs /\ (mishaps' = mishaps \/ mishaps' = mishaps + 1)
    BY <1>3 DEF PreloadSubdirs, PreloadEntries, GoesWrong, gconfd
  <2>2. task.op = "preload" /\ (task' = Idle \/ \E todo : task' = [task EXCEPT !.todo = todo])
    BY <1>3 DEF PreloadSubdirs, PreloadEntries, Proceed
  <2>3. task \in [op : {"preload"}, todo : Seq(Reads) \ {<<>>}, deep : BOOLEAN]
    BY <2>2, TaskType DEF TypeInv, TypeOK
  <2>4. task.op \notin Calls /\ task'.op \notin Calls
    BY <2>2, <2>3, IdleIsNoCall DEF Calls
  <2> QED
    BY <2>1, <2>4, OtherStepWatches
<1> QED
  BY <1>1, <1>2, <1>3

LEMMA OthersWatch ==
  ASSUME TypeInv, WatchedInv,
         \/ \E k \in Key, v \in Value : Set(k, v)
         \/ \E k \in Key, v \in Value \cup {None} : OtherChange(k, v)
         \/ \E k \in Key : Unset(k)
         \/ \E p \in Key \cup Dir : RecursiveUnset(p) \/ RecursiveUnsetFails(p)
         \/ NotifyFromServer \/ NotifyIdle \/ Restart \/ Reconnect \/ NotifyAddFails
  PROVE  WatchedInv'
<1>1. CASE \/ \E k \in Key, v \in Value : Set(k, v)
           \/ \E k \in Key, v \in Value \cup {None} : OtherChange(k, v)
           \/ \E k \in Key : Unset(k)
           \/ \E p \in Key \cup Dir : RecursiveUnset(p)
           \/ NotifyFromServer \/ NotifyIdle \/ Reconnect
  <2>1. UNCHANGED dirs /\ mishaps' = mishaps /\ task' = task
    BY <1>1 DEF Set, OtherChange, Unset, RecursiveUnset, NotifyFromServer, NotifyIdle, Reconnect, gconfd
  <2> QED
    BY <2>1, OtherStepWatches
<1>2. CASE Restart \/ \E p \in Key \cup Dir : RecursiveUnsetFails(p)
  <2>1. UNCHANGED dirs /\ mishaps' = mishaps + 1 /\ task' = task
    BY <1>2 DEF Restart, RecursiveUnsetFails, GoesWrong
  <2> QED
    BY <2>1, OtherStepWatches
<1>3. CASE NotifyAddFails
  <2>1. UNCHANGED dirs /\ mishaps' = mishaps + 1 /\ task'.op \notin Calls
    BY <1>3, IdleIsNoCall DEF NotifyAddFails, GoesWrong, Calls
  <2> QED
    BY <2>1, OtherStepWatches
<1> QED
  BY <1>1, <1>2, <1>3

(* However directories are nested, added again and removed, and whatever    *)
(* happens between the steps of a call: two notifications never cover the   *)
(* same key, only directories of the list have one, and between calls,      *)
(* unless one failed, every directory of the list is covered.               *)
THEOREM Watched == Spec => []DirsAreWatchedOnce
<1>1. Init => WatchedInv
  <2> SUFFICES ASSUME Init PROVE WatchedInv
    OBVIOUS
  <2>1. task.op = "idle" /\ notifyId = {} /\ \A d \in Dir : addCount[d] = 0
    BY IdleIsNoCall DEF Init
  <2> QED
    BY <2>1 DEF WatchedInv, WatchedSoFar, TaskIsSound, CoveredOrToBe
<1>2. TypeInv /\ WatchedInv /\ [Next]_vars => WatchedInv'
  <2> SUFFICES ASSUME TypeInv, WatchedInv, [Next]_vars PROVE WatchedInv'
    OBVIOUS
  <2>1. ASSUME NEW d \in Dir, NEW type \in PreloadType, AddDir(d, type) PROVE WatchedInv'
    BY <2>1, AddDirWatches
  <2>2. ASSUME NEW d \in Dir, RemoveDir(d) PROVE WatchedInv'
    BY <2>2, RemoveDirWatches
  <2>3. CASE Finalize
    <3>1. notifyId' = {} /\ (\A d \in Dir : addCount'[d] = 0) /\ task'.op = "idle"
      BY <2>3, IdleIsNoCall DEF Finalize, Deregister, Free
    <3> QED
      BY <3>1 DEF WatchedInv, WatchedSoFar, TaskIsSound, CoveredOrToBe
  <2>4. CASE Continue
    BY <2>4, RemoveOverlapWatches, NotifyAddWatches, ReadWatches DEF Continue
  <2>5. CASE UNCHANGED vars
    <3>1. UNCHANGED dirs /\ mishaps' = mishaps /\ task' = task
      BY <2>5 DEF vars, gconfd
    <3> QED
      BY <3>1, OtherStepWatches
  <2> QED
    BY <2>1, <2>2, <2>3, <2>4, <2>5, ReadWatches, OthersWatch DEF Next
<1>3. WatchedInv => DirsAreWatchedOnce
  BY IdleIsNoCall DEF WatchedInv, WatchedSoFar, CoveredOrToBe, ToBeCovered, Free, DirsAreWatchedOnce
<1> QED
  BY <1>1, <1>2, <1>3, InitType, NextType, PTL DEF Spec

-----------------------------------------------------------------------------
(***************************************************************************)
(* The cache.  What the last message for a key says is what gconfd has, and *)
(* the cache has it when none is on its way: every step keeps this, or      *)
(* counts the key as missed.                                                *)
(***************************************************************************)
LEMMA NoteIsPending ==
  ASSUME NEW k
  PROVE  Pending(k) <=> \E i \in DOMAIN wire : IsFor(wire[i], k, notifyId)
BY DEF Pending, IsFor

LEMMA TailSays ==
  ASSUME NEW w \in Seq(Message), w # <<>>, NEW k, NEW ids, NEW v, LastSays(w, k, ids, v)
  PROVE  LastSays(Tail(w), k, ids, v)
<1>1. /\ Len(w) \in Nat /\ Len(Tail(w)) = Len(w) - 1
      /\ DOMAIN w = 1 .. Len(w) /\ DOMAIN Tail(w) = 1 .. Len(w) - 1
      /\ \A i \in 1 .. Len(w) - 1 : Tail(w)[i] = w[i + 1]
  BY HeadTailProperties, LenProperties
<1> SUFFICES ASSUME NEW i \in 1 .. Len(w) - 1, IsFor(Tail(w)[i], k, ids),
                    \A j \in 1 .. Len(w) - 1 : j > i => ~IsFor(Tail(w)[j], k, ids)
             PROVE  Tail(w)[i].val = v
  BY <1>1 DEF LastSays
<1>2. i + 1 \in DOMAIN w /\ IsFor(w[i + 1], k, ids)
  BY <1>1
<1>3. ASSUME NEW j \in DOMAIN w, j > i + 1 PROVE ~IsFor(w[j], k, ids)
  <2>1. j - 1 \in 1 .. Len(w) - 1 /\ j - 1 > i /\ (j - 1) + 1 = j
    BY <1>1, <1>3
  <2> QED
    BY <1>1, <2>1
<1>4. w[i + 1].val = v
  BY <1>2, <1>3 DEF LastSays
<1> QED
  BY <1>1, <1>4

(* Messages that follow: none is for the key, or one is and all say v. *)
LEMMA ConcatSays ==
  ASSUME NEW w \in Seq(Message), NEW m \in Seq(Message), NEW k, NEW ids, NEW v,
         \A i \in 1 .. Len(m) : IsFor(m[i], k, ids) => m[i].val = v,
         \/ LastSays(w, k, ids, v)
         \/ \E i \in 1 .. Len(m) : IsFor(m[i], k, ids)
  PROVE  LastSays(w \o m, k, ids, v)
<1> DEFINE c == w \o m
<1>1. /\ Len(w) \in Nat /\ Len(m) \in Nat
      /\ DOMAIN w = 1 .. Len(w) /\ DOMAIN c = 1 .. Len(w) + Len(m)
      /\ \A i \in 1 .. Len(w) : c[i] = w[i]
      /\ \A i \in 1 .. Len(m) : c[Len(w) + i] = m[i]
  BY ConcatProperties, LenProperties
<1> HIDE DEF c
<1> SUFFICES ASSUME NEW i \in DOMAIN c, IsFor(c[i], k, ids),
                    \A j \in DOMAIN c : j > i => ~IsFor(c[j], k, ids)
             PROVE  c[i].val = v
  BY DEF LastSays, c
<1>2. CASE i > Len(w)
  <2>1. i - Len(w) \in 1 .. Len(m) /\ Len(w) + (i - Len(w)) = i
    BY <1>1, <1>2
  <2> QED
    BY <1>1, <2>1
<1>3. CASE i <= Len(w)
  <2>1. i \in DOMAIN w /\ IsFor(w[i], k, ids)
    BY <1>1, <1>3
  <2>2. ASSUME NEW j \in 1 .. Len(m) PROVE ~IsFor(m[j], k, ids)
    <3>1. Len(w) + j \in DOMAIN c /\ Len(w) + j > i
      BY <1>1, <1>3
    <3> QED
      BY <1>1, <3>1
  <2>3. LastSays(w, k, ids, v)
    BY <2>2
  <2>4. \A j \in DOMAIN w : j > i => ~IsFor(w[j], k, ids)
    BY <1>1
  <2>5. w[i].val = v
    BY <2>1, <2>3, <2>4 DEF LastSays
  <2> QED
    BY <1>1, <2>1, <2>5
<1> QED
  BY <1>1, <1>2, <1>3

(* With nothing on its way for the directories that come or go, the same *)
(* messages are for the key.                                             *)
LEMMA OthersSay ==
  ASSUME NEW k, NEW ds, k \notin OnTheWay(ds), NEW ids, NEW new,
         \A d : d \notin ds => (d \in new <=> d \in ids)
  PROVE  \A i \in DOMAIN wire : IsFor(wire[i], k, new) <=> IsFor(wire[i], k, ids)
BY DEF OnTheWay, IsFor

LEMMA RegistrationsSay ==
  ASSUME CurrentInv, NEW ds, wire' = wire, store' = store,
         \A k \in Key : cache'[k] = cache[k] \/ cache'[k] = NoEntry,
         \A d : d \notin ds => (d \in notifyId' <=> d \in notifyId),
         missed' = missed \cup OnTheWay(ds)
  PROVE  CurrentInv'
<1> SUFFICES ASSUME NEW k \in Key \ missed'
             PROVE  LastSays(wire', k, notifyId', Effective(k, store')) /\ CacheSays(k)'
  BY DEF CurrentInv
<1>1. k \notin missed /\ k \notin OnTheWay(ds)
  OBVIOUS
<1>2. LastSays(wire, k, notifyId, Effective(k, store)) /\ CacheSays(k)
  BY <1>1 DEF CurrentInv
<1>3. \A i \in DOMAIN wire : IsFor(wire[i], k, notifyId') <=> IsFor(wire[i], k, notifyId)
  BY <1>1, OthersSay
<1>4. LastSays(wire', k, notifyId', Effective(k, store'))
  BY <1>2, <1>3 DEF LastSays
<1>5. Pending(k)' <=> Pending(k)
  BY <1>3 DEF Pending, IsFor
<1>6. CacheSays(k)'
  BY <1>2, <1>5 DEF CacheSays
<1> QED
  BY <1>4, <1>6

(* A read: what is fetched is current. *)
LEMMA ReadSays ==
  ASSUME CurrentInv, NEW ks, wire' = wire, store' = store, notifyId' = notifyId,
         \A k \in Key : cache'[k] = (IF k \in ks THEN Answer(k) ELSE cache[k]),
         \A k \in Key : k \in missed' <=> k \in missed /\ (k \in ks => Pending(k))
  PROVE  CurrentInv'
<1> SUFFICES ASSUME NEW k \in Key \ missed'
             PROVE  LastSays(wire', k, notifyId', Effective(k, store')) /\ CacheSays(k)'
  BY DEF CurrentInv
<1>1. Pending(k)' <=> Pending(k)
  BY DEF Pending
<1>5. Answer(k).val = Effective(k, store) /\ Effective(k, store') = Effective(k, store)
  BY DEF Answer
<1>6. ASSUME cache'[k] # NoEntry /\ ~Pending(k)' => cache'[k].val = Effective(k, store)
      PROVE  CacheSays(k)'
  BY <1>5, <1>6 DEF CacheSays
<1>2. CASE k \notin missed
  <2>1. LastSays(wire, k, notifyId, Effective(k, store)) /\ CacheSays(k)
    BY <1>2 DEF CurrentInv
  <2>2. CacheSays(k)'
    BY <1>1, <1>5, <1>6, <2>1 DEF CacheSays
  <2> QED
    BY <1>5, <2>1, <2>2
<1>3. CASE k \in missed
  <2>1. k \in ks /\ ~Pending(k)
    BY <1>3
  <2>2. CacheSays(k)'
    BY <1>1, <1>5, <1>6, <2>1
  <2>3. LastSays(wire', k, notifyId', Effective(k, store'))
    BY <2>1, NoteIsPending DEF LastSays
  <2> QED
    BY <2>2, <2>3
<1> QED
  BY <1>2, <1>3

LEMMA FetchSays ==
  ASSUME TypeOK, CurrentInv, NEW k \in Key, Fetch(k), UNCHANGED gconfd, UNCHANGED dirs
  PROVE  CurrentInv'
<1>1. wire' = wire /\ store' = store /\ notifyId' = notifyId /\ cache \in [Key -> Entry \cup {NoEntry}]
  BY DEF gconfd, dirs, TypeOK
<1>2. CASE KeyBeingMonitored(k)
  <2>1. cache' = [cache EXCEPT ![k] = Answer(k)] /\ missed' = missed \ {x \in {k} : ~Pending(x)}
    BY <1>2 DEF Fetch, Fill, Refreshed
  <2>2. \A x \in Key : cache'[x] = (IF x \in {k} THEN Answer(x) ELSE cache[x])
    BY <1>1, <2>1
  <2>3. \A x \in Key : x \in missed' <=> x \in missed /\ (x \in {k} => Pending(x))
    BY <2>1
  <2> QED
    BY <1>1, <2>2, <2>3, ReadSays
<1>3. CASE ~ KeyBeingMonitored(k)
  <2>1. cache' = cache /\ missed' = missed
    BY <1>3 DEF Fetch
  <2>2. \A x \in Key : cache'[x] = (IF x \in {} THEN Answer(x) ELSE cache[x])
    BY <2>1
  <2>3. \A x \in Key : x \in missed' <=> x \in missed /\ (x \in {} => Pending(x))
    BY <2>1
  <2> QED
    BY <1>1, <2>2, <2>3, ReadSays
<1> QED
  BY <1>2, <1>3

(* A request that changes values: a key that changes without a message is  *)
(* missed, and for the others the messages are the last.                   *)
LEMMA ChangeSays ==
  ASSUME TypeOK, CurrentInv, NEW ks \in SUBSET Key, NEW st \in Store, Change(ks, st),
         notifyId' = notifyId,
         \A k \in Key \ ks : st[k] = store[k] /\ (cache'[k] = cache[k] \/ cache'[k] = NoEntry)
  PROVE  CurrentInv'
<1> DEFINE m == Messages(ks, st)
<1>1. /\ wire' = wire \o m /\ store' = st
      /\ missed' = (missed \ ks) \cup {k \in ks : Told(k) = {}}
  BY DEF Change
<1>2. wire \in Seq(Message) /\ notifyId \subseteq Dir
  BY DEF TypeOK, Message
<1>3. /\ m \in Seq(Message)
      /\ \A i \in 1 .. Len(m) : m[i].key \in ks /\ m[i].val = Effective(m[i].key, st)
      /\ \A k \in ks : Told(k) # {} => \E i \in 1 .. Len(m) : m[i].key = k /\ m[i].dir \in Told(k)
  BY <1>2, MessagesType DEF Store
<1> HIDE DEF m
<1>4. /\ Len(wire) \in Nat /\ Len(m) \in Nat
      /\ DOMAIN wire = 1 .. Len(wire) /\ DOMAIN wire' = 1 .. Len(wire) + Len(m)
      /\ \A i \in 1 .. Len(wire) : wire'[i] = wire[i]
      /\ \A i \in 1 .. Len(m) : wire'[Len(wire) + i] = m[i]
  BY <1>1, <1>2, <1>3, ConcatProperties, LenProperties
<1> SUFFICES ASSUME NEW k \in Key \ missed'
             PROVE  LastSays(wire', k, notifyId', Effective(k, store')) /\ CacheSays(k)'
  BY DEF CurrentInv
<1>5. \A i \in 1 .. Len(m) : IsFor(m[i], k, notifyId) => m[i].val = Effective(k, st)
  BY <1>3 DEF IsFor
<1>6. CASE k \in ks
  <2>1. PICK i \in 1 .. Len(m) : m[i].key = k /\ m[i].dir \in Told(k)
    BY <1>1, <1>3, <1>6
  <2>2. IsFor(m[i], k, notifyId)
    BY <2>1 DEF IsFor, Told, Registered
  <2>3. LastSays(wire', k, notifyId', Effective(k, store'))
    BY <1>1, <1>2, <1>3, <1>5, <2>2, ConcatSays
  <2>4. Len(wire) + i \in DOMAIN wire' /\ IsFor(wire'[Len(wire) + i], k, notifyId')
    BY <1>4, <2>2
  <2>5. Pending(k)'
    BY <2>4 DEF Pending, IsFor
  <2> QED
    BY <2>3, <2>5 DEF CacheSays
<1>7. CASE k \notin ks
  <2>1. LastSays(wire, k, notifyId, Effective(k, store)) /\ CacheSays(k)
    BY <1>1, <1>7 DEF CurrentInv
  <2>2. Effective(k, store') = Effective(k, store)
    BY <1>1, <1>7 DEF Effective
  <2>3. LastSays(wire', k, notifyId', Effective(k, store'))
    BY <1>1, <1>2, <1>3, <1>5, <2>1, <2>2, ConcatSays
  <2>4. Pending(k) => Pending(k)'
    <3>1. ASSUME NEW i \in DOMAIN wire PROVE i \in DOMAIN wire' /\ wire'[i] = wire[i]
      BY <1>4
    <3> QED
      BY <3>1 DEF Pending
  <2>5. cache'[k] = cache[k] \/ cache'[k] = NoEntry
    BY <1>7
  <2>6. CacheSays(k)'
    BY <2>1, <2>2, <2>4, <2>5 DEF CacheSays
  <2> QED
    BY <2>3, <2>6
<1> QED
  BY <1>6, <1>7

CachedAs(c, k, e) == Cached(c, k, e, TRUE)

LEMMA CachedSays ==
  ASSUME NEW c \in Cache, NEW k \in Key, NEW e \in Entry
  PROVE  /\ CachedAs(c, k, e)[k].val = e.val
         /\ \A x \in Key \ {k} : CachedAs(c, k, e)[x] = c[x]
<1>1. CASE c[k] \notin {NoEntry, e}
  <2>1. [e EXCEPT !.schema = c[k].schema].val = e.val
    BY DEF Entry
  <2> QED
    BY <1>1, <2>1 DEF CachedAs, Cached, Cache
<1>2. CASE c[k] \in {NoEntry, e}
  BY <1>2 DEF CachedAs, Cached, Cache
<1> QED
  BY <1>1, <1>2

(* A message is dispatched: the cache takes what it says. *)
LEMMA DispatchSays ==
  ASSUME TypeOK, CurrentInv, NotifyFromServer
  PROVE  CurrentInv'
<1> DEFINE m == Head(wire)
<1>1. /\ wire # <<>> /\ wire' = Tail(wire) /\ store' = store /\ notifyId' = notifyId
      /\ missed' = missed
  BY DEF NotifyFromServer, dirs
<1>2. wire \in Seq(Message) /\ cache \in Cache
  BY DEF TypeOK, Message, Cache
<1>3. /\ Len(wire) \in Nat \ {0} /\ DOMAIN wire = 1 .. Len(wire)
      /\ m = wire[1] /\ m \in Message
  BY <1>1, <1>2, LenProperties, EmptySeq, HeadTailProperties
<1>4. /\ DOMAIN wire' = 1 .. Len(wire) - 1
      /\ \A i \in 1 .. Len(wire) - 1 : wire'[i] = wire[i + 1]
  BY <1>1, <1>2, HeadTailProperties, LenProperties
<1> HIDE DEF m
<1> SUFFICES ASSUME NEW k \in Key \ missed'
             PROVE  LastSays(wire', k, notifyId', Effective(k, store')) /\ CacheSays(k)'
  BY DEF CurrentInv
<1>5. LastSays(wire, k, notifyId, Effective(k, store)) /\ CacheSays(k)
  BY <1>1 DEF CurrentInv
<1>6. LastSays(wire', k, notifyId', Effective(k, store'))
  BY <1>1, <1>2, <1>5, TailSays
<1>7. Pending(k) <=> IsFor(m, k, notifyId) \/ Pending(k)'
  <2>1. ASSUME NEW i \in DOMAIN wire, i # 1 PROVE i - 1 \in DOMAIN wire' /\ wire'[i - 1] = wire[i]
    <3>1. i - 1 \in 1 .. Len(wire) - 1 /\ (i - 1) + 1 = i
      BY <1>3, <2>1
    <3> QED
      BY <1>4, <3>1
  <2>2. ASSUME NEW i \in DOMAIN wire' PROVE i + 1 \in DOMAIN wire /\ wire'[i] = wire[i + 1]
    BY <1>3, <1>4
  <2>3. Pending(k) <=> \E i \in DOMAIN wire : IsFor(wire[i], k, notifyId)
    BY NoteIsPending
  <2>4. Pending(k)' <=> \E i \in DOMAIN wire' : IsFor(wire'[i], k, notifyId)
    BY <1>1 DEF Pending, IsFor
  <2>5. 1 \in DOMAIN wire
    BY <1>3
  <2> QED
    BY <1>3, <2>1, <2>2, <2>3, <2>4, <2>5
<1>8. CASE IsFor(m, k, notifyId)
  <2>1. CacheAndQueue(m.key, m.val, TRUE) /\ k = m.key
    BY <1>8 DEF NotifyFromServer, FindsConnection, IsFor, m
  <2>2. Plain(m.val) \in Entry /\ Plain(m.val).val = m.val
    BY <1>3 DEF Plain, Entry, Message
  <2>3. cache'[k].val = m.val
    <3>1. cache' = CachedAs(cache, k, Plain(m.val))
      BY <2>1 DEF CacheAndQueue, Fill, CachedAs
    <3>2. CachedAs(cache, k, Plain(m.val))[k].val = Plain(m.val).val
      BY <1>2, <2>2, CachedSays
    <3> QED
      BY <2>2, <3>1, <3>2
  <2>4. ASSUME ~Pending(k)' PROVE m.val = Effective(k, store)
    <3>1. ASSUME NEW j \in DOMAIN wire, j > 1 PROVE ~IsFor(wire[j], k, notifyId)
      <4>1. j - 1 \in DOMAIN wire' /\ wire'[j - 1] = wire[j]
        <5>1. j - 1 \in 1 .. Len(wire) - 1 /\ (j - 1) + 1 = j
          BY <1>3, <3>1
        <5> QED
          BY <1>4, <5>1
      <4> QED
        BY <1>1, <2>4, <4>1 DEF Pending, IsFor
    <3>2. 1 \in DOMAIN wire
      BY <1>3
    <3> QED
      BY <1>3, <1>5, <1>8, <3>1, <3>2 DEF LastSays
  <2>5. Effective(k, store') = Effective(k, store)
    BY <1>1
  <2>6. CacheSays(k)'
    BY <2>3, <2>4, <2>5 DEF CacheSays
  <2> QED
    BY <1>6, <2>6
<1>9. CASE ~IsFor(m, k, notifyId)
  <2>1. cache'[k] = cache[k]
    <3>1. CASE FindsConnection(m)
      <4>1. CacheAndQueue(m.key, m.val, TRUE) /\ k # m.key
        BY <1>9, <3>1 DEF NotifyFromServer, FindsConnection, IsFor, m
      <4>2. Plain(m.val) \in Entry /\ m.key \in Key
        BY <1>3 DEF Plain, Entry, Message
      <4>3. cache' = CachedAs(cache, m.key, Plain(m.val))
        BY <4>1 DEF CacheAndQueue, Fill, CachedAs
      <4>4. \A x \in Key \ {m.key} : CachedAs(cache, m.key, Plain(m.val))[x] = cache[x]
        BY <1>2, <4>2, CachedSays
      <4> QED
        BY <4>1, <4>3, <4>4
    <3>2. CASE ~FindsConnection(m)
      BY <3>2 DEF NotifyFromServer, m
    <3> QED
      BY <3>1, <3>2
  <2>2. Effective(k, store') = Effective(k, store)
    BY <1>1
  <2>3. CacheSays(k)'
    BY <1>5, <1>7, <1>9, <2>1, <2>2 DEF CacheSays
  <2> QED
    BY <1>6, <2>3
<1> QED
  BY <1>8, <1>9

LEMMA DropForgets ==
  ASSUME NEW ks, Drop(ks), NEW k \in Key
  PROVE  cache'[k] = cache[k] \/ cache'[k] = NoEntry
BY DEF Drop

(* A step that changes neither what is set, nor messages, nor registrations, *)
(* and forgets at most what is cached.                                       *)
LEMMA OtherStepSays ==
  ASSUME CurrentInv, wire' = wire, store' = store, notifyId' = notifyId, missed' = missed,
         \A k \in Key : cache'[k] = cache[k] \/ cache'[k] = NoEntry
  PROVE  CurrentInv'
<1>1. missed' = missed \cup OnTheWay({})
  BY DEF OnTheWay
<1> QED
  BY <1>1, RegistrationsSay

LEMMA CallSays ==
  ASSUME TypeOK, CurrentInv,
         \/ \E d \in Dir, type \in PreloadType : AddDir(d, type) \/ Preload(d, type)
         \/ \E d \in Dir : RemoveDir(d) \/ AllEntries(d)
         \/ \E k \in Key : Get(k) \/ NotifyOne(k)
         \/ Finalize \/ ClearCache \/ Continue \/ NotifyAddFails
  PROVE  CurrentInv'
<1>1. ASSUME NEW d \in Dir, RemoveDir(d) PROVE CurrentInv'
  <2>1. wire' = wire /\ store' = store
    BY <1>1 DEF RemoveDir, gconfd
  <2>2. CASE addCount[d] = 1
    <3>1. Deregister({d}) /\ Drop({k \in Key : KeyIsBelow(d, k)})
      BY <1>1, <2>2 DEF RemoveDir
    <3>2. \A e : e \notin {d} => (e \in notifyId' <=> e \in notifyId)
      BY <3>1 DEF Deregister
    <3>3. missed' = missed \cup OnTheWay({d})
      BY <3>1 DEF Deregister
    <3>4. \A k \in Key : cache'[k] = cache[k] \/ cache'[k] = NoEntry
      BY <3>1, DropForgets
    <3> QED
      BY <2>1, <3>2, <3>3, <3>4, RegistrationsSay
  <2>3. CASE addCount[d] # 1
    <3>1. notifyId' = notifyId /\ missed' = missed /\ cache' = cache
      BY <1>1, <2>3 DEF RemoveDir
    <3> QED
      BY <2>1, <3>1, OtherStepSays
  <2> QED
    BY <2>2, <2>3
<1>2. CASE Finalize
  <2>1. /\ wire' = wire /\ store' = store /\ notifyId' = {}
        /\ missed' = missed \cup OnTheWay(notifyId)
        /\ \A k \in Key : cache'[k] = NoEntry
    BY <1>2 DEF Finalize, Deregister, gconfd
  <2>2. \A e : e \notin notifyId => (e \in notifyId' <=> e \in notifyId)
    BY <2>1
  <2>3. \A k \in Key : cache'[k] = cache[k] \/ cache'[k] = NoEntry
    BY <2>1
  <2> QED
    BY <2>1, <2>2, <2>3, RegistrationsSay
<1>3. CASE RemoveOverlap
  <2>1. PICK e \in task.drop : Deregister({e})
    BY <1>3 DEF RemoveOverlap
  <2>2. wire' = wire /\ store' = store /\ cache' = cache
    BY <1>3 DEF RemoveOverlap, gconfd, caches
  <2>3. \A d : d \notin {e} => (d \in notifyId' <=> d \in notifyId)
    BY <2>1 DEF Deregister
  <2>4. missed' = missed \cup OnTheWay({e})
    BY <2>1 DEF Deregister
  <2>5. \A k \in Key : cache'[k] = cache[k] \/ cache'[k] = NoEntry
    BY <2>2
  <2> QED
    BY <2>2, <2>3, <2>4, <2>5, RegistrationsSay
<1>4. CASE NotifyAdd
  <2>1. PICK e : e = task.dir
    OBVIOUS
  <2>2. wire' = wire /\ store' = store /\ cache' = cache
    BY <1>4 DEF NotifyAdd, gconfd, caches
  <2>3. \A d : d \notin {e} => (d \in notifyId' <=> d \in notifyId)
    BY <1>4, <2>1 DEF NotifyAdd
  <2>4. missed' = missed \cup OnTheWay({e})
    BY <1>4, <2>1 DEF NotifyAdd
  <2>5. \A k \in Key : cache'[k] = cache[k] \/ cache'[k] = NoEntry
    BY <2>2
  <2> QED
    BY <2>2, <2>3, <2>4, <2>5, RegistrationsSay
<1>5. ASSUME NEW ks, Fill(CachedAll(ks)), Refreshed(ks), wire' = wire, store' = store,
             notifyId' = notifyId
      PROVE  CurrentInv'
  <2>1. \A k \in Key : cache'[k] = (IF k \in ks THEN Answer(k) ELSE cache[k])
    BY <1>5 DEF Fill, CachedAll
  <2>2. \A k \in Key : k \in missed' <=> k \in missed /\ (k \in ks => Pending(k))
    BY <1>5 DEF Refreshed
  <2> QED
    BY <1>5, <2>1, <2>2, ReadSays
<1>6. ASSUME NEW d \in Dir, AllEntries(d) PROVE CurrentInv'
  BY <1>5, <1>6 DEF AllEntries, gconfd, dirs
<1>7. CASE PreloadEntries
  <2>1. wire' = wire /\ store' = store /\ notifyId' = notifyId
    BY <1>7 DEF PreloadEntries, dirs
  <2>2. PICK d : d = PreloadNext[2]
    OBVIOUS
  <2>3. CASE Fill(CachedAll(EntriesOf(d))) /\ Refreshed(EntriesOf(d))
    BY <1>5, <2>1, <2>3
  <2>4. CASE UNCHANGED <<cache, dropped, missed>>
    BY <2>1, <2>4, OtherStepSays
  <2> QED
    BY <1>7, <2>2, <2>3, <2>4 DEF PreloadEntries
<1>8. ASSUME NEW k \in Key, Get(k) \/ NotifyOne(k) PROVE CurrentInv'
  <2>1. UNCHANGED gconfd /\ UNCHANGED dirs
    BY <1>8 DEF Get, NotifyOne
  <2>2. CASE Fetch(k)
    BY <2>1, <2>2, FetchSays
  <2>3. CASE UNCHANGED <<cache, dropped, missed>>
    BY <2>1, <2>3, OtherStepSays DEF gconfd, dirs
  <2> QED
    BY <1>8, <2>2, <2>3 DEF Get, NotifyOne
<1>9. CASE ClearCache
  <2>1. Drop(Key) /\ UNCHANGED <<gconfd, dirs, missed>>
    BY <1>9 DEF ClearCache
  <2>2. \A k \in Key : cache'[k] = cache[k] \/ cache'[k] = NoEntry
    BY <2>1, DropForgets
  <2> QED
    BY <2>1, <2>2, OtherStepSays DEF gconfd, dirs
<1>10. CASE \/ \E d \in Dir, type \in PreloadType : AddDir(d, type) \/ Preload(d, type)
            \/ PreloadSubdirs \/ NotifyAddFails
  <2>1. /\ wire' = wire /\ store' = store /\ notifyId' = notifyId /\ missed' = missed
        /\ cache' = cache
    BY <1>10 DEF AddDir, Preload, PreloadSubdirs, NotifyAddFails, gconfd, dirs, caches
  <2> QED
    BY <2>1, OtherStepSays
<1> QED
  BY <1>1, <1>2, <1>3, <1>4, <1>6, <1>7, <1>8, <1>9, <1>10 DEF Continue

LEMMA WriteSays ==
  ASSUME TypeOK, CurrentInv,
         \/ \E k \in Key, v \in Value : Set(k, v)
         \/ \E k \in Key, v \in Value \cup {None} : OtherChange(k, v)
         \/ \E k \in Key : Unset(k)
         \/ \E p \in Key \cup Dir : RecursiveUnset(p) \/ RecursiveUnsetFails(p)
  PROVE  CurrentInv'
<1>0. store \in Store /\ cache \in Cache
  BY DEF TypeOK, Store, Cache
<1>1. ASSUME NEW k \in Key, NEW v \in Value \cup {None}, Change({k}, [store EXCEPT ![k] = v]),
             notifyId' = notifyId,
             \A x \in Key \ {k} : cache'[x] = cache[x] \/ cache'[x] = NoEntry
      PROVE  CurrentInv'
  <2>1. [store EXCEPT ![k] = v] \in Store
    BY <1>0 DEF Store
  <2>2. \A x \in Key \ {k} : [store EXCEPT ![k] = v][x] = store[x]
    BY <1>0 DEF Store
  <2>3. PICK ks \in SUBSET Key : ks = {k}
    OBVIOUS
  <2>4. PICK st \in Store : st = [store EXCEPT ![k] = v]
    BY <2>1
  <2>5. Change(ks, st)
    BY <1>1, <2>3, <2>4
  <2>6. \A x \in Key \ ks : st[x] = store[x] /\ (cache'[x] = cache[x] \/ cache'[x] = NoEntry)
    BY <1>1, <2>2, <2>3, <2>4
  <2> QED
    BY <1>1, <2>5, <2>6, ChangeSays
<1>2. ASSUME NEW k \in Key, NEW v \in Value, Set(k, v) PROVE CurrentInv'
  <2>1. cache' = CachedAs(cache, k, Plain(v))
    BY <1>2 DEF Set, CacheAndQueue, Fill, CachedAs
  <2>2. Plain(v) \in Entry
    BY DEF Plain, Entry
  <2>3. \A x \in Key \ {k} : cache'[x] = cache[x]
    BY <1>0, <2>1, <2>2, CachedSays
  <2>4. Change({k}, [store EXCEPT ![k] = v]) /\ notifyId' = notifyId /\ v \in Value \cup {None}
    BY <1>2 DEF Set, dirs
  <2>5. \A x \in Key \ {k} : cache'[x] = cache[x] \/ cache'[x] = NoEntry
    BY <2>3
  <2> QED
    BY ONLY <1>1, <2>4, <2>5, k \in Key
<1>3. ASSUME NEW k \in Key, NEW v \in Value \cup {None}, OtherChange(k, v) PROVE CurrentInv'
  BY <1>1, <1>3 DEF OtherChange, dirs, caches
<1>4. ASSUME NEW k \in Key, Unset(k) PROVE CurrentInv'
  <2>1. \A x \in Key : cache'[x] = cache[x] \/ cache'[x] = NoEntry
    BY <1>4, DropForgets DEF Unset
  <2>2. Change({k}, [store EXCEPT ![k] = None]) /\ notifyId' = notifyId
    BY <1>4 DEF Unset, dirs
  <2>3. None \in Value \cup {None} /\ \A x \in Key \ {k} : cache'[x] = cache[x] \/ cache'[x] = NoEntry
    BY <2>1
  <2> QED
    BY ONLY <1>1, <2>2, <2>3, k \in Key
<1>5. ASSUME NEW ks \in SUBSET Key
      PROVE  /\ UnsetBelow(ks) \in Store
             /\ \A k \in Key \ ks : UnsetBelow(ks)[k] = store[k]
  BY <1>0 DEF UnsetBelow, Store
<1>6. ASSUME NEW p \in Key \cup Dir PROVE SetBelow(p) \in SUBSET Key
  BY DEF SetBelow
<1>7. ASSUME NEW p \in Key \cup Dir, RecursiveUnset(p) PROVE CurrentInv'
  <2>1. Change(SetBelow(p), UnsetBelow(SetBelow(p))) /\ notifyId' = notifyId
    BY <1>7 DEF RecursiveUnset, dirs
  <2>2. \A x \in Key : cache'[x] = cache[x] \/ cache'[x] = NoEntry
    BY <1>7, DropForgets DEF RecursiveUnset
  <2>3. PICK ks \in SUBSET Key : ks = SetBelow(p)
    BY <1>6
  <2>4. PICK st \in Store : st = UnsetBelow(ks) /\ \A k \in Key \ ks : st[k] = store[k]
    BY <1>5
  <2>5. Change(ks, st) /\ notifyId' = notifyId
    BY <2>1, <2>3, <2>4
  <2> QED
    BY <2>2, <2>4, <2>5, ChangeSays
<1>8. ASSUME NEW p \in Key \cup Dir, RecursiveUnsetFails(p) PROVE CurrentInv'
  <2>1. PICK ks \in SUBSET SetBelow(p) : store' = UnsetBelow(ks) /\ missed' = missed \cup ks
    BY <1>8 DEF RecursiveUnsetFails
  <2>2. wire' = wire /\ notifyId' = notifyId /\ cache' = cache
    BY <1>8 DEF RecursiveUnsetFails, dirs, caches
  <2>3. \A k \in Key \ ks : store'[k] = store[k]
    BY <1>5, <1>6, <2>1
  <2> SUFFICES ASSUME NEW k \in Key \ missed'
               PROVE  LastSays(wire', k, notifyId', Effective(k, store')) /\ CacheSays(k)'
    BY DEF CurrentInv
  <2>4. LastSays(wire, k, notifyId, Effective(k, store)) /\ CacheSays(k)
    BY <2>1 DEF CurrentInv
  <2>5. Effective(k, store') = Effective(k, store)
    BY <2>1, <2>3 DEF Effective
  <2>6. Pending(k)' <=> Pending(k)
    BY <2>2 DEF Pending
  <2>7. CacheSays(k)'
    BY <2>2, <2>4, <2>5, <2>6 DEF CacheSays
  <2> QED
    BY <2>2, <2>4, <2>5, <2>7
<1> QED
  BY <1>2, <1>3, <1>4, <1>7, <1>8

(* What GConfClient answers from its cache is what gconfd has, unless a     *)
(* message that says otherwise is on its way or the key is one of the       *)
(* missed: through every order of calls, changes of others, messages,       *)
(* restarts and failures.                                                   *)
THEOREM Current == Spec => []CacheIsCurrent
<1>1. Init => CurrentInv
  BY DEF Init, CurrentInv, LastSays, CacheSays
<1>2. TypeInv /\ CurrentInv /\ [Next]_vars => CurrentInv'
  <2> SUFFICES ASSUME TypeOK, CurrentInv, [Next]_vars PROVE CurrentInv'
    BY DEF TypeInv
  <2>1. CASE UNCHANGED vars
    BY <2>1, OtherStepSays DEF vars, gconfd, dirs, caches
  <2>2. CASE NotifyIdle \/ Restart \/ Reconnect
    <3>1. /\ wire' = wire /\ store' = store /\ notifyId' = notifyId /\ missed' = missed
          /\ cache' = cache
      BY <2>2 DEF NotifyIdle, Restart, Reconnect, gconfd, dirs, caches
    <3> QED
      BY <3>1, OtherStepSays
  <2> QED
    BY <2>1, <2>2, CallSays, WriteSays, DispatchSays DEF Next
<1>3. CurrentInv => CacheIsCurrent
  BY DEF CurrentInv, CacheSays, CacheIsCurrent, Answer
<1> QED
  BY <1>1, <1>2, <1>3, InitType, NextType, PTL DEF Spec

-----------------------------------------------------------------------------
(***************************************************************************)
(* What the cache denies.  Lost(k): the key has a value, the cache does not *)
(* have it, and neither the history nor a message on its way accounts for   *)
(* that.  A lost key must not be below what counts as cached, except while  *)
(* the walk through the directories below one has yet to come to it.        *)
(***************************************************************************)
Lost(k) ==
    /\ cache[k] = NoEntry /\ k \notin dropped
    /\ k \notin missed /\ ~Pending(k)
    /\ Effective(k, store) # None

Visits(r, p) ==
    CASE r[1] = "entries" -> r[2] = p
      [] r[1] = "below"   -> KeyIsBelow(r[2], p) /\ r[2] # p
      [] r[1] = "subdirs" -> KeyIsBelow(r[2], p)

WillVisit(todo, p) == \E i \in DOMAIN todo : Visits(todo[i], p)

(* A directory is listed before those in it are searched. *)
VisitsBelow(todo, p) ==
    \A i \in DOMAIN todo :
        todo[i][1] = "entries" /\ KeyIsBelow(todo[i][2], p) /\ todo[i][2] # p
          => \E j \in DOMAIN todo : j > i /\ Visits(todo[j], p)

Walking == task.op = "preload" /\ task.deep

NotListed(k) ==
    LET p == KeyDirectory(k)
    IN  /\ p \notin cacheDirs /\ p \notin cacheRecursiveDirs
        /\ Walking => VisitsBelow(task.todo, p)
        /\ \A d \in cacheRecursiveDirs :
              KeyIsBelow(d, p) => Walking /\ WillVisit(task.todo, p)

AbsenceInv == mishaps = 0 => \A k \in Key : Lost(k) => NotListed(k)

(* A set of numbers that is not empty has a least one. *)
LEMMA LeastOf ==
  ASSUME NEW S \in SUBSET Nat, S # {}
  PROVE  \E x \in S : \A y \in S : x <= y
<1> DEFINE Less == {ss \in Nat \X Nat : ss[1] < ss[2]}
<1>1. IsWellFoundedOn(Less, Nat)
  BY NatLessThanWellFounded DEF OpToRel
<1>2. \E x \in S : \A y \in S : ~ (<<y, x>> \in Less)
  <2> HIDE DEF Less
  <2> QED
    BY <1>1, WFMin, Zenon
<1>3. PICK x \in S : \A y \in S : ~ (<<y, x>> \in Less)
  BY <1>2
<1>4. ASSUME NEW y \in S PROVE x <= y
  <2>1. ~ (y < x) /\ x \in Nat /\ y \in Nat
    BY <1>3
  <2> QED
    BY <2>1
<1> QED
  BY <1>4

(* Of directories that lie above a name, one is below all the others, and *)
(* one is above all the others.                                           *)
SomeAbove(p, S) == S \subseteq Up[p] /\ S # {}

LEMMA Nested ==
  ASSUME NEW p \in Path, NEW S, SomeAbove(p, S)
  PROVE  /\ \E q \in S : \A r \in S : r \in Up[q]
         /\ \E q \in S : \A r \in S : q \in Up[r]
<1> USE DEF SomeAbove
<1> DEFINE n == Cardinality(Up[p])
           c(q) == Cardinality(Up[q])
<1>1. \A q \in S : q \in Path /\ Up[q] \subseteq Up[p] /\ IsFiniteSet(Up[q])
  BY PathFinite
<1>2. n \in Nat /\ \A q \in S : c(q) \in Nat /\ c(q) <= n
  BY <1>1, PathFinite, FS_CardinalityType, FS_Subset
<1>3. ASSUME NEW q \in S, NEW r \in S, c(q) <= c(r) PROVE q \in Up[r]
  <2>1. q \in Up[r] \/ r \in Up[q]
    BY <1>1
  <2>2. CASE r \in Up[q]
    <3>1. Up[r] \subseteq Up[q]
      BY <1>1, <2>2
    <3>2. c(r) <= c(q)
      BY <1>1, <3>1, FS_Subset
    <3>3. c(r) = c(q)
      <4> HIDE DEF c
      <4> QED
        BY <1>2, <1>3, <3>2
    <3>4. Up[q] = Up[r]
      BY <1>1, <3>1, <3>3, FS_Subset
    <3> QED
      BY <1>1, <3>4
  <2> QED
    BY <2>1, <2>2
<1>4. \E q \in S : \A r \in S : c(q) <= c(r)
  <2> DEFINE N == {c(q) : q \in S}
  <2>1. N \in SUBSET Nat /\ N # {}
    BY <1>2
  <2>2. \E x \in N : \A y \in N : x <= y
    <3> HIDE DEF N
    <3> QED
      BY <2>1, LeastOf
  <2> QED
    BY <2>2
<1>5. \E q \in S : \A r \in S : c(r) <= c(q)
  <2> DEFINE N == {n - c(q) : q \in S}
  <2>1. N \in SUBSET Nat /\ N # {}
    <3> HIDE DEF n, c
    <3> QED
      BY <1>2
  <2>2. PICK x \in N : \A y \in N : x <= y
    <3> HIDE DEF N
    <3> QED
      BY <2>1, LeastOf
  <2>3. PICK q \in S : x = n - c(q)
    BY <2>2
  <2>4. \A r \in S : n - c(q) <= n - c(r)
    BY <2>2, <2>3
  <2> HIDE DEF n, c
  <2>5. \A r \in S : c(r) <= c(q)
    BY <1>2, <2>4
  <2> QED
    BY <2>5
<1> HIDE DEF c
<1> QED
  BY <1>3, <1>4, <1>5

(* The directory of a name is above it, and everything else that is above *)
(* the name is above its directory.                                       *)
LEMMA DirectoryIsAbove ==
  ASSUME NEW p \in Path, p # Root
  PROVE  /\ KeyDirectory(p) \in Up[p] \ {p}
         /\ \A q \in Up[p] \ {p} : q \in Up[KeyDirectory(p)]
<1> DEFINE S == Up[p] \ {p}
<1>1. SomeAbove(p, S)
  BY DEF SomeAbove
<1>2. \E q \in S : \A r \in S : r \in Up[q]
  <2> HIDE DEF S
  <2> QED
    BY <1>1, Nested
<1> QED
  BY <1>2 DEF KeyDirectory

(* The step from a directory down to one far below it. *)
LEMMA StepDown ==
  ASSUME NEW p \in Path, NEW d \in Up[p], d # p
  PROVE  \E s \in Up[p] : s # d /\ s # Root /\ d \in Up[s] /\ KeyDirectory(s) = d
<1> DEFINE S == {s \in Up[p] : d \in Up[s] /\ s # d}
<1>1. SomeAbove(p, S)
  BY DEF SomeAbove
<1>2. \E s \in S : \A r \in S : s \in Up[r]
  <2> HIDE DEF S
  <2> QED
    BY <1>1, Nested
<1>3. PICK s \in S : \A r \in S : s \in Up[r]
  BY <1>2
<1>4. s \in Path /\ d \in Path /\ d \in Up[s] /\ s # d
  BY <1>3
<1>5. s # Root
  BY <1>4
<1>6. /\ KeyDirectory(s) \in Up[s] \ {s}
      /\ d \in Up[KeyDirectory(s)]
  BY <1>4, <1>5, DirectoryIsAbove
<1>7. KeyDirectory(s) = d
  <2> SUFFICES ASSUME KeyDirectory(s) # d PROVE FALSE
    OBVIOUS
  <2>1. KeyDirectory(s) \in S /\ KeyDirectory(s) \in Path
    BY <1>3, <1>4, <1>6
  <2>2. s \in Up[KeyDirectory(s)]
    BY <1>3, <2>1
  <2> QED
    BY <1>4, <1>6, <2>1, <2>2
<1> QED
  BY <1>3, <1>4, <1>5, <1>7

(* A key that has a value is found below every directory above it. *)
LEMMA FoundBelow ==
  ASSUME NEW k \in Key, Known(k), NEW d \in Dir, KeyIsBelow(d, KeyDirectory(k)), d # KeyDirectory(k)
  PROVE  \E s \in SubdirsOf(d) : KeyIsBelow(s, KeyDirectory(k))
<1> DEFINE p == KeyDirectory(k)
<1>1. k \in Path /\ k # Root /\ Dir \subseteq Path
  OBVIOUS
<1>2. p \in Up[k] /\ p \in Path
  BY <1>1, DirectoryIsAbove
<1>3. Up[p] \subseteq Up[k] /\ Up[p] \ {Root} \subseteq Dir
  BY <1>1, <1>2, DirAssumption
<1> HIDE DEF p
<1>4. d \in Up[p] /\ d # p
  BY DEF KeyIsBelow, p
<1>5. PICK s \in Up[p] : s # d /\ s # Root /\ d \in Up[s] /\ KeyDirectory(s) = d
  BY <1>2, <1>4, StepDown
<1>6. s \in Dir /\ KeyIsBelow(s, k)
  BY <1>3, <1>5 DEF KeyIsBelow
<1>7. DirExists(s)
  BY <1>6 DEF DirExists
<1>8. s \in SubdirsOf(d)
  BY <1>5, <1>6, <1>7 DEF SubdirsOf
<1> QED
  BY <1>5, <1>8 DEF KeyIsBelow, p

-----------------------------------------------------------------------------
(* What is left of a walk. *)
LEMMA ConcatAt ==
  ASSUME NEW s \in Seq(Reads), NEW t \in Seq(Reads)
  PROVE  /\ s \o t \in Seq(Reads)
         /\ Len(s) \in Nat /\ Len(t) \in Nat
         /\ DOMAIN s = 1 .. Len(s) /\ DOMAIN t = 1 .. Len(t)
         /\ DOMAIN (s \o t) = 1 .. Len(s) + Len(t)
         /\ \A i \in 1 .. Len(s) : (s \o t)[i] = s[i]
         /\ \A i \in 1 .. Len(t) : (s \o t)[Len(s) + i] = t[i]
BY ConcatProperties, LenProperties

LEMMA ConcatVisits ==
  ASSUME NEW s \in Seq(Reads), NEW t \in Seq(Reads), NEW p,
         WillVisit(s, p) \/ WillVisit(t, p)
  PROVE  WillVisit(s \o t, p)
<1> DEFINE c == s \o t
<1>1. /\ Len(s) \in Nat /\ Len(t) \in Nat
      /\ DOMAIN s = 1 .. Len(s) /\ DOMAIN t = 1 .. Len(t)
      /\ DOMAIN c = 1 .. Len(s) + Len(t)
      /\ \A i \in 1 .. Len(s) : c[i] = s[i]
      /\ \A i \in 1 .. Len(t) : c[Len(s) + i] = t[i]
  BY ConcatAt
<1> HIDE DEF c
<1>2. ASSUME NEW i \in DOMAIN s, Visits(s[i], p) PROVE \E j \in DOMAIN c : Visits(c[j], p)
  BY <1>1, <1>2
<1>3. ASSUME NEW i \in DOMAIN t, Visits(t[i], p) PROVE \E j \in DOMAIN c : Visits(c[j], p)
  <2>1. Len(s) + i \in DOMAIN c /\ c[Len(s) + i] = t[i]
    BY <1>1
  <2> QED
    BY <1>3, <2>1
<1> QED
  BY <1>2, <1>3 DEF WillVisit, c

LEMMA ConcatVisitsBelow ==
  ASSUME NEW s \in Seq(Reads), NEW t \in Seq(Reads), NEW p,
         VisitsBelow(s, p) \/ WillVisit(t, p), VisitsBelow(t, p)
  PROVE  VisitsBelow(s \o t, p)
<1> DEFINE c == s \o t
<1>1. /\ Len(s) \in Nat /\ Len(t) \in Nat
      /\ DOMAIN s = 1 .. Len(s) /\ DOMAIN t = 1 .. Len(t)
      /\ DOMAIN c = 1 .. Len(s) + Len(t)
      /\ \A i \in 1 .. Len(s) : c[i] = s[i]
      /\ \A i \in 1 .. Len(t) : c[Len(s) + i] = t[i]
  BY ConcatAt
<1> HIDE DEF c
<1> SUFFICES ASSUME NEW i \in DOMAIN c, c[i][1] = "entries", KeyIsBelow(c[i][2], p), c[i][2] # p
             PROVE  \E j \in DOMAIN c : j > i /\ Visits(c[j], p)
  BY DEF VisitsBelow, c
<1>2. CASE i > Len(s)
  <2>1. i - Len(s) \in DOMAIN t /\ c[Len(s) + (i - Len(s))] = t[i - Len(s)] /\ Len(s) + (i - Len(s)) = i
    BY <1>1, <1>2
  <2>2. PICK j \in DOMAIN t : j > i - Len(s) /\ Visits(t[j], p)
    BY <2>1 DEF VisitsBelow
  <2>3. Len(s) + j \in DOMAIN c /\ Len(s) + j > i /\ c[Len(s) + j] = t[j]
    BY <1>1, <2>2
  <2> QED
    BY <2>2, <2>3
<1>3. CASE i <= Len(s)
  <2>1. i \in DOMAIN s /\ c[i] = s[i]
    BY <1>1, <1>3
  <2>2. CASE VisitsBelow(s, p)
    <3>1. PICK j \in DOMAIN s : j > i /\ Visits(s[j], p)
      BY <2>1, <2>2 DEF VisitsBelow
    <3>2. j \in DOMAIN c /\ c[j] = s[j]
      BY <1>1
    <3> QED
      BY <3>1, <3>2
  <2>3. CASE WillVisit(t, p)
    <3>1. PICK j \in DOMAIN t : Visits(t[j], p)
      BY <2>3 DEF WillVisit
    <3>2. Len(s) + j \in DOMAIN c /\ Len(s) + j > i /\ c[Len(s) + j] = t[j]
      BY <1>1, <1>3
    <3> QED
      BY <3>1, <3>2
  <2> QED
    BY <2>2, <2>3
<1> QED
  BY <1>1, <1>2, <1>3

LEMMA TailVisits ==
  ASSUME NEW s \in Seq(Reads), s # <<>>, NEW p
  PROVE  /\ WillVisit(s, p) => Visits(Head(s), p) \/ WillVisit(Tail(s), p)
         /\ VisitsBelow(s, p) =>
               /\ VisitsBelow(Tail(s), p)
               /\ Head(s)[1] = "entries" /\ KeyIsBelow(Head(s)[2], p) /\ Head(s)[2] # p
                    => WillVisit(Tail(s), p)
<1> DEFINE t == Tail(s)
<1>1. /\ Len(s) \in Nat \ {0} /\ DOMAIN s = 1 .. Len(s) /\ DOMAIN t = 1 .. Len(s) - 1
      /\ \A i \in 1 .. Len(s) - 1 : t[i] = s[i + 1]
      /\ Head(s) = s[1]
  BY LenProperties, EmptySeq, HeadTailProperties
<1> HIDE DEF t
<1>2. ASSUME NEW i \in DOMAIN s, i # 1 PROVE i - 1 \in DOMAIN t /\ t[i - 1] = s[i]
  <2>1. i - 1 \in 1 .. Len(s) - 1 /\ (i - 1) + 1 = i
    BY <1>1, <1>2
  <2> QED
    BY <1>1, <2>1
<1>3. 1 \in DOMAIN s
  BY <1>1
<1>4. WillVisit(s, p) => Visits(Head(s), p) \/ WillVisit(t, p)
  BY <1>1, <1>2 DEF WillVisit
<1>5. ASSUME VisitsBelow(s, p) PROVE VisitsBelow(t, p)
  <2> SUFFICES ASSUME NEW i \in DOMAIN t, t[i][1] = "entries", KeyIsBelow(t[i][2], p), t[i][2] # p
               PROVE  \E j \in DOMAIN t : j > i /\ Visits(t[j], p)
    BY DEF VisitsBelow
  <2>1. i + 1 \in DOMAIN s /\ t[i] = s[i + 1]
    BY <1>1
  <2>2. PICK j \in DOMAIN s : j > i + 1 /\ Visits(s[j], p)
    BY <1>5, <2>1 DEF VisitsBelow
  <2>3. j # 1 /\ j - 1 > i
    BY <1>1, <2>2
  <2> QED
    BY <1>2, <2>2, <2>3
<1>6. ASSUME VisitsBelow(s, p), Head(s)[1] = "entries", KeyIsBelow(Head(s)[2], p), Head(s)[2] # p
      PROVE  WillVisit(t, p)
  <2>1. PICK j \in DOMAIN s : j > 1 /\ Visits(s[j], p)
    BY <1>1, <1>3, <1>6 DEF VisitsBelow
  <2>2. j # 1
    BY <2>1
  <2> QED
    BY <1>2, <2>1, <2>2 DEF WillVisit
<1> QED
  BY <1>4, <1>5, <1>6 DEF t

LEMMA InnerVisits ==
  ASSUME NEW d \in Dir, NEW p
  PROVE  /\ VisitsBelow(Inner(d), p)
         /\ (\E s \in SubdirsOf(d) : KeyIsBelow(s, p)) => WillVisit(Inner(d), p)
<1> DEFINE S == SubdirsOf(d)
           subs == SetToSeq(S)
           n == Cardinality(S)
           r == Inner(d)
<1>1. IsFiniteSet(S)
  BY FS_Subset DEF SubdirsOf
<1>2. n \in Nat /\ \A x \in S : \E i \in 1 .. n : subs[i] = x
  BY <1>1, SeqOfSet
<1>3. /\ DOMAIN r = 1 .. 2 * n
      /\ \A i \in 1 .. 2 * n :
            r[i] = <<IF i % 2 = 1 THEN "entries" ELSE "below", subs[(i + 1) \div 2]>>
  BY DEF Inner
<1> HIDE DEF S, subs, n, r
<1>4. ASSUME NEW i \in DOMAIN r, r[i][1] = "entries"
      PROVE  /\ i + 1 \in DOMAIN r /\ r[i + 1][1] = "below" /\ r[i + 1][2] = r[i][2]
  <2>1. i \in 1 .. 2 * n /\ i % 2 = 1
    BY <1>3, <1>4
  <2>2. i + 1 \in 1 .. 2 * n /\ (i + 1) % 2 # 1 /\ ((i + 1) + 1) \div 2 = (i + 1) \div 2
    BY ONLY <1>2, <2>1, SMTT(60)
  <2>3. r[i] = <<"entries", subs[(i + 1) \div 2]>>
    BY ONLY <1>3, <2>1
  <2>4. i + 1 \in DOMAIN r /\ r[i + 1] = <<"below", subs[(i + 1) \div 2]>>
    BY ONLY <1>3, <2>2
  <2> QED
    BY ONLY <2>3, <2>4
<1>5. VisitsBelow(r, p)
  <2> SUFFICES ASSUME NEW i \in DOMAIN r, r[i][1] = "entries", KeyIsBelow(r[i][2], p), r[i][2] # p
               PROVE  \E j \in DOMAIN r : j > i /\ Visits(r[j], p)
    BY DEF VisitsBelow
  <2>1. i + 1 \in DOMAIN r /\ Visits(r[i + 1], p)
    BY <1>4 DEF Visits
  <2>2. i + 1 > i
    BY <1>2, <1>3
  <2> QED
    BY <2>1, <2>2
<1>6. ASSUME NEW s \in S, KeyIsBelow(s, p) PROVE \E i \in DOMAIN r : Visits(r[i], p)
  <2>1. PICK i \in 1 .. n : subs[i] = s
    BY <1>2
  <2>2. /\ 2 * i \in 1 .. 2 * n /\ (2 * i) % 2 = 0 /\ (2 * i + 1) \div 2 = i
        /\ 2 * i - 1 \in 1 .. 2 * n /\ (2 * i - 1) % 2 = 1 /\ ((2 * i - 1) + 1) \div 2 = i
    BY <1>2
  <2>3. r[2 * i - 1] = <<"entries", s>> /\ r[2 * i] = <<"below", s>>
    BY <1>3, <2>1, <2>2
  <2>4. CASE s = p
    <3>1. Visits(r[2 * i - 1], p)
      BY <2>3, <2>4 DEF Visits
    <3>2. 2 * i - 1 \in DOMAIN r
      BY <1>3, <2>2
    <3> QED
      BY <3>1, <3>2
  <2>5. CASE s # p
    <3>1. Visits(r[2 * i], p)
      BY <1>6, <2>3, <2>5 DEF Visits
    <3>2. 2 * i \in DOMAIN r
      BY <1>3, <2>2
    <3> QED
      BY <3>1, <3>2
  <2> QED
    BY <2>4, <2>5
<1> QED
  BY <1>5, <1>6 DEF r, S, WillVisit

-----------------------------------------------------------------------------
(* A key that is lost after a step was lost before it, unless the step is  *)
(* the end of the client: what leaves the cache counts as dropped, what    *)
(* changes without a message as missed.                                    *)
Accounted ==
    \A k \in Key : cache'[k] = NoEntry /\ k \notin dropped' => cache[k] = NoEntry /\ k \notin dropped

LEMMA LostEarlier ==
  ASSUME NEW k \in Key, Lost(k)', Accounted, k \notin missed,
         Effective(k, store') = Effective(k, store), Pending(k) => Pending(k)'
  PROVE  Lost(k)
<1>1. /\ cache'[k] = NoEntry /\ k \notin dropped' /\ ~Pending(k)'
      /\ Effective(k, store') # None
  BY DEF Lost
<1> QED
  BY <1>1 DEF Lost, Accounted

LEMMA DropAccounts ==
  ASSUME NEW ks, Drop(ks)
  PROVE  Accounted
BY DEF Drop, Accounted

LEMMA FillAccounts ==
  ASSUME NEW c, Fill(c), \A k \in Key : c[k] = NoEntry => cache[k] = NoEntry
  PROVE  Accounted
BY DEF Fill, Accounted

LEMMA SameAccounts ==
  ASSUME cache' = cache, dropped' = dropped
  PROVE  Accounted
BY DEF Accounted

LEMMA CacheAndQueueAccounts ==
  ASSUME TypeOK, NEW k \in Key, NEW v \in Value \cup {None}, NEW wanted, CacheAndQueue(k, v, wanted)
  PROVE  Accounted /\ cache'[k] # NoEntry
<1>1. Plain(v) \in Entry /\ cache \in Cache
  BY DEF Plain, Entry, TypeOK, Cache
<1>2. Fill(CachedAs(cache, k, Plain(v))) /\ cache' = CachedAs(cache, k, Plain(v))
  BY DEF CacheAndQueue, CachedAs, Fill
<1>3. \A x \in Key \ {k} : CachedAs(cache, k, Plain(v))[x] = cache[x]
  BY <1>1, CachedSays
<1>4. CachedAs(cache, k, Plain(v))[k] \in Entry
  <2>1. CASE cache[k] \notin {NoEntry, Plain(v)}
    <3>1. cache[k] \in Entry
      BY <1>1, <2>1 DEF Cache
    <3>2. [Plain(v) EXCEPT !.schema = cache[k].schema] \in Entry
      BY <1>1, <3>1 DEF Entry
    <3> QED
      BY <1>1, <2>1, <3>2 DEF CachedAs, Cached, Cache
  <2>2. CASE cache[k] \in {NoEntry, Plain(v)}
    BY <1>1, <2>2 DEF CachedAs, Cached, Cache
  <2> QED
    BY <2>1, <2>2
<1>5. CachedAs(cache, k, Plain(v))[k] # NoEntry
  BY <1>4, NoEntryAssumption
<1>6. \A x \in Key : CachedAs(cache, k, Plain(v))[x] = NoEntry => cache[x] = NoEntry
  BY <1>3, <1>5
<1> QED
  BY <1>2, <1>5, <1>6, FillAccounts

LEMMA RegistrationsLoseNone ==
  ASSUME NEW ds, NEW k \in Key, Lost(k)', Accounted, wire' = wire, store' = store,
         \A d : d \notin ds => (d \in notifyId' <=> d \in notifyId),
         missed' = missed \cup OnTheWay(ds)
  PROVE  Lost(k)
<1>1. k \notin missed /\ k \notin OnTheWay(ds)
  BY DEF Lost
<1>2. \A i \in DOMAIN wire : IsFor(wire[i], k, notifyId') <=> IsFor(wire[i], k, notifyId)
  BY <1>1, OthersSay
<1>3. Pending(k)' <=> Pending(k)
  BY <1>2 DEF Pending, IsFor
<1> QED
  BY <1>1, <1>3, LostEarlier

LEMMA OtherStepLosesNone ==
  ASSUME NEW k \in Key, Lost(k)', Accounted,
         wire' = wire, store' = store, notifyId' = notifyId, missed' = missed
  PROVE  Lost(k)
<1>1. missed' = missed \cup OnTheWay({})
  BY DEF OnTheWay
<1> QED
  BY <1>1, RegistrationsLoseNone

LEMMA ReadLosesNone ==
  ASSUME TypeOK, NEW ks, NEW k \in Key, Lost(k)',
         wire' = wire, store' = store, notifyId' = notifyId,
         NEW c, Fill(c), \A x \in Key : c[x] = (IF x \in ks THEN Answer(x) ELSE cache[x]),
         Refreshed(ks)
  PROVE  Lost(k) /\ k \notin ks
<1>1. \A x \in ks \cap Key : c[x] # NoEntry
  BY AnswerType, NoEntryAssumption
<1>2. Accounted
  <2>1. \A x \in Key : c[x] = NoEntry => cache[x] = NoEntry
    BY <1>1
  <2> QED
    BY <2>1, FillAccounts
<1>3. k \notin ks
  BY <1>1 DEF Lost, Fill
<1>4. k \notin missed /\ (Pending(k) <=> Pending(k)')
  BY <1>3 DEF Lost, Refreshed, Pending
<1> QED
  BY <1>2, <1>3, <1>4, LostEarlier

LEMMA FetchLosesNone ==
  ASSUME TypeOK, NEW k \in Key, Lost(k)', NEW f \in Key, Fetch(f), UNCHANGED gconfd, UNCHANGED dirs
  PROVE  Lost(k)
<1>1. wire' = wire /\ store' = store /\ notifyId' = notifyId /\ cache \in [Key -> Entry \cup {NoEntry}]
  BY DEF gconfd, dirs, TypeOK
<1>2. CASE KeyBeingMonitored(f)
  <2>1. PICK c : c = [cache EXCEPT ![f] = Answer(f)]
    OBVIOUS
  <2>2. Fill(c) /\ Refreshed({f})
    BY <1>2, <2>1 DEF Fetch
  <2>3. \A x \in Key : c[x] = (IF x \in {f} THEN Answer(x) ELSE cache[x])
    BY <1>1, <2>1
  <2> QED
    BY <1>1, <2>2, <2>3, ReadLosesNone
<1>3. CASE ~ KeyBeingMonitored(f)
  <2>1. cache' = cache /\ missed' = missed /\ dropped' = dropped
    BY <1>3 DEF Fetch
  <2> QED
    BY <1>1, <2>1, SameAccounts, OtherStepLosesNone
<1> QED
  BY <1>2, <1>3

LEMMA ChangeLosesNone ==
  ASSUME TypeOK, NEW k \in Key, Lost(k)', Accounted,
         NEW ks \in SUBSET Key, NEW st \in Store, Change(ks, st), notifyId' = notifyId,
         \A x \in Key \ ks : st[x] = store[x]
  PROVE  Lost(k)
<1> DEFINE m == Messages(ks, st)
<1>1. /\ wire' = wire \o m /\ store' = st
      /\ missed' = (missed \ ks) \cup {x \in ks : Told(x) = {}}
  BY DEF Change
<1>2. wire \in Seq(Message) /\ notifyId \subseteq Dir
  BY DEF TypeOK, Message
<1>3. /\ m \in Seq(Message)
      /\ \A x \in ks : Told(x) # {} => \E i \in 1 .. Len(m) : m[i].key = x /\ m[i].dir \in Told(x)
  BY <1>2, MessagesType DEF Store
<1> HIDE DEF m
<1>4. /\ Len(wire) \in Nat /\ Len(m) \in Nat
      /\ DOMAIN wire = 1 .. Len(wire) /\ DOMAIN wire' = 1 .. Len(wire) + Len(m)
      /\ \A i \in 1 .. Len(wire) : wire'[i] = wire[i]
      /\ \A i \in 1 .. Len(m) : wire'[Len(wire) + i] = m[i]
  BY <1>1, <1>2, <1>3, ConcatProperties, LenProperties
<1>5. k \notin missed' /\ ~Pending(k)'
  BY DEF Lost
<1>6. CASE k \in ks
  <2>1. PICK i \in 1 .. Len(m) : m[i].key = k /\ m[i].dir \in Told(k)
    BY <1>1, <1>3, <1>5, <1>6
  <2>2. m[i].dir \in notifyId
    BY <2>1 DEF Told, Registered
  <2>3. Len(wire) + i \in DOMAIN wire' /\ wire'[Len(wire) + i] = m[i]
    BY <1>4
  <2>4. Pending(k)'
    BY <2>1, <2>2, <2>3 DEF Pending
  <2> QED
    BY <1>5, <2>4
<1>7. CASE k \notin ks
  <2>1. k \notin missed
    BY <1>1, <1>5, <1>7
  <2>2. Effective(k, store') = Effective(k, store)
    BY <1>1, <1>7 DEF Effective
  <2>3. Pending(k) => Pending(k)'
    <3>1. ASSUME NEW i \in DOMAIN wire PROVE i \in DOMAIN wire' /\ wire'[i] = wire[i]
      BY <1>4
    <3> QED
      BY <3>1 DEF Pending
  <2> QED
    BY <2>1, <2>2, <2>3, LostEarlier
<1> QED
  BY <1>6, <1>7

LEMMA DispatchLosesNone ==
  ASSUME TypeOK, NEW k \in Key, Lost(k)', NotifyFromServer
  PROVE  Lost(k)
<1> DEFINE m == Head(wire)
<1>1. /\ wire # <<>> /\ wire' = Tail(wire) /\ store' = store /\ notifyId' = notifyId
      /\ missed' = missed
  BY DEF NotifyFromServer, dirs
<1>2. wire \in Seq(Message)
  BY DEF TypeOK, Message
<1>3. /\ Len(wire) \in Nat \ {0} /\ DOMAIN wire = 1 .. Len(wire)
      /\ m = wire[1] /\ m \in Message
  BY <1>1, <1>2, LenProperties, EmptySeq, HeadTailProperties
<1>4. /\ DOMAIN wire' = 1 .. Len(wire) - 1
      /\ \A i \in 1 .. Len(wire) - 1 : wire'[i] = wire[i + 1]
  BY <1>1, <1>2, HeadTailProperties, LenProperties
<1> HIDE DEF m
<1>5. Accounted /\ ~IsFor(m, k, notifyId)
  <2>1. CASE FindsConnection(m)
    <3>1. CacheAndQueue(m.key, m.val, TRUE) /\ m.key \in Key /\ m.val \in Value \cup {None}
      BY <1>3, <2>1 DEF NotifyFromServer, m, Message
    <3>2. Accounted /\ cache'[m.key] # NoEntry
      BY <3>1, CacheAndQueueAccounts
    <3> QED
      BY <3>2 DEF Lost, IsFor
  <2>2. CASE ~FindsConnection(m)
    BY <2>2, SameAccounts DEF NotifyFromServer, FindsConnection, IsFor, m
  <2> QED
    BY <2>1, <2>2
<1>6. Pending(k) => Pending(k)'
  <2> SUFFICES ASSUME NEW i \in DOMAIN wire, IsFor(wire[i], k, notifyId) PROVE Pending(k)'
    BY NoteIsPending
  <2>1. i # 1
    BY <1>3, <1>5
  <2>2. i - 1 \in 1 .. Len(wire) - 1 /\ (i - 1) + 1 = i
    BY <1>3, <2>1
  <2>3. i - 1 \in DOMAIN wire' /\ wire'[i - 1] = wire[i]
    BY <1>4, <2>2
  <2> QED
    BY <1>1, <2>3 DEF Pending, IsFor
<1>7. k \notin missed
  BY <1>1 DEF Lost
<1> QED
  BY <1>1, <1>5, <1>6, <1>7, LostEarlier

-----------------------------------------------------------------------------
(* Every step but the end of the client, by what it does to lost keys. *)
LEMMA CallLosesNone ==
  ASSUME TypeOK, NEW k \in Key, Lost(k)',
         \/ \E d \in Dir, type \in PreloadType : AddDir(d, type) \/ Preload(d, type)
         \/ \E d \in Dir : RemoveDir(d) \/ AllEntries(d)
         \/ \E x \in Key : Get(x) \/ NotifyOne(x)
         \/ ClearCache \/ Continue \/ NotifyAddFails
  PROVE  Lost(k)
<1>1. ASSUME NEW d \in Dir, RemoveDir(d) PROVE Lost(k)
  <2>1. wire' = wire /\ store' = store
    BY <1>1 DEF RemoveDir, gconfd
  <2>2. CASE addCount[d] = 1
    <3>1. Deregister({d}) /\ Drop({x \in Key : KeyIsBelow(d, x)})
      BY <1>1, <2>2 DEF RemoveDir
    <3>2. \A e : e \notin {d} => (e \in notifyId' <=> e \in notifyId)
      BY <3>1 DEF Deregister
    <3>3. missed' = missed \cup OnTheWay({d})
      BY <3>1 DEF Deregister
    <3> QED
      BY <2>1, <3>1, <3>2, <3>3, DropAccounts, RegistrationsLoseNone
  <2>3. CASE addCount[d] # 1
    <3>1. notifyId' = notifyId /\ missed' = missed /\ cache' = cache /\ dropped' = dropped
      BY <1>1, <2>3 DEF RemoveDir
    <3> QED
      BY <2>1, <3>1, SameAccounts, OtherStepLosesNone
  <2> QED
    BY <2>2, <2>3
<1>2. CASE RemoveOverlap
  <2>1. PICK e \in task.drop : Deregister({e})
    BY <1>2 DEF RemoveOverlap
  <2>2. wire' = wire /\ store' = store /\ cache' = cache /\ dropped' = dropped
    BY <1>2 DEF RemoveOverlap, gconfd, caches
  <2>3. \A d : d \notin {e} => (d \in notifyId' <=> d \in notifyId)
    BY <2>1 DEF Deregister
  <2>4. missed' = missed \cup OnTheWay({e})
    BY <2>1 DEF Deregister
  <2> QED
    BY <2>2, <2>3, <2>4, SameAccounts, RegistrationsLoseNone
<1>3. CASE NotifyAdd
  <2>1. PICK e : e = task.dir
    OBVIOUS
  <2>2. wire' = wire /\ store' = store /\ cache' = cache /\ dropped' = dropped
    BY <1>3 DEF NotifyAdd, gconfd, caches
  <2>3. \A d : d \notin {e} => (d \in notifyId' <=> d \in notifyId)
    BY <1>3, <2>1 DEF NotifyAdd
  <2>4. missed' = missed \cup OnTheWay({e})
    BY <1>3, <2>1 DEF NotifyAdd
  <2> QED
    BY <2>2, <2>3, <2>4, SameAccounts, RegistrationsLoseNone
<1>4. ASSUME NEW ks, Fill(CachedAll(ks)), Refreshed(ks), wire' = wire, store' = store,
             notifyId' = notifyId
      PROVE  Lost(k)
  <2>1. PICK c : c = CachedAll(ks) /\ \A x \in Key : c[x] = (IF x \in ks THEN Answer(x) ELSE cache[x])
    <3>1. \A x \in Key : CachedAll(ks)[x] = (IF x \in ks THEN Answer(x) ELSE cache[x])
      BY DEF CachedAll
    <3> QED
      BY <3>1
  <2>2. Fill(c)
    BY <1>4, <2>1
  <2> QED
    BY <1>4, <2>1, <2>2, ReadLosesNone
<1>5. ASSUME NEW d \in Dir, AllEntries(d) PROVE Lost(k)
  BY <1>4, <1>5 DEF AllEntries, gconfd, dirs
<1>6. CASE PreloadEntries
  <2>1. wire' = wire /\ store' = store /\ notifyId' = notifyId
    BY <1>6 DEF PreloadEntries, dirs
  <2>2. PICK d : d = PreloadNext[2]
    OBVIOUS
  <2>3. CASE Fill(CachedAll(EntriesOf(d))) /\ Refreshed(EntriesOf(d))
    BY <1>4, <2>1, <2>3
  <2>4. CASE UNCHANGED <<cache, dropped, missed>>
    BY <2>1, <2>4, SameAccounts, OtherStepLosesNone
  <2> QED
    BY <1>6, <2>2, <2>3, <2>4 DEF PreloadEntries
<1>7. ASSUME NEW x \in Key, Get(x) \/ NotifyOne(x) PROVE Lost(k)
  <2>1. UNCHANGED gconfd /\ UNCHANGED dirs
    BY <1>7 DEF Get, NotifyOne
  <2>2. CASE Fetch(x)
    BY <2>1, <2>2, FetchLosesNone
  <2>3. CASE UNCHANGED <<cache, dropped, missed>>
    BY <2>1, <2>3, SameAccounts, OtherStepLosesNone DEF gconfd, dirs
  <2> QED
    BY <1>7, <2>2, <2>3 DEF Get, NotifyOne
<1>8. CASE ClearCache
  <2>1. Drop(Key) /\ UNCHANGED <<gconfd, dirs, missed>>
    BY <1>8 DEF ClearCache
  <2> QED
    BY <2>1, DropAccounts, OtherStepLosesNone DEF gconfd, dirs
<1>9. CASE \/ \E d \in Dir, type \in PreloadType : AddDir(d, type) \/ Preload(d, type)
           \/ PreloadSubdirs \/ NotifyAddFails
  <2>1. /\ wire' = wire /\ store' = store /\ notifyId' = notifyId /\ missed' = missed
        /\ cache' = cache /\ dropped' = dropped
    BY <1>9 DEF AddDir, Preload, PreloadSubdirs, NotifyAddFails, gconfd, dirs, caches
  <2> QED
    BY <2>1, SameAccounts, OtherStepLosesNone
<1> QED
  BY <1>1, <1>2, <1>3, <1>5, <1>6, <1>7, <1>8, <1>9 DEF Continue

LEMMA WriteLosesNone ==
  ASSUME TypeOK, NEW k \in Key, Lost(k)',
         \/ \E x \in Key, v \in Value : Set(x, v)
         \/ \E x \in Key, v \in Value \cup {None} : OtherChange(x, v)
         \/ \E x \in Key : Unset(x)
         \/ \E p \in Key \cup Dir : RecursiveUnset(p) \/ RecursiveUnsetFails(p)
  PROVE  Lost(k)
<1>0. store \in Store
  BY DEF TypeOK, Store
<1>1. ASSUME NEW x \in Key, NEW v \in Value \cup {None}, Change({x}, [store EXCEPT ![x] = v]),
             notifyId' = notifyId, Accounted
      PROVE  Lost(k)
  <2>1. PICK ks \in SUBSET Key : ks = {x}
    OBVIOUS
  <2>2. PICK st \in Store : st = [store EXCEPT ![x] = v] /\ \A y \in Key \ ks : st[y] = store[y]
    <3>1. [store EXCEPT ![x] = v] \in Store
      BY <1>0 DEF Store
    <3>2. \A y \in Key \ ks : [store EXCEPT ![x] = v][y] = store[y]
      BY <1>0, <2>1 DEF Store
    <3> QED
      BY <3>1, <3>2
  <2>3. Change(ks, st)
    BY <1>1, <2>1, <2>2
  <2> QED
    BY <1>1, <2>2, <2>3, ChangeLosesNone
<1>2. ASSUME NEW x \in Key, NEW v \in Value, Set(x, v) PROVE Lost(k)
  <2>1. Accounted
    BY <1>2, CacheAndQueueAccounts DEF Set
  <2> QED
    BY <1>1, <1>2, <2>1 DEF Set, dirs
<1>3. ASSUME NEW x \in Key, NEW v \in Value \cup {None}, OtherChange(x, v) PROVE Lost(k)
  BY <1>1, <1>3, SameAccounts DEF OtherChange, dirs, caches
<1>4. ASSUME NEW x \in Key, Unset(x) PROVE Lost(k)
  <2>1. Accounted
    BY <1>4, DropAccounts DEF Unset
  <2> QED
    BY <1>1, <1>4, <2>1 DEF Unset, dirs
<1>5. ASSUME NEW ks \in SUBSET Key
      PROVE  /\ UnsetBelow(ks) \in Store
             /\ \A x \in Key \ ks : UnsetBelow(ks)[x] = store[x]
  BY <1>0 DEF UnsetBelow, Store
<1>6. ASSUME NEW p \in Key \cup Dir PROVE SetBelow(p) \in SUBSET Key
  BY DEF SetBelow
<1>7. ASSUME NEW p \in Key \cup Dir, RecursiveUnset(p) PROVE Lost(k)
  <2>1. PICK ks \in SUBSET Key : ks = SetBelow(p)
    BY <1>6
  <2>2. PICK st \in Store : st = UnsetBelow(ks) /\ \A x \in Key \ ks : st[x] = store[x]
    BY <1>5
  <2>3. Change(ks, st) /\ notifyId' = notifyId /\ Accounted
    BY <1>7, <2>1, <2>2, DropAccounts DEF RecursiveUnset, dirs
  <2> QED
    BY <2>2, <2>3, ChangeLosesNone
<1>8. ASSUME NEW p \in Key \cup Dir, RecursiveUnsetFails(p) PROVE Lost(k)
  <2>1. PICK ks \in SUBSET SetBelow(p) : store' = UnsetBelow(ks) /\ missed' = missed \cup ks
    BY <1>8 DEF RecursiveUnsetFails
  <2>2. /\ wire' = wire /\ notifyId' = notifyId
        /\ cache' = cache /\ dropped' = dropped
    BY <1>8 DEF RecursiveUnsetFails, dirs, caches
  <2>3. k \notin missed /\ k \notin ks
    BY <2>1 DEF Lost
  <2>4. store'[k] = store[k]
    BY <1>5, <1>6, <2>1, <2>3
  <2>5. Effective(k, store') = Effective(k, store)
    BY <2>4 DEF Effective
  <2>6. Pending(k)' <=> Pending(k)
    BY <2>2 DEF Pending
  <2> QED
    BY <2>2, <2>3, <2>5, <2>6, SameAccounts, LostEarlier
<1> QED
  BY <1>2, <1>3, <1>4, <1>7, <1>8

LEMMA NoneNewlyLost ==
  ASSUME TypeOK, NEW k \in Key, Lost(k)', [Next]_vars, ~Finalize
  PROVE  Lost(k)
<1>1. CASE UNCHANGED vars
  BY <1>1, SameAccounts, OtherStepLosesNone DEF vars, gconfd, dirs, caches
<1>2. CASE NotifyIdle \/ Restart \/ Reconnect
  <2>1. /\ wire' = wire /\ store' = store /\ notifyId' = notifyId /\ missed' = missed
        /\ cache' = cache /\ dropped' = dropped
    BY <1>2 DEF NotifyIdle, Restart, Reconnect, gconfd, dirs, caches
  <2> QED
    BY <2>1, SameAccounts, OtherStepLosesNone
<1> QED
  BY <1>1, <1>2, CallLosesNone, WriteLosesNone, DispatchLosesNone DEF Next

-----------------------------------------------------------------------------
(* What is listed of a key that stays lost. *)
LEMMA ListedStays ==
  ASSUME NEW k \in Key, NotListed(k),
         KeyDirectory(k) \notin cacheDirs', cacheRecursiveDirs' = cacheRecursiveDirs,
         \/ task' = task
         \/ ~Walking /\ (Walking' => VisitsBelow(task'.todo, KeyDirectory(k)))
  PROVE  NotListed(k)'
<1> DEFINE p == KeyDirectory(k)
<1>1. CASE task' = task
  BY <1>1 DEF NotListed, Walking
<1>2. CASE ~Walking /\ (Walking' => VisitsBelow(task'.todo, p))
  <2>1. \A d \in cacheRecursiveDirs : ~KeyIsBelow(d, p)
    BY <1>2 DEF NotListed
  <2> QED
    BY <1>2, <2>1 DEF NotListed
<1> QED
  BY <1>1, <1>2

LEMMA FreshWalk ==
  ASSUME NEW d \in Dir, NEW type \in PreloadType, NEW t, t = PreloadTask(d, type), NEW p
  PROVE  t.op = "preload" /\ t.deep => VisitsBelow(t.todo, p)
<1>1. CASE type = "none"
  BY <1>1, IdleIsNoCall DEF PreloadTask
<1>2. CASE type = "onelevel"
  BY <1>2 DEF PreloadTask
<1>3. CASE type = "recursive"
  <2>1. t = [op |-> "preload", todo |-> <<<<"subdirs", d>>>>, deep |-> TRUE]
    BY <1>3 DEF PreloadTask
  <2>2. t.todo = <<<<"subdirs", d>>>>
    BY <2>1
  <2> QED
    BY <2>2 DEF VisitsBelow
<1> QED
  BY <1>1, <1>2, <1>3 DEF PreloadType

(* A listing names the keys that have a value. *)
LEMMA HasValueIsKnown ==
  ASSUME NEW k \in Key, Lost(k)
  PROVE  Known(k) /\ k \in EntriesOf(KeyDirectory(k))
BY DEF Lost, Effective, Known, HasSchema, EntriesOf

LEMMA AddDirLists ==
  ASSUME TypeInv, NEW k \in Key, NotListed(k), NEW d \in Dir, NEW type \in PreloadType,
         AddDir(d, type) \/ Preload(d, type)
  PROVE  NotListed(k)'
<1>1. /\ ~Walking /\ cacheDirs' = cacheDirs /\ cacheRecursiveDirs' = cacheRecursiveDirs
  BY IdleIsNoCall DEF AddDir, Preload, Free, Walking, caches
<1>2. \/ task' = PreloadTask(d, type) \/ task' = Idle
      \/ task' = [op |-> "add", dir |-> d, drop |-> OverlapsIn(d, notifyId), preload |-> type]
  BY DEF AddDir, Preload
<1>3. CASE task' = PreloadTask(d, type)
  <2>1. Walking' => VisitsBelow(task'.todo, KeyDirectory(k))
    BY <1>3, FreshWalk DEF Walking
  <2> QED
    BY <1>1, <2>1, ListedStays DEF NotListed
<1>4. CASE task' # PreloadTask(d, type)
  <2>1. ~Walking'
    BY <1>2, <1>4, IdleIsNoCall DEF Walking
  <2> QED
    BY <1>1, <2>1, ListedStays DEF NotListed
<1> QED
  BY <1>3, <1>4

LEMMA RegistrationsList ==
  ASSUME TypeInv, NEW k \in Key, NotListed(k),
         \/ \E d \in Dir : RemoveDir(d)
         \/ RemoveOverlap \/ NotifyAdd \/ NotifyAddFails
  PROVE  NotListed(k)'
<1>1. task \in Task /\ notifyId \subseteq Dir
  BY DEF TypeInv, TypeOK
<1>2. /\ ~Walking /\ cacheDirs' \subseteq cacheDirs /\ cacheRecursiveDirs' = cacheRecursiveDirs
  <2>1. ASSUME NEW d \in Dir, RemoveDir(d)
        PROVE  ~Walking /\ cacheDirs' \subseteq cacheDirs /\ cacheRecursiveDirs' = cacheRecursiveDirs
    BY <2>1, IdleIsNoCall DEF RemoveDir, Free, Walking
  <2>2. CASE RemoveOverlap \/ NotifyAdd \/ NotifyAddFails
    BY <2>2 DEF RemoveOverlap, NotifyAdd, NotifyAddFails, caches, Walking
  <2> QED
    BY <2>1, <2>2
<1>3. Walking' => VisitsBelow(task'.todo, KeyDirectory(k))
  <2>1. ASSUME NEW d \in Dir, RemoveDir(d)
        PROVE  Walking' => VisitsBelow(task'.todo, KeyDirectory(k))
    <3>1. CASE addCount[d] = 1
      <4>1. task' = Idle \/ \E e, ids, rest : task' = [op |-> "renotify", dir |-> e, drop |-> ids, rest |-> rest]
        BY <2>1, <3>1 DEF RemoveDir, RenotifyTasks
      <4> QED
        BY <4>1, IdleIsNoCall DEF Walking
    <3>2. CASE addCount[d] # 1
      BY <1>2, <2>1, <3>2 DEF RemoveDir, Walking
    <3> QED
      BY <3>1, <3>2
  <2>2. CASE RemoveOverlap
    <3>1. ~Walking'
      <4>1. task.op \in {"add", "renotify"} /\ \E e : task' = [task EXCEPT !.drop = @ \ {e}]
        BY <2>2 DEF RemoveOverlap
      <4>2. CASE task.op = "add"
        <5>1. task \in [op : {"add"}, dir : Dir, drop : SUBSET Dir, preload : PreloadType]
          BY <1>1, <4>2, TaskType
        <5> QED
          BY <4>1, <5>1 DEF Walking
      <4>3. CASE task.op = "renotify"
        <5>1. task \in [op : {"renotify"}, dir : Dir, drop : SUBSET Dir, rest : SUBSET Dir]
          BY <1>1, <4>3, TaskType
        <5> QED
          BY <4>1, <5>1 DEF Walking
      <4> QED
        BY <4>1, <4>2, <4>3
    <3> QED
      BY <3>1
  <2>3. CASE NotifyAdd
    <3>1. CASE task.op = "add"
      <4>1. task' = PreloadTask(task.dir, task.preload)
        BY <2>3, <3>1 DEF NotifyAdd
      <4>2. task.dir \in Dir /\ task.preload \in PreloadType
        BY <1>1, <3>1, TaskType
      <4>3. PICK e \in Dir, type \in PreloadType : task' = PreloadTask(e, type)
        BY <4>1, <4>2
      <4> QED
        BY <4>3, FreshWalk DEF Walking
    <3>2. CASE task.op = "renotify"
      <4>1. task' = Idle \/ \E e, ids, rest : task' = [op |-> "renotify", dir |-> e, drop |-> ids, rest |-> rest]
        BY <2>3, <3>2 DEF NotifyAdd, RenotifyTasks
      <4> QED
        BY <4>1, IdleIsNoCall DEF Walking
    <3> QED
      BY <2>3, <3>1, <3>2 DEF NotifyAdd
  <2>4. CASE NotifyAddFails
    BY <2>4, IdleIsNoCall DEF NotifyAddFails, Walking
  <2> QED
    BY <2>1, <2>2, <2>3, <2>4
<1>4. KeyDirectory(k) \notin cacheDirs'
  BY <1>2 DEF NotListed
<1> QED
  BY <1>2, <1>3, <1>4, ListedStays

LEMMA SearchLists ==
  ASSUME TypeInv, NEW k \in Key, Lost(k), NotListed(k), PreloadSubdirs
  PROVE  NotListed(k)'
<1> DEFINE p == KeyDirectory(k)
           todo == task.todo
           tail == Tail(task.todo)
<1>1. /\ task \in [op : {"preload"}, todo : Seq(Reads) \ {<<>>}, deep : BOOLEAN]
      /\ Head(todo)[1] # "entries"
  BY TaskType DEF PreloadSubdirs, PreloadNext, TypeInv, TypeOK
<1>2. todo \in Seq(Reads) /\ todo # <<>> /\ Head(todo) \in Reads /\ tail \in Seq(Reads)
  BY <1>1, HeadTailProperties
<1>3. PICK d \in Dir : d = Head(todo)[2]
  BY <1>2 DEF Reads
<1>4. PICK own : own = IF Head(todo)[1] = "subdirs" THEN <<<<"entries", d>>>> ELSE <<>>
  OBVIOUS
<1>5. own \in Seq(Reads) /\ own \in {<<>>, <<<<"entries", d>>>>}
  <2>1. <<"entries", d>> \in Reads
    BY DEF Reads
  <2> QED
    BY <1>4, <2>1, OneRead, EmptySeq
<1>6. PICK rest \in Seq(Reads) : rest = Inner(d) \o tail
  BY <1>2, InnerType, ConcatAt
<1>7. Proceed(own \o rest) /\ own \o rest \in Seq(Reads)
  <2>1. Proceed(own \o Inner(d) \o tail)
    BY <1>3, <1>4 DEF PreloadSubdirs, PreloadNext
  <2>2. (own \o Inner(d)) \o tail = own \o (Inner(d) \o tail)
    <3>1. own \in Seq(Reads) /\ Inner(d) \in Seq(Reads) /\ tail \in Seq(Reads)
      BY <1>2, <1>5, InnerType
    <3>2. PICK first, inner, last \in Seq(Reads) : first = own /\ inner = Inner(d) /\ last = tail
      BY <3>1
    <3>3. (first \o inner) \o last = first \o (inner \o last)
      BY ONLY first \in Seq(Reads), inner \in Seq(Reads), last \in Seq(Reads), ConcatAssociative
    <3> QED
      BY <3>2, <3>3
  <2> QED
    BY <1>5, <1>6, <2>1, <2>2, ConcatAt
<1>8. cacheDirs' = cacheDirs /\ cacheRecursiveDirs' = cacheRecursiveDirs
  BY DEF PreloadSubdirs, caches
<1>9. CASE ~task.deep
  <2>1. ~Walking'
    BY <1>1, <1>7, <1>9, IdleIsNoCall DEF Proceed, Walking
  <2> QED
    BY <1>8, <1>9, <2>1, ListedStays DEF Walking, NotListed
<1>10. CASE task.deep
  <2>1. Walking /\ VisitsBelow(todo, p)
    BY <1>1, <1>10 DEF NotListed, Walking
  <2> HIDE DEF p, todo, tail
  <2>2. VisitsBelow(tail, p)
    BY <1>2, <2>1, TailVisits DEF tail, todo
  <2>3. VisitsBelow(Inner(d), p) /\ Inner(d) \in Seq(Reads)
    BY InnerVisits, InnerType
  <2>4. VisitsBelow(rest, p)
    BY <1>2, <1>6, <2>2, <2>3, ConcatVisitsBelow
  <2>5. KeyIsBelow(d, p) /\ d # p => WillVisit(rest, p)
    <3>1. ASSUME KeyIsBelow(d, p), d # p PROVE \E s \in SubdirsOf(d) : KeyIsBelow(s, p)
      BY <3>1, HasValueIsKnown, FoundBelow DEF p
    <3>2. KeyIsBelow(d, p) /\ d # p => WillVisit(Inner(d), p)
      BY <3>1, InnerVisits
    <3> QED
      BY <1>2, <1>6, <2>3, <3>2, ConcatVisits
  <2>6. VisitsBelow(own \o rest, p)
    <3>1. VisitsBelow(own, p) \/ WillVisit(rest, p)
      BY <1>5, <2>5 DEF VisitsBelow
    <3> QED
      BY <1>5, <2>4, <3>1, ConcatVisitsBelow
  <2>7. WillVisit(todo, p) => WillVisit(own \o rest, p)
    <3>1. CASE WillVisit(tail, p)
      <4>1. WillVisit(rest, p)
        BY <1>2, <1>6, <2>3, <3>1, ConcatVisits
      <4> QED
        BY <1>5, <4>1, ConcatVisits
    <3>2. CASE Visits(Head(todo), p)
      <4>1. KeyIsBelow(d, p) /\ (Head(todo)[1] = "below" => d # p)
        BY <1>1, <1>2, <1>3, <3>2 DEF Visits, Reads
      <4>2. CASE d # p
        <5>1. WillVisit(rest, p)
          BY <2>5, <4>1, <4>2
        <5> QED
          BY <1>5, <5>1, ConcatVisits
      <4>3. CASE d = p
        <5>1. own = <<<<"entries", d>>>>
          BY <1>1, <1>2, <1>4, <4>1, <4>3 DEF Reads
        <5>2. WillVisit(own, p)
          <6>1. 1 \in DOMAIN own /\ own[1] = <<"entries", d>>
            BY <5>1
          <6>2. Visits(own[1], p)
            BY <4>3, <6>1 DEF Visits
          <6> QED
            BY <6>1, <6>2 DEF WillVisit
        <5> QED
          BY <1>5, <5>2, ConcatVisits
      <4> QED
        BY <4>2, <4>3
    <3>3. WillVisit(todo, p) => Visits(Head(todo), p) \/ WillVisit(tail, p)
      BY <1>2, TailVisits DEF tail, todo
    <3> QED
      BY <3>1, <3>2, <3>3
  <2>8. CASE own \o rest = <<>>
    <3>1. ~Walking'
      BY <1>7, <2>8, IdleIsNoCall DEF Proceed, Walking
    <3>2. ~WillVisit(own \o rest, p)
      BY <2>8 DEF WillVisit
    <3>3. \A e \in cacheRecursiveDirs : ~KeyIsBelow(e, p)
      BY <2>7, <3>2 DEF NotListed, p, todo
    <3> QED
      BY <1>8, <3>1, <3>3 DEF NotListed, p
  <2>9. CASE own \o rest # <<>>
    <3>1. task' = [task EXCEPT !.todo = own \o rest]
      BY <1>7, <2>9 DEF Proceed
    <3>2. task'.op = "preload" /\ task'.deep = task.deep /\ task'.todo = own \o rest
      BY <1>1, <3>1
    <3>3. Walking' /\ VisitsBelow(task'.todo, p)
      BY <1>10, <2>6, <3>2 DEF Walking
    <3>4. \A e \in cacheRecursiveDirs : KeyIsBelow(e, p) => WillVisit(task'.todo, p)
      BY <2>7, <3>2 DEF NotListed, p, todo
    <3> QED
      BY <1>8, <3>3, <3>4 DEF NotListed, p
  <2> QED
    BY <2>8, <2>9
<1> QED
  BY <1>9, <1>10

LEMMA EntriesList ==
  ASSUME TypeInv, NEW k \in Key, Lost(k), Lost(k)', NotListed(k), PreloadEntries, mishaps' = mishaps
  PROVE  NotListed(k)'
<1> DEFINE p == KeyDirectory(k)
           todo == task.todo
           tail == Tail(task.todo)
<1>1. /\ task \in [op : {"preload"}, todo : Seq(Reads) \ {<<>>}, deep : BOOLEAN]
      /\ Head(todo)[1] = "entries"
  BY TaskType DEF PreloadEntries, PreloadNext, TypeInv, TypeOK
<1>2. todo \in Seq(Reads) /\ todo # <<>> /\ Head(todo) \in Reads /\ tail \in Seq(Reads)
  BY <1>1, HeadTailProperties
<1>3. PICK d \in Dir : d = Head(todo)[2]
  BY <1>2 DEF Reads
<1>4. Fill(CachedAll(EntriesOf(d))) /\ Refreshed(EntriesOf(d))
  <2>1. mishaps \in Nat
    BY DEF TypeInv, TypeOK
  <2>2. ~GoesWrong
    BY <2>1 DEF GoesWrong
  <2> QED
    BY <1>3, <2>2 DEF PreloadEntries, PreloadNext
<1>5. d # p
  <2> SUFFICES ASSUME d = p PROVE FALSE
    OBVIOUS
  <2>1. k \in EntriesOf(d)
    BY HasValueIsKnown
  <2>2. cache'[k] = Answer(k)
    BY <1>4, <2>1 DEF Fill, CachedAll
  <2>3. cache'[k] # NoEntry
    BY <2>2, AnswerType, NoEntryAssumption DEF TypeInv
  <2> QED
    BY <2>3 DEF Lost
<1>6. /\ cacheDirs' = cacheDirs \cup {d}
      /\ cacheRecursiveDirs' = cacheRecursiveDirs \cup (IF task.deep THEN {d} ELSE {})
  BY <1>3 DEF PreloadEntries, PreloadNext
<1>7. p \notin cacheDirs' /\ p \notin cacheRecursiveDirs'
  BY <1>5, <1>6 DEF NotListed
<1>8. Proceed(tail)
  BY DEF PreloadEntries
<1>9. CASE ~task.deep
  <2>1. ~Walking'
    BY <1>1, <1>8, <1>9, IdleIsNoCall DEF Proceed, Walking
  <2>2. cacheRecursiveDirs' = cacheRecursiveDirs
    BY <1>6, <1>9
  <2> QED
    BY <1>7, <1>9, <2>1, <2>2, ListedStays DEF Walking
<1>10. CASE task.deep
  <2>1. VisitsBelow(todo, p)
    BY <1>1, <1>10 DEF NotListed, Walking
  <2>2. ~Visits(Head(todo), p)
    BY <1>1, <1>3, <1>5 DEF Visits
  <2>3. /\ VisitsBelow(tail, p)
        /\ KeyIsBelow(d, p) => WillVisit(tail, p)
    BY <1>1, <1>2, <1>3, <1>5, <2>1, TailVisits
  <2>4. WillVisit(todo, p) => WillVisit(tail, p)
    BY <1>2, <2>2, TailVisits
  <2>5. \A e \in cacheRecursiveDirs' : KeyIsBelow(e, p) => WillVisit(tail, p)
    BY <1>6, <2>3, <2>4 DEF NotListed
  <2> HIDE DEF tail, p
  <2>6. CASE tail = <<>>
    <3>1. ~Walking'
      BY <1>8, <2>6, IdleIsNoCall DEF Proceed, Walking
    <3>2. ~WillVisit(tail, p)
      BY <2>6 DEF WillVisit
    <3> QED
      BY <1>7, <2>5, <3>1, <3>2 DEF NotListed, p
  <2>7. CASE tail # <<>>
    <3>1. task' = [task EXCEPT !.todo = tail]
      BY <1>8, <2>7 DEF Proceed
    <3>2. task'.op = "preload" /\ task'.deep = task.deep /\ task'.todo = tail
      BY <1>1, <3>1
    <3>3. Walking' /\ VisitsBelow(task'.todo, p)
      BY <1>10, <2>3, <3>2 DEF Walking
    <3> QED
      BY <1>7, <2>5, <3>2, <3>3 DEF NotListed, p
  <2> QED
    BY <2>6, <2>7
<1> QED
  BY <1>9, <1>10

LEMMA OthersList ==
  ASSUME TypeInv, NEW k \in Key, Lost(k), Lost(k)', NotListed(k),
         \/ \E d \in Dir : AllEntries(d)
         \/ \E x \in Key : Get(x) \/ NotifyOne(x) \/ Unset(x)
         \/ \E x \in Key, v \in Value : Set(x, v)
         \/ \E x \in Key, v \in Value \cup {None} : OtherChange(x, v)
         \/ \E p \in Key \cup Dir : RecursiveUnset(p) \/ RecursiveUnsetFails(p)
         \/ ClearCache \/ NotifyFromServer \/ NotifyIdle \/ Restart \/ Reconnect
         \/ UNCHANGED vars
  PROVE  NotListed(k)'
<1>1. ASSUME NEW d \in Dir, AllEntries(d)
      PROVE  /\ KeyDirectory(k) \notin cacheDirs'
             /\ cacheRecursiveDirs' = cacheRecursiveDirs /\ task' = task
  <2>1. cacheDirs' = cacheDirs \cup {d} /\ cacheRecursiveDirs' = cacheRecursiveDirs /\ task' = task
    BY <1>1 DEF AllEntries
  <2>2. d # KeyDirectory(k)
    <3> SUFFICES ASSUME d = KeyDirectory(k) PROVE FALSE
      OBVIOUS
    <3>1. k \in EntriesOf(d)
      BY HasValueIsKnown
    <3>2. cache'[k] = Answer(k)
      BY <1>1, <3>1 DEF AllEntries, Fill, CachedAll
    <3>3. cache'[k] # NoEntry
      BY <3>2, AnswerType, NoEntryAssumption DEF TypeInv
    <3> QED
      BY <3>3 DEF Lost
  <2> QED
    BY <2>1, <2>2 DEF NotListed
<1>2. CASE \/ \E x \in Key : Get(x) \/ NotifyOne(x) \/ Unset(x)
           \/ \E x \in Key, v \in Value : Set(x, v)
           \/ \E x \in Key, v \in Value \cup {None} : OtherChange(x, v)
           \/ \E p \in Key \cup Dir : RecursiveUnset(p) \/ RecursiveUnsetFails(p)
           \/ ClearCache \/ NotifyFromServer \/ NotifyIdle \/ Restart \/ Reconnect
           \/ UNCHANGED vars
  <2>1. cacheDirs' \subseteq cacheDirs /\ cacheRecursiveDirs' = cacheRecursiveDirs /\ task' = task
    BY <1>2 DEF Get, NotifyOne, Unset, Set, OtherChange, RecursiveUnset, RecursiveUnsetFails,
       ClearCache, NotifyFromServer, NotifyIdle, Restart, Reconnect, caches, vars
  <2>2. KeyDirectory(k) \notin cacheDirs'
    BY <2>1 DEF NotListed
  <2> QED
    BY <2>1, <2>2, ListedStays
<1> QED
  BY <1>1, <1>2, ListedStays

(* Between calls, unless one failed, the cache denies a key that is set only *)
(* when the client itself has dropped the key from the cache: the listings   *)
(* that fill the cache, taken one by one while others change values, miss no *)
(* key that messages do not make up for.                                     *)
THEOREM Absence == Spec => []AbsenceIsEarned
<1>1. Init => AbsenceInv
  <2> SUFFICES ASSUME Init, NEW k \in Key PROVE NotListed(k)
    BY DEF AbsenceInv
  <2> QED
    BY IdleIsNoCall DEF Init, NotListed, Walking
<1>2. TypeInv /\ AbsenceInv /\ [Next]_vars => AbsenceInv'
  <2> SUFFICES ASSUME TypeInv, AbsenceInv, [Next]_vars, mishaps' = 0, NEW k \in Key, Lost(k)'
               PROVE  NotListed(k)'
    BY DEF AbsenceInv
  <2>1. CASE Finalize
    BY <2>1, IdleIsNoCall DEF Finalize, Free, NotListed, Walking
  <2>2. CASE ~Finalize
    <3>1. Lost(k)
      BY <2>2, NoneNewlyLost DEF TypeInv
    <3>2. mishaps' = mishaps
      <4>1. mishaps \in Nat
        BY DEF TypeInv, TypeOK
      <4>2. mishaps' = mishaps \/ mishaps' = mishaps + 1
        BY DEF Next, vars, gconfd, GoesWrong, AddDir, Preload, RemoveDir, AllEntries, Get, Unset,
           NotifyOne, Set, OtherChange, RecursiveUnset, RecursiveUnsetFails, Finalize, ClearCache,
           Continue, RemoveOverlap, NotifyAdd, PreloadSubdirs, PreloadEntries, NotifyAddFails,
           NotifyFromServer, NotifyIdle, Restart, Reconnect
      <4> QED
        BY <4>1, <4>2
    <3>3. NotListed(k)
      BY <3>1, <3>2 DEF AbsenceInv
    <3> QED
      BY <2>2, <3>1, <3>2, <3>3, AddDirLists, RegistrationsList, SearchLists, EntriesList, OthersList
         DEF Next, Continue
  <2> QED
    BY <2>1, <2>2
<1>3. AbsenceInv => AbsenceIsEarned
  <2> SUFFICES ASSUME AbsenceInv, Free, mishaps = 0, NEW k \in Key, WronglyAbsent(k), k \notin dropped
               PROVE  FALSE
    BY DEF AbsenceIsEarned
  <2>1. KnownAbsent(k) /\ Lost(k)
    BY DEF WronglyAbsent, KnownAbsent, Lost, Answer
  <2>2. NotListed(k) /\ ~Walking
    BY <2>1, IdleIsNoCall DEF AbsenceInv, Free, Walking
  <2>3. \A d \in cacheRecursiveDirs : ~KeyIsBelow(d, KeyDirectory(k))
    BY <2>2 DEF NotListed
  <2>4. Chopped(k) \cap cacheDirs = {}
    BY <2>2 DEF NotListed, Chopped
  <2> QED
    BY <2>1, <2>3, <2>4 DEF KnownAbsent
<1> QED
  BY <1>1, <1>2, <1>3, InitType, NextType, PTL DEF Spec

=============================================================================
