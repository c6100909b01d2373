-------------------------- MODULE SavedStateProofs --------------------------
(***************************************************************************)
(* Proofs about the saved state, for any number of programs, connections,   *)
(* ids, kills of gconfd and failing system calls.                          *)
(***************************************************************************)
EXTENDS SavedState, WellFoundedInduction, TLAPS

USE SavedStateAssumption

-----------------------------------------------------------------------------
(* Every set of natural numbers has a least one, so a new id is one that is  *)
(* not in use.                                                             *)
LEMMA NaturalOrder ==
  \E R : /\ IsWellFoundedOn(R, Nat)
         /\ \A x \in Nat, y \in Nat : x < y => <<x, y>> \in R
<1>1. \A x \in Nat, y \in Nat : x < y => <<x, y>> \in OpToRel(<, Nat)
  BY DEF OpToRel
<1> QED
  BY <1>1, NatLessThanWellFounded

LEMMA LeastNatural ==
  ASSUME NEW T \in SUBSET Nat, T # {}
  PROVE  \E x \in T : \A y \in T : x <= y
<1>1. PICK R : /\ IsWellFoundedOn(R, Nat)
               /\ \A x \in Nat, y \in Nat : x < y => <<x, y>> \in R
  BY NaturalOrder
<1>2. PICK x \in T : \A y \in T : ~(<<y, x>> \in R)
  <2>1. T \subseteq Nat /\ T # {} /\ IsWellFoundedOn(R, Nat)
    BY <1>1
  <2> QED
    BY ONLY <2>1, WFMin, Zenon
<1>3. \A y \in T : y \in Nat /\ ~(y < x)
  BY <1>1, <1>2
<1>4. \A y \in T : x <= y
  BY <1>3
<1> QED
  BY <1>4

LEMMA NewIdIsFree ==
  ASSUME next \in Ids, Free # {}
  PROVE  NewId \in Ids /\ \A l \in listeners : l[2] # NewId
<1>1. Free \in SUBSET Nat /\ Free \subseteq Ids
  BY DEF Free, Ids
<1>2. PICK least : least = CHOOSE k \in Free : \A j \in Free : k <= j
  OBVIOUS
<1>3. least \in Free
  BY <1>1, <1>2, LeastNatural
<1>4. NewId = (next + least) % Wrap /\ next + least \in Nat
  <2>1. NewId = (next + least) % Wrap
    BY <1>2, Zenon DEF NewId
  <2> QED
    BY <1>1, <1>3, <2>1 DEF Ids
<1>5. NewId \in Ids
  BY <1>4 DEF Ids
<1> QED
  BY <1>3, <1>4, <1>5 DEF Free

-----------------------------------------------------------------------------
(* What the variables hold.                                                 *)
Pairs == Clients \X Ids
HandOf == [entry : Pairs, id : Ids \cup {NoId}]
FileOf(f) == f = NoFile \/ f \subseteq Entries

GconfdType ==
  /\ pc \in {"down", "restoring", "up", "saving", "written", "aside"}
  /\ listeners \subseteq Pairs /\ table \subseteq Clients
  /\ next \in Ids
  /\ todo \subseteq Entries
  /\ hand = Nothing \/ hand \in HandOf
  /\ pc \notin {"down", "restoring"} => hand = Nothing

FilesType ==
  /\ FileOf(log) /\ FileOf(tmp) /\ FileOf(orig)
  /\ pc \in {"written", "aside"} => tmp # NoFile /\ tmp \cap Pairs \subseteq listeners
  /\ pc = "aside" => log = NoFile /\ orig # NoFile

ProgramsType ==
  /\ cnxns \in [Clients -> [Names -> Ids \cup {NoId}]]
  /\ alive \subseteq Clients /\ attached \subseteq alive
  /\ \A c \in Clients \ alive, n \in Names : cnxns[c][n] = NoId

ShapeInv == GconfdType /\ FilesType /\ ProgramsType
Counted == failures \in Nat

LEMMA PairsAreNot1 ==
  ASSUME NEW c
  PROVE  <<c>> \notin Pairs
BY DEF Pairs

LEMMA EntriesAre ==
  /\ Pairs \subseteq Entries
  /\ \A c \in Clients : <<c>> \in Entries
  /\ \A e \in Entries : e \in Pairs \/ \E c \in Clients : e = <<c>>
  /\ Nothing \notin HandOf
BY DEF Entries, Pairs, Nothing, HandOf


LEMMA InitShape ==
  Init => ShapeInv
<1> SUFFICES ASSUME Init PROVE ShapeInv
  OBVIOUS
<1>1. GconfdType
  BY DEF Init, GconfdType, Ids
<1>2. FilesType
  BY DEF Init, FilesType, FileOf
<1>3. ProgramsType
  BY DEF Init, ProgramsType
<1> QED
  BY <1>1, <1>2, <1>3 DEF ShapeInv

LEMMA LoggedType ==
  ASSUME FilesType
  PROVE  Logged \subseteq Entries
BY DEF FilesType, FileOf, Logged

LEMMA SetIsFile ==
  ASSUME NEW S, S \subseteq Entries
  PROVE  FileOf(S) /\ S # NoFile
BY DEF FileOf

LEMMA AppendType ==
  ASSUME FilesType, NEW added \in SUBSET Entries, NEW removed, NEW missed,
         Append(added, removed, missed)
  PROVE  FileOf(log)'
<1>1. (Logged \ removed) \cup added \subseteq Entries
  BY LoggedType
<1>2. log' = (Logged \ removed) \cup added \/ log' = log
  BY DEF Append
<1> QED
  BY <1>1, <1>2, SetIsFile DEF FilesType, FileOf

(* A step that leaves the files alone, in a gconfd that is not saving.      *)
LEMMA FilesKept ==
  ASSUME FilesType, FileOf(log)', UNCHANGED <<tmp, orig>>, pc' \notin {"written", "aside"}
  PROVE  FilesType'
BY DEF FilesType, FileOf

LEMMA StartShape ==
  ASSUME ShapeInv, Start
  PROVE  ShapeInv'
<1>1. GconfdType'
  BY LoggedType DEF ShapeInv, Start, GconfdType, Nothing
<1>2. FilesType'
  BY FilesKept DEF ShapeInv, Start, FilesType, FileOf, files
<1>3. ProgramsType'
  BY DEF ShapeInv, Start, ProgramsType
<1> QED
  BY <1>1, <1>2, <1>3 DEF ShapeInv

LEMMA RestoreClientShape ==
  ASSUME ShapeInv, NEW c \in Clients, RestoreClient(c)
  PROVE  ShapeInv'
<1>1. {<<c>>} \in SUBSET Entries
  BY EntriesAre
<1>2. FileOf(log)'
  BY <1>1, AppendType DEF ShapeInv, RestoreClient, FilesType, FileOf
<1>3. GconfdType'
  BY DEF ShapeInv, RestoreClient, GconfdType
<1>4. FilesType'
  BY <1>2, FilesKept DEF ShapeInv, RestoreClient
<1>5. ProgramsType'
  BY DEF ShapeInv, RestoreClient, ProgramsType, programs
<1> QED
  BY <1>3, <1>4, <1>5 DEF ShapeInv

LEMMA CancelEntryShape ==
  ASSUME ShapeInv, CancelEntry
  PROVE  ShapeInv'
<1>1. PICK e \in todo : /\ hand' = [entry |-> e, id |-> NoId] /\ todo' = todo \ {e}
                        /\ Append({}, {e}, {})
  BY DEF CancelEntry
<1>2. e \in Pairs
  BY EntriesAre DEF CancelEntry, ShapeInv, GconfdType
<1>3. hand' \in HandOf
  BY <1>1, <1>2 DEF HandOf
<1>4. FileOf(log)'
  BY <1>1, AppendType DEF ShapeInv
<1>5. GconfdType'
  BY <1>1, <1>3 DEF ShapeInv, CancelEntry, GconfdType
<1>6. FilesType'
  BY <1>4, FilesKept DEF ShapeInv, CancelEntry
<1>7. ProgramsType'
  BY DEF ShapeInv, CancelEntry, ProgramsType, programs
<1> QED
  BY <1>5, <1>6, <1>7 DEF ShapeInv

NoName == CHOOSE n : n \notin Names
AnyName == Names \cup {NoName}

(* An entry is restored under a new id: the program, if it runs, moves the   *)
(* connection n it finds under the old id to the new one.                   *)
Renews(c, old, id, n) ==
  /\ listeners' = listeners \cup {<<c, id>>}
  /\ c \in alive => hand' = [hand EXCEPT !.id = id]
  /\ c \notin alive => hand' = Nothing /\ cnxns' = cnxns
  /\ n \in Names /\ c \in alive => cnxns[c][n] = old /\ cnxns' = [cnxns EXCEPT ![c][n] = id]
  /\ n \notin Names => cnxns' = cnxns
  /\ n \notin Names /\ c \in alive => \A k \in Names : cnxns[c][k] # old
  /\ id # old /\ (\E k \in Names : cnxns[c][k] = id) =>
       \A k \in Names : cnxns[c][k] # NoId => <<c, k>> \in excused'
  /\ excused \subseteq excused'

LEMMA InConnections ==
  ASSUME NEW c \in Clients, NEW n \in Names
  PROVE  <<c, n>> \in Connections <=> cnxns[c][n] # NoId
BY DEF Connections, Made

LEMMA UpdateClientIs ==
  ASSUME ShapeInv, UpdateClient
  PROVE  \E c \in Clients, old \in Ids, id \in Ids, n \in AnyName :
           /\ hand.entry = <<c, old>> /\ Renews(c, old, id, n)
           /\ \A l \in listeners : l[2] # id
           /\ next' \in Ids
<1>1. hand \in HandOf /\ next \in Ids /\ Free # {}
  BY DEF UpdateClient, ShapeInv, GconfdType
<1>2. PICK c \in Clients, old \in Ids : hand.entry = <<c, old>>
  BY <1>1 DEF HandOf, Pairs
<1>3. PICK id \in Ids : id = NewId /\ \A l \in listeners : l[2] # id
  BY <1>1, NewIdIsFree
<1>4. /\ listeners' = listeners \cup {<<c, id>>}
      /\ IF c \in alive THEN UpdateListener(c, old, id) /\ hand' = [hand EXCEPT !.id = id]
         ELSE hand' = Nothing /\ cnxns' = cnxns
      /\ excused' = excused \cup {cn \in Connections :
                      (id # old /\ \E k \in Names : cnxns[c][k] = id) /\ cn[1] = c}
      /\ next' = (id + 1) % Wrap
  BY <1>2, <1>3 DEF UpdateClient
<1>5. next' \in Ids
  BY <1>4 DEF Ids
<1>6. id # old /\ (\E k \in Names : cnxns[c][k] = id) =>
        \A k \in Names : cnxns[c][k] # NoId => <<c, k>> \in excused'
  BY <1>4, InConnections
<1>7. \E n \in AnyName :
             /\ n \in Names /\ c \in alive =>
                  cnxns[c][n] = old /\ cnxns' = [cnxns EXCEPT ![c][n] = id]
             /\ n \notin Names => cnxns' = cnxns
             /\ n \notin Names /\ c \in alive => \A k \in Names : cnxns[c][k] # old
  <2>1. NoName \in AnyName /\ NoName \notin Names
    BY NoSetContainsEverything DEF AnyName, NoName
  <2>2. CASE c \notin alive \/ \A k \in Names : cnxns[c][k] # old
    <3>1. cnxns' = cnxns
      BY <1>4, <2>2 DEF UpdateListener
    <3> QED
      BY <2>1, <2>2, <3>1
  <2>3. CASE c \in alive /\ \E k \in Names : cnxns[c][k] = old
    <3>1. PICK n \in Names : cnxns[c][n] = old /\ cnxns' = [cnxns EXCEPT ![c][n] = id]
      BY <1>4, <2>3 DEF UpdateListener
    <3> QED
      BY <3>1 DEF AnyName
  <2> QED
    BY <2>2, <2>3
<1>8. PICK n \in AnyName :
               /\ n \in Names /\ c \in alive =>
                    cnxns[c][n] = old /\ cnxns' = [cnxns EXCEPT ![c][n] = id]
               /\ n \notin Names => cnxns' = cnxns
               /\ n \notin Names /\ c \in alive => \A k \in Names : cnxns[c][k] # old
  BY <1>7
<1>9. Renews(c, old, id, n)
  BY <1>4, <1>6, <1>8 DEF Renews
<1> QED
  BY <1>2, <1>3, <1>5, <1>9

LEMMA UpdateClientShape ==
  ASSUME ShapeInv, UpdateClient
  PROVE  ShapeInv'
<1>1. PICK c \in Clients, old \in Ids, id \in Ids, n \in AnyName :
           /\ hand.entry = <<c, old>> /\ Renews(c, old, id, n)
           /\ next' \in Ids
  BY UpdateClientIs
<1>2. hand \in HandOf /\ pc' = pc /\ pc = "restoring"
  BY DEF UpdateClient, ShapeInv, GconfdType
<1>3. hand' = Nothing \/ hand' \in HandOf
  <2>1. [hand EXCEPT !.id = id] \in HandOf
    BY <1>2 DEF HandOf
  <2> QED
    BY <1>1, <2>1 DEF Renews
<1>4. listeners' \subseteq Pairs
  BY <1>1 DEF Renews, ShapeInv, GconfdType, Pairs
<1>5. GconfdType'
  BY <1>1, <1>2, <1>3, <1>4 DEF UpdateClient, ShapeInv, GconfdType
<1>6. FilesType'
  BY <1>2, FilesKept DEF UpdateClient, files, ShapeInv, FilesType, FileOf
<1>7. cnxns' \in [Clients -> [Names -> Ids \cup {NoId}]]
  BY <1>1 DEF Renews, ShapeInv, ProgramsType
<1>8. ASSUME NEW d \in Clients \ alive, NEW k \in Names PROVE cnxns'[d][k] = NoId
  BY <1>1, <1>8 DEF Renews, ShapeInv, ProgramsType
<1>9. ProgramsType'
  BY <1>7, <1>8 DEF UpdateClient, ShapeInv, ProgramsType
<1> QED
  BY <1>5, <1>6, <1>9 DEF ShapeInv

LEMMA LogEntryShape ==
  ASSUME ShapeInv, LogEntry
  PROVE  ShapeInv'
<1>1. hand \in HandOf /\ pc' = pc /\ pc = "restoring"
  BY DEF LogEntry, ShapeInv, GconfdType
<1>2. PICK e : e = <<hand.entry[1], hand.id>>
  OBVIOUS
<1>3. {e} \in SUBSET Entries
  BY <1>1, <1>2, EntriesAre DEF LogEntry, HandOf, Pairs
<1>4. Append({e}, {}, With({e}))
  BY <1>2 DEF LogEntry
<1>5. FileOf(log)'
  BY <1>3, <1>4, AppendType DEF ShapeInv
<1>6. GconfdType'
  BY <1>1 DEF LogEntry, ShapeInv, GconfdType
<1>7. FilesType'
  BY <1>1, <1>5, FilesKept DEF ShapeInv, LogEntry
<1>8. ProgramsType'
  BY DEF ShapeInv, LogEntry, ProgramsType, programs
<1> QED
  BY <1>6, <1>7, <1>8 DEF ShapeInv

LEMMA RestoredShape ==
  ASSUME ShapeInv, Restored
  PROVE  ShapeInv'
<1>1. GconfdType'
  BY DEF ShapeInv, Restored, GconfdType
<1>2. FilesType'
  BY FilesKept DEF ShapeInv, Restored, FilesType, FileOf, files
<1>3. ProgramsType'
  BY DEF ShapeInv, Restored, ProgramsType, programs
<1> QED
  BY <1>1, <1>2, <1>3 DEF ShapeInv

LEMMA AttachShape ==
  ASSUME ShapeInv, NEW c \in Clients, Attach(c)
  PROVE  ShapeInv'
<1>1. {<<c>>} \in SUBSET Entries
  BY EntriesAre
<1>2. FileOf(log)'
  BY <1>1, AppendType DEF ShapeInv, Attach, FilesType, FileOf
<1>3. GconfdType'
  BY DEF ShapeInv, Attach, GconfdType
<1>4. FilesType'
  BY <1>2, FilesKept DEF ShapeInv, Attach
<1>5. ProgramsType'
  BY DEF ShapeInv, Attach, ProgramsType
<1> QED
  BY <1>3, <1>4, <1>5 DEF ShapeInv

(* A connection is made under a free id; others of the program that are      *)
(* still under that one are excused, and it with them.                      *)
Adds(c, n, id) ==
  /\ listeners' = listeners \cup {<<c, id>>}
  /\ cnxns' = [cnxns EXCEPT ![c][n] = id]
  /\ excused \subseteq excused'
  /\ \A k \in Names : cnxns[c][k] = id => {<<c, k>>, <<c, n>>} \subseteq excused'
  /\ \/ log' = Logged \cup {<<c, id>>}
     \/ log' = log /\ <<c, n>> \in excused' /\ failures' # failures

LEMMA FailingCounts ==
  ASSUME Counted, Failing
  PROVE  failures' # failures /\ failures' # 0 /\ Counted'
BY DEF Failing, Counted

LEMMA AddListenerIs ==
  ASSUME ShapeInv, Counted, NEW c \in Clients, NEW n \in Names, AddListener(c, n)
  PROVE  \E id \in Ids : Adds(c, n, id) /\ next' \in Ids /\ \A l \in listeners : l[2] # id
<1>1. PICK id \in Ids : id = NewId /\ \A l \in listeners : l[2] # id
  BY NewIdIsFree DEF AddListener, ShapeInv, GconfdType
<1>2. PICK met : /\ met = {cn \in Connections : cn[1] = c /\ cnxns[c][cn[2]] = id}
                 /\ \/ /\ log' = Logged \cup {<<c, id>>}
                       /\ excused' = excused \cup IF met = {} THEN {} ELSE met \cup {<<c, n>>}
                    \/ /\ Failing
                       /\ excused' = excused \cup met \cup {<<c, n>>}
                       /\ UNCHANGED log
  BY <1>1 DEF AddListener
<1>3. ASSUME NEW k \in Names, cnxns[c][k] = id PROVE <<c, k>> \in met
  <2>1. id # NoId
    OBVIOUS
  <2> QED
    BY <1>2, <1>3, <2>1, InConnections
<1>4. \A k \in Names : cnxns[c][k] = id => {<<c, k>>, <<c, n>>} \subseteq excused'
  BY <1>2, <1>3
<1>5. /\ listeners' = listeners \cup {<<c, id>>}
      /\ cnxns' = [cnxns EXCEPT ![c][n] = id]
      /\ next' = (id + 1) % Wrap
  BY <1>1 DEF AddListener
<1>6. next' \in Ids
  BY <1>5 DEF Ids
<1>7. excused \subseteq excused'
  BY <1>2
<1>8. \/ log' = Logged \cup {<<c, id>>}
      \/ log' = log /\ <<c, n>> \in excused' /\ failures' # failures
  BY <1>2, FailingCounts
<1>9. Adds(c, n, id)
  BY <1>4, <1>5, <1>7, <1>8 DEF Adds
<1> QED
  BY <1>1, <1>6, <1>9

LEMMA AddListenerShape ==
  ASSUME ShapeInv, Counted, NEW c \in Clients, NEW n \in Names, AddListener(c, n)
  PROVE  ShapeInv'
<1>1. PICK id \in Ids : Adds(c, n, id) /\ next' \in Ids
  BY AddListenerIs
<1>2. FileOf(log)'
  <2>1. Logged \cup {<<c, id>>} \subseteq Entries
    BY LoggedType, EntriesAre DEF ShapeInv, Pairs
  <2> QED
    BY <1>1, <2>1, SetIsFile DEF Adds, ShapeInv, FilesType, FileOf
<1>3. listeners' \subseteq Pairs
  BY <1>1 DEF Adds, ShapeInv, GconfdType, Pairs
<1>4. GconfdType'
  BY <1>1, <1>3 DEF ShapeInv, AddListener, GconfdType
<1>5. FilesType'
  BY <1>2, FilesKept DEF ShapeInv, AddListener
<1>6. cnxns' \in [Clients -> [Names -> Ids \cup {NoId}]]
  BY <1>1 DEF Adds, ShapeInv, ProgramsType
<1>7. \A d \in Clients \ alive, k \in Names : cnxns'[d][k] = NoId
  BY <1>1 DEF Adds, ShapeInv, ProgramsType, AddListener
<1>8. ProgramsType'
  BY <1>6, <1>7 DEF ShapeInv, AddListener, ProgramsType
<1> QED
  BY <1>4, <1>5, <1>8 DEF ShapeInv

(* A connection is removed with the listeners that have its id.             *)
Removes(c, n, met) ==
  /\ met = {l \in listeners : l[2] = cnxns[c][n]}
  /\ listeners' = listeners \ met
  /\ cnxns' = [cnxns EXCEPT ![c][n] = NoId]
  /\ log' \in {log, Logged \ met}
  /\ log' = log => met = {} \/ failures' # failures \/ Logged \ met = log
  /\ \A d \in Clients, k \in Names :
       cnxns[d][k] # NoId /\ <<d, k>> # <<c, n>> =>
         /\ <<d, cnxns[d][k]>> \in met => <<d, k>> \in excused'
         /\ <<d, k>> \in excused => <<d, k>> \in excused'

LEMMA RemoveListenerIs ==
  ASSUME ShapeInv, Counted, NEW c \in Clients, NEW n \in Names, RemoveListener(c, n)
  PROVE  \E met : Removes(c, n, met)
<1>1. PICK met : met = {l \in listeners : l[2] = cnxns[c][n]}
  OBVIOUS
<1>2. /\ listeners' = listeners \ met
      /\ cnxns' = [cnxns EXCEPT ![c][n] = NoId]
      /\ IF met = {} THEN UNCHANGED <<log, failures>>
         ELSE \/ log' = Logged \ met /\ UNCHANGED failures
              \/ Failing /\ UNCHANGED log
      /\ excused' = (excused \cup {cn \in Connections : <<cn[1], cnxns[cn[1]][cn[2]]>> \in met})
                    \ {<<c, n>>}
  BY <1>1 DEF RemoveListener
<1>3. ASSUME NEW d \in Clients, NEW k \in Names, cnxns[d][k] # NoId, <<d, k>> # <<c, n>>
      PROVE  /\ <<d, cnxns[d][k]>> \in met => <<d, k>> \in excused'
             /\ <<d, k>> \in excused => <<d, k>> \in excused'
  BY <1>2, <1>3, InConnections
<1>4. /\ log' \in {log, Logged \ met}
      /\ log' = log => met = {} \/ failures' # failures \/ Logged \ met = log
  BY <1>2, FailingCounts
<1>5. Removes(c, n, met)
  BY <1>1, <1>2, <1>3, <1>4 DEF Removes
<1> QED
  BY <1>5

LEMMA RemoveListenerShape ==
  ASSUME ShapeInv, Counted, NEW c \in Clients, NEW n \in Names, RemoveListener(c, n)
  PROVE  ShapeInv'
<1>1. PICK met : Removes(c, n, met)
  BY RemoveListenerIs
<1>2. FileOf(log)'
  BY <1>1, LoggedType, SetIsFile DEF Removes, ShapeInv, FilesType, FileOf
<1>3. GconfdType'
  BY <1>1 DEF Removes, RemoveListener, ShapeInv, GconfdType
<1>4. FilesType'
  BY <1>2, FilesKept DEF ShapeInv, RemoveListener
<1>5. ProgramsType'
  BY <1>1 DEF Removes, RemoveListener, ShapeInv, ProgramsType
<1> QED
  BY <1>3, <1>4, <1>5 DEF ShapeInv

LEMMA ForgetDeadShape ==
  ASSUME ShapeInv, ForgetDead
  PROVE  ShapeInv'
<1>1. GconfdType'
  BY DEF ShapeInv, ForgetDead, GconfdType
<1>2. FilesType'
  BY FilesKept DEF ShapeInv, ForgetDead, FilesType, FileOf, files
<1>3. ProgramsType'
  BY DEF ShapeInv, ForgetDead, ProgramsType, programs
<1> QED
  BY <1>1, <1>2, <1>3 DEF ShapeInv

LEMMA ProgramEndsShape ==
  ASSUME ShapeInv, NEW c \in Clients, ProgramEnds(c)
  PROVE  ShapeInv'
<1>1. GconfdType'
  BY DEF ShapeInv, ProgramEnds, GconfdType, gconfd
<1>2. FilesType'
  BY DEF ShapeInv, ProgramEnds, FilesType, FileOf, files, gconfd
<1>3. ProgramsType'
  BY DEF ShapeInv, ProgramEnds, ProgramsType
<1> QED
  BY <1>1, <1>2, <1>3 DEF ShapeInv

LEMMA CleanupShape ==
  ASSUME ShapeInv, Cleanup
  PROVE  ShapeInv'
<1>1. FileOf(log)'
  BY AppendType DEF ShapeInv, Cleanup
<1>2. GconfdType'
  BY DEF ShapeInv, Cleanup, GconfdType
<1>3. FilesType'
  BY <1>1, FilesKept DEF ShapeInv, Cleanup
<1>4. ProgramsType'
  BY DEF ShapeInv, Cleanup, ProgramsType, programs
<1> QED
  BY <1>2, <1>3, <1>4 DEF ShapeInv

LEMMA SnapshotIs ==
  ASSUME GconfdType
  PROVE  /\ Snapshot \subseteq Entries /\ Snapshot \cap Pairs = listeners
BY EntriesAre, PairsAreNot1 DEF Snapshot, GconfdType

LEMMA WriteTmpShape ==
  ASSUME ShapeInv, WriteTmp
  PROVE  ShapeInv'
<1>1. GconfdType'
  BY DEF ShapeInv, WriteTmp, GconfdType, AfterSave
<1>2. Snapshot \subseteq Entries /\ Snapshot \cap Pairs = listeners
  BY SnapshotIs DEF ShapeInv
<1>3. FileOf(tmp)' /\ (pc' = "written" => tmp' # NoFile /\ tmp' \cap Pairs \subseteq listeners)
  <2>1. CASE tmp' \subseteq Snapshot
    BY <1>2, <2>1, SetIsFile DEF FileOf
  <2>2. CASE tmp' = tmp /\ pc' = AfterSave
    BY <2>2 DEF ShapeInv, FilesType, FileOf, AfterSave
  <2> QED
    BY <2>1, <2>2 DEF WriteTmp
<1>4. FilesType'
  BY <1>3 DEF ShapeInv, WriteTmp, FilesType, FileOf, AfterSave
<1>5. ProgramsType'
  BY DEF ShapeInv, WriteTmp, ProgramsType, programs
<1> QED
  BY <1>1, <1>4, <1>5 DEF ShapeInv

LEMMA MoveAsideShape ==
  ASSUME ShapeInv, MoveAside
  PROVE  ShapeInv'
<1>1. GconfdType'
  BY DEF ShapeInv, MoveAside, GconfdType, AfterSave
<1>2. FilesType'
  BY DEF ShapeInv, MoveAside, FilesType, FileOf, AfterSave
<1>3. ProgramsType'
  BY DEF ShapeInv, MoveAside, ProgramsType, programs
<1> QED
  BY <1>1, <1>2, <1>3 DEF ShapeInv

LEMMA MoveIntoShape ==
  ASSUME ShapeInv, MoveInto
  PROVE  ShapeInv'
<1>1. GconfdType'
  BY DEF ShapeInv, MoveInto, GconfdType, AfterSave
<1>2. FilesType'
  BY DEF ShapeInv, MoveInto, FilesType, FileOf, AfterSave
<1>3. ProgramsType'
  BY DEF ShapeInv, MoveInto, ProgramsType, programs
<1> QED
  BY <1>1, <1>2, <1>3 DEF ShapeInv

LEMMA EndingShape ==
  ASSUME ShapeInv, Crash \/ CleanExit
  PROVE  ShapeInv'
<1>1. Ending /\ log' \in {log, NoFile}
  BY DEF Crash, CleanExit
<1>2. GconfdType'
  BY <1>1 DEF ShapeInv, Ending, GconfdType
<1>3. FilesType'
  BY <1>1 DEF ShapeInv, Ending, FilesType, FileOf
<1>4. ProgramsType'
  BY <1>1 DEF ShapeInv, Ending, ProgramsType
<1> QED
  BY <1>2, <1>3, <1>4 DEF ShapeInv

(* Failures are counted.                                                    *)
LEMMA NextFailures ==
  ASSUME Counted, [Next]_vars
  PROVE  Counted' /\ (failures' = 0 => failures = 0)
<1>1. failures' = failures \/ Failing
  BY DEF Next, vars, Start, RestoreClient, CancelEntry, UpdateClient, LogEntry, Restored, Attach,
         AddListener, RemoveListener, ForgetDead, ProgramEnds, Cleanup, WriteTmp, MoveAside,
         MoveInto, Crash, CleanExit, Ending, Append, budget
<1> QED
  BY <1>1, FailingCounts DEF Counted

LEMMA NextShape ==
  ASSUME ShapeInv, Counted, [Next]_vars
  PROVE  ShapeInv'
<1>1. CASE UNCHANGED vars
  BY <1>1 DEF vars, ShapeInv, GconfdType, FilesType, FileOf, ProgramsType
<1> QED
  BY <1>1, StartShape, RestoreClientShape, CancelEntryShape, UpdateClientShape, LogEntryShape,
     RestoredShape, AttachShape, AddListenerShape, RemoveListenerShape, ForgetDeadShape,
     ProgramEndsShape, CleanupShape, WriteTmpShape, MoveAsideShape, MoveIntoShape, EndingShape
     DEF Next

LEMMA Shapes == Spec => [](ShapeInv /\ Counted)
<1>1. Init => Counted
  BY DEF Init, Counted
<1> QED
  BY <1>1, InitShape, NextShape, NextFailures, PTL DEF Spec

-----------------------------------------------------------------------------
(***************************************************************************)
(* Where gconfd and its files keep the entry e of a connection that must     *)
(* survive: in the file while gconfd is down or may be killed, but for the   *)
(* entry that is being restored; in its table once it serves.  While the     *)
(* file is aside it is there.                                               *)
(***************************************************************************)
InHand(e) ==
  /\ hand # Nothing
  /\ \/ hand.id = NoId /\ e = hand.entry
     \/ hand.id # NoId /\ e = <<hand.entry[1], hand.id>> /\ e \in listeners

Held(e) ==
  /\ pc = "down" => e \in Logged
  /\ pc = "restoring" => e \in (listeners \cup todo) \cap Logged \/ InHand(e)
  /\ pc \in {"up", "saving", "written"} => e \in listeners \cap Logged
  /\ pc = "aside" => e \in listeners \cap orig

(* No other connection of the program is under the same id.                 *)
Alone(c, n) == \A k \in Names : cnxns[c][k] = cnxns[c][n] => k = n

Survives(c, n) ==
  cnxns[c][n] # NoId /\ <<c, n>> \notin excused => Alone(c, n) /\ Held(<<c, cnxns[c][n]>>)

SurviveInv == \A c \in Clients, n \in Names : Survives(c, n)

LEMMA InWith ==
  ASSUME NEW S, NEW c \in Clients, NEW n \in Names
  PROVE  <<c, n>> \in With(S) <=> cnxns[c][n] # NoId /\ <<c, cnxns[c][n]>> \in S /\ Alone(c, n)
BY InConnections DEF With, Alone

(* Steps that change no connection.                                         *)
StaysHeld ==
  \A c \in Clients, n \in Names : \A e \in Pairs :
    /\ e = <<c, cnxns[c][n]>> /\ c \in alive /\ <<c, n>> \notin excused'
    /\ Alone(c, n) /\ Held(e)
    => Held(e)'

LEMMA ConnectionEntry ==
  ASSUME ShapeInv, NEW c \in Clients, NEW n \in Names, cnxns[c][n] # NoId
  PROVE  cnxns[c][n] \in Ids /\ <<c, cnxns[c][n]>> \in Pairs /\ c \in alive
BY DEF ShapeInv, ProgramsType, Pairs

LEMMA StillAlone ==
  ASSUME ShapeInv, SurviveInv, cnxns' = cnxns, excused \subseteq excused', StaysHeld
  PROVE  SurviveInv'
<1>1. ASSUME NEW c \in Clients, NEW n \in Names PROVE Survives(c, n)'
  <2> SUFFICES ASSUME cnxns[c][n] # NoId, <<c, n>> \notin excused' PROVE Survives(c, n)'
    BY DEF Survives
  <2>1. Survives(c, n)
    BY DEF SurviveInv
  <2>2. Alone(c, n)' <=> Alone(c, n)
    BY DEF Alone
  <2> PICK e : e = <<c, cnxns[c][n]>>
    OBVIOUS
  <2>3. e \in Pairs /\ c \in alive
    BY ConnectionEntry
  <2>4. Alone(c, n) /\ Held(e)
    BY <2>1 DEF Survives
  <2>5. Held(e)'
    BY <2>3, <2>4 DEF StaysHeld
  <2> QED
    BY <2>2, <2>4, <2>5 DEF Survives
<1> QED
  BY <1>1 DEF SurviveInv

LEMMA StartSurvives ==
  ASSUME ShapeInv, SurviveInv, Start
  PROVE  SurviveInv'
<1>1. StaysHeld
  BY DEF Start, StaysHeld, Held, Logged, files
<1> QED
  BY <1>1, StillAlone DEF Start

LEMMA AppendIs ==
  ASSUME NEW added, NEW removed, NEW missed, Append(added, removed, missed)
  PROVE  /\ excused \subseteq excused'
         /\ log' # log => log' = (Logged \ removed) \cup added
         /\ log' = log => \/ (Logged \ removed) \cup added = log
                          \/ missed \subseteq excused'
BY DEF Append

(* A pair stays in the log when other entries are written or removed.        *)
LEMMA PairsStayLogged ==
  ASSUME ShapeInv, NEW S, NEW T, NEW e \in Pairs, e \in Logged, e \notin S, T \subseteq Entries,
         log' = log \/ log' = (Logged \ S) \cup T
  PROVE  e \in Logged'
<1>1. CASE log' = log
  BY <1>1 DEF Logged
<1>2. CASE log' = (Logged \ S) \cup T
  <2>1. (Logged \ S) \cup T \subseteq Entries
    BY LoggedType DEF ShapeInv
  <2>2. log' # NoFile
    BY <1>2, <2>1
  <2> QED
    BY <1>2, <2>2 DEF Logged
<1> QED
  BY <1>1, <1>2

(* Steps that write or remove programs' lines, and forget listeners of       *)
(* programs that ended.                                                    *)
LEMMA ClientLinesSurvive ==
  ASSUME ShapeInv, SurviveInv, cnxns' = cnxns, excused \subseteq excused',
         NEW S, NEW T, log' = log \/ log' = (Logged \ S) \cup T, T \subseteq Entries,
         S \cap Pairs = {}, todo \cap Pairs \subseteq todo', hand' = hand,
         \A l \in listeners : l[1] \in alive => l \in listeners',
         \/ pc' = pc /\ pc \in {"restoring", "up"}
         \/ pc = "up" /\ pc' = "saving"
  PROVE  SurviveInv'
<1>1. ASSUME NEW e \in Pairs, e[1] \in alive, Held(e) PROVE Held(e)'
  <2>1. e \in Logged => e \in Logged'
    BY <1>1, PairsStayLogged
  <2>2. e \in listeners => e \in listeners'
    BY <1>1
  <2>3. InHand(e) => InHand(e)'
    BY <2>2 DEF InHand, Nothing
  <2>4. CASE pc = "restoring"
    BY <1>1, <2>1, <2>2, <2>3, <2>4 DEF Held
  <2>5. CASE pc = "up"
    BY <1>1, <2>1, <2>2, <2>5 DEF Held
  <2> QED
    BY <2>4, <2>5
<1>2. StaysHeld
  BY <1>1 DEF StaysHeld
<1> QED
  BY <1>2, StillAlone

LEMMA RestoreClientSurvives ==
  ASSUME ShapeInv, SurviveInv, NEW c \in Clients, RestoreClient(c)
  PROVE  SurviveInv'
<1>1. \A e \in Pairs : e # <<c>>
  BY PairsAreNot1
<1>2. /\ cnxns' = cnxns /\ pc' = pc /\ pc = "restoring" /\ listeners' = listeners /\ hand' = hand
      /\ todo' = todo \ {<<c>>}
      /\ excused \subseteq excused'
      /\ log' = log \/ log' = (Logged \ {}) \cup {<<c>>}
  BY AppendIs DEF RestoreClient, programs
<1>3. {<<c>>} \subseteq Entries /\ {} \cap Pairs = {} /\ todo \cap Pairs \subseteq todo'
  BY <1>1, <1>2, EntriesAre
<1> QED
  BY <1>2, <1>3, ClientLinesSurvive

LEMMA AttachSurvives ==
  ASSUME ShapeInv, SurviveInv, NEW c \in Clients, Attach(c)
  PROVE  SurviveInv'
<1>1. /\ cnxns' = cnxns /\ pc' = pc /\ pc = "up" /\ listeners' = listeners /\ hand' = hand
      /\ todo' = todo /\ excused \subseteq excused'
      /\ log' = log \/ log' = (Logged \ {}) \cup {<<c>>}
  BY AppendIs DEF Attach
<1>2. {<<c>>} \subseteq Entries /\ {} \cap Pairs = {}
  BY EntriesAre
<1> QED
  BY <1>1, <1>2, ClientLinesSurvive

LEMMA CleanupSurvives ==
  ASSUME ShapeInv, SurviveInv, Cleanup
  PROVE  SurviveInv'
<1>1. PICK S : S = {<<c>> : c \in table \ alive}
  OBVIOUS
<1>2. S \cap Pairs = {}
  BY <1>1, PairsAreNot1
<1>3. /\ cnxns' = cnxns /\ pc = "up" /\ pc' = "saving" /\ hand' = hand /\ todo' = todo
      /\ listeners' = {l \in listeners : l[1] \in alive}
      /\ Append({}, S, {})
  BY <1>1 DEF Cleanup, programs
<1>4. /\ excused \subseteq excused'
      /\ log' = log \/ log' = (Logged \ S) \cup {}
  BY <1>3, AppendIs
<1> QED
  BY <1>2, <1>3, <1>4, ClientLinesSurvive

LEMMA ForgetDeadSurvives ==
  ASSUME ShapeInv, SurviveInv, ForgetDead
  PROVE  SurviveInv'
<1>1. /\ cnxns' = cnxns /\ pc' = pc /\ pc = "up" /\ hand' = hand /\ todo' = todo
      /\ excused' = excused /\ log' = log
      /\ \A l \in listeners : l[1] \in alive => l \in listeners'
  BY DEF ForgetDead, programs, files
<1>2. PICK S, T : S = {} /\ T = {}
  OBVIOUS
<1> QED
  BY <1>1, <1>2, ClientLinesSurvive

(* The entry that is cancelled is the one in hand.                          *)
LEMMA CancelEntrySurvives ==
  ASSUME ShapeInv, SurviveInv, CancelEntry
  PROVE  SurviveInv'
<1>1. PICK e \in todo : /\ hand' = [entry |-> e, id |-> NoId] /\ todo' = todo \ {e}
                        /\ Append({}, {e}, {})
  BY DEF CancelEntry
<1>2. e \in Pairs
  BY EntriesAre DEF CancelEntry, ShapeInv, GconfdType
<1>3. hand'.id = NoId /\ hand'.entry = e /\ hand' # Nothing
  BY <1>1, <1>2, EntriesAre DEF Nothing
<1>4. /\ cnxns' = cnxns /\ pc' = pc /\ pc = "restoring" /\ hand = Nothing /\ listeners' = listeners
      /\ excused \subseteq excused'
      /\ log' = log \/ log' = (Logged \ {e}) \cup {}
  BY <1>1, AppendIs DEF CancelEntry, programs
<1>5. ASSUME NEW x \in Pairs, Held(x) PROVE Held(x)'
  <2>1. CASE x = e
    BY <1>3, <1>4, <2>1 DEF Held, InHand
  <2>2. CASE x # e
    <3> PICK S, T : S = {e} /\ T = {}
      OBVIOUS
    <3>1. log' = log \/ log' = (Logged \ S) \cup T
      BY <1>4
    <3>2. x \in Logged => x \in Logged'
      BY <1>5, <2>2, <3>1, PairsStayLogged
    <3> QED
      BY <1>1, <1>4, <1>5, <2>2, <3>2 DEF Held, InHand
  <2> QED
    BY <2>1, <2>2
<1>6. StaysHeld
  BY <1>5 DEF StaysHeld
<1> QED
  BY <1>4, <1>6, StillAlone

(* The connection that is found under the old id moves to the new one, under *)
(* which no other is, or all are excused.                                   *)
LEMMA UpdateClientSurvives ==
  ASSUME ShapeInv, SurviveInv, UpdateClient
  PROVE  SurviveInv'
<1>1. PICK c \in Clients, old \in Ids, id \in Ids, n \in AnyName :
           /\ hand.entry = <<c, old>> /\ Renews(c, old, id, n)
           /\ \A l \in listeners : l[2] # id
  BY UpdateClientIs
<1>2. /\ hand \in HandOf /\ hand.id = NoId /\ pc' = pc /\ pc = "restoring"
      /\ log' = log /\ todo' = todo /\ listeners \subseteq listeners'
      /\ cnxns \in [Clients -> [Names -> Ids \cup {NoId}]]
  BY <1>1 DEF UpdateClient, ShapeInv, GconfdType, ProgramsType, Renews, files
<1>3. ASSUME NEW d \in Clients, NEW k \in Names,
             cnxns'[d][k] # NoId, <<d, k>> \notin excused'
      PROVE  Survives(d, k)'
  <2>1. d \in alive
    BY <1>3, UpdateClientShape, ConnectionEntry DEF ShapeInv, ProgramsType, UpdateClient
  <2>2. CASE d = c /\ k = n
    <3>1. cnxns[c][n] = old /\ cnxns' = [cnxns EXCEPT ![c][n] = id] /\ n \in Names
      BY <1>1, <2>1, <2>2 DEF Renews
    <3>2. cnxns'[c][n] = id /\ \A j \in Names \ {n} : cnxns'[c][j] = cnxns[c][j]
      BY <1>2, <3>1
    <3>3. id # old => \A j \in Names : cnxns[c][j] # id
      BY <1>1, <1>3, <2>2, <3>1 DEF Renews
    <3>4. <<c, n>> \notin excused
      BY <1>1, <1>3, <2>2 DEF Renews
    <3>5. Alone(c, n)
      BY <2>2, <3>1, <3>4 DEF SurviveInv, Survives
    <3>6. Alone(c, n)'
      <4> SUFFICES ASSUME NEW j \in Names \ {n}, cnxns'[c][j] = id PROVE FALSE
        BY <3>2 DEF Alone
      <4> QED
        BY <3>1, <3>2, <3>3, <3>5 DEF Alone
    <3>7. hand' = [hand EXCEPT !.id = id] /\ <<c, id>> \in listeners'
      BY <1>1, <2>1, <2>2 DEF Renews
    <3>8. hand'.id = id /\ hand'.entry[1] = c /\ hand' # Nothing
      BY <1>1, <1>2, <3>7 DEF HandOf, Nothing
    <3>9. InHand(<<c, id>>)'
      BY <3>7, <3>8 DEF InHand
    <3>10. Held(<<c, id>>)'
      BY <1>2, <3>9 DEF Held
    <3> QED
      BY <2>2, <3>2, <3>6, <3>10 DEF Survives
  <2>3. CASE ~(d = c /\ k = n)
    <3> PICK x : x = <<d, cnxns[d][k]>>
      OBVIOUS
    <3>1. cnxns'[d][k] = cnxns[d][k] /\ <<d, k>> \notin excused
      BY <1>1, <1>2, <1>3, <2>3 DEF Renews
    <3>2. Alone(d, k) /\ Held(x)
      BY <1>3, <3>1 DEF SurviveInv, Survives
    <3>3. Alone(d, k)'
      <4> SUFFICES ASSUME NEW j \in Names \ {k}, cnxns'[d][j] = cnxns[d][k] PROVE FALSE
        BY <3>1 DEF Alone
      <4>1. cnxns[d][j] # cnxns[d][k]
        BY <3>2 DEF Alone
      <4>2. d = c /\ j = n /\ cnxns'[d][j] = id /\ cnxns[c][n] = old /\ n \in Names
        BY <1>1, <1>2, <4>1, <2>1 DEF Renews
      <4>3. id # old /\ cnxns[c][k] = id
        BY <4>1, <4>2
      <4> QED
        BY <1>1, <1>3, <3>1, <4>2, <4>3 DEF Renews
    <3>4. x # hand.entry
      <4> SUFFICES ASSUME x = <<c, old>> PROVE FALSE
        BY <1>1
      <4>1. d = c /\ cnxns[c][k] = old
        OBVIOUS
      <4>2. n \in Names /\ cnxns[c][n] = old
        BY <1>1, <2>1, <4>1 DEF Renews
      <4> QED
        BY <2>3, <3>2, <4>1, <4>2 DEF Alone
    <3>5. ~InHand(x)
      BY <1>2, <3>4 DEF InHand
    <3>6. Held(x)'
      BY <1>2, <3>2, <3>5 DEF Held, Logged
    <3> QED
      BY <3>1, <3>3, <3>6 DEF Survives
  <2> QED
    BY <2>2, <2>3
<1> QED
  BY <1>3 DEF SurviveInv, Survives

LEMMA LogEntrySurvives ==
  ASSUME ShapeInv, SurviveInv, LogEntry
  PROVE  SurviveInv'
<1>1. PICK e : e = <<hand.entry[1], hand.id>>
  OBVIOUS
<1>2. PICK S, T : S = {} /\ T = {e}
  OBVIOUS
<1>3. e \in Pairs /\ T \subseteq Entries /\ hand.id # NoId
  BY <1>1, <1>2, EntriesAre DEF LogEntry, ShapeInv, GconfdType, HandOf, Pairs
<1>4. Append(T, S, With({e}))
  BY <1>1, <1>2 DEF LogEntry
<1>5. /\ cnxns' = cnxns /\ pc' = pc /\ pc = "restoring" /\ listeners' = listeners /\ todo' = todo
      /\ excused \subseteq excused'
      /\ log' = log \/ log' = (Logged \ S) \cup T
  BY <1>4, AppendIs DEF LogEntry, programs
<1>6. e \in Logged' \/ With({e}) \subseteq excused'
  <2>1. CASE log' # log
    <3>1. (Logged \ S) \cup T \subseteq Entries
      BY <1>3, LoggedType DEF ShapeInv
    <3>2. log' # NoFile /\ e \in log'
      BY <1>2, <1>5, <2>1, <3>1
    <3> QED
      BY <3>2 DEF Logged
  <2>2. CASE log' = log
    <3>1. (Logged \ S) \cup T = log \/ With({e}) \subseteq excused'
      BY <1>4, <2>2, AppendIs
    <3>2. (Logged \ S) \cup T = log => e \in Logged'
      BY <1>2, <1>3, <2>2, LoggedType DEF Logged, ShapeInv
    <3> QED
      BY <3>1, <3>2
  <2> QED
    BY <2>1, <2>2
<1>7. StaysHeld
  <2> SUFFICES ASSUME NEW c \in Clients, NEW n \in Names, NEW x \in Pairs,
                      x = <<c, cnxns[c][n]>>, <<c, n>> \notin excused', Alone(c, n), Held(x)
               PROVE  Held(x)'
    BY DEF StaysHeld
  <2>1. x \in Logged => x \in Logged'
    BY <1>2, <1>3, <1>5, PairsStayLogged
  <2>2. CASE x = e
    <3>1. cnxns[c][n] # NoId
      BY DEF Pairs
    <3>2. e \in Logged'
      BY <1>6, <2>2, <3>1, InWith
    <3>3. e \in listeners \cup todo
      BY <1>1, <1>3, <1>5, <2>2 DEF Held, InHand
    <3> QED
      BY <1>5, <2>2, <3>2, <3>3 DEF Held
  <2>3. CASE x # e
    <3>1. ~InHand(x)
      BY <1>1, <1>3, <2>3 DEF InHand
    <3> QED
      BY <1>5, <2>1, <3>1 DEF Held
  <2> QED
    BY <2>2, <2>3
<1> QED
  BY <1>5, <1>7, StillAlone

LEMMA RestoredSurvives ==
  ASSUME ShapeInv, SurviveInv, Restored
  PROVE  SurviveInv'
<1>1. StaysHeld
  BY DEF Restored, StaysHeld, Held, InHand, Logged, files
<1> QED
  BY <1>1, StillAlone DEF Restored, programs

LEMMA AddListenerSurvives ==
  ASSUME ShapeInv, Counted, SurviveInv, NEW c \in Clients, NEW n \in Names, AddListener(c, n)
  PROVE  SurviveInv'
<1>1. PICK id \in Ids : Adds(c, n, id)
  BY AddListenerIs
<1>2. /\ pc' = pc /\ pc = "up" /\ cnxns[c][n] = NoId /\ listeners' = listeners \cup {<<c, id>>}
      /\ cnxns \in [Clients -> [Names -> Ids \cup {NoId}]]
      /\ cnxns' = [cnxns EXCEPT ![c][n] = id] /\ excused \subseteq excused'
  BY <1>1 DEF AddListener, Adds, ShapeInv, ProgramsType
<1>3. PICK S, T : S = {} /\ T = {<<c, id>>}
  OBVIOUS
<1>4. /\ T \subseteq Entries
      /\ log' = log \/ log' = (Logged \ S) \cup T
  BY <1>1, <1>3, EntriesAre DEF Adds, Pairs
<1>5. ASSUME NEW d \in Clients, NEW k \in Names,
             cnxns'[d][k] # NoId, <<d, k>> \notin excused'
      PROVE  Survives(d, k)'
  <2>1. CASE d = c /\ k = n
    <3>1. \A j \in Names : cnxns[c][j] # id
      BY <1>1, <1>5, <2>1 DEF Adds
    <3>2. cnxns'[c][n] = id /\ \A j \in Names \ {n} : cnxns'[c][j] = cnxns[c][j]
      BY <1>2
    <3>3. Alone(c, n)'
      BY <3>1, <3>2 DEF Alone
    <3>4. log' = Logged \cup {<<c, id>>}
      BY <1>1, <1>5, <2>1 DEF Adds
    <3>5. <<c, id>> \in Logged'
      <4>1. Logged \cup {<<c, id>>} \subseteq Entries
        BY LoggedType, EntriesAre DEF ShapeInv, Pairs
      <4>2. log' # NoFile
        BY <3>4, <4>1
      <4> QED
        BY <3>4, <4>2 DEF Logged
    <3>6. Held(<<c, id>>)'
      BY <1>2, <3>5 DEF Held
    <3> QED
      BY <2>1, <3>2, <3>3, <3>6 DEF Survives
  <2>2. CASE ~(d = c /\ k = n)
    <3> PICK x : x = <<d, cnxns[d][k]>>
      OBVIOUS
    <3>1. cnxns'[d][k] = cnxns[d][k] /\ <<d, k>> \notin excused
      BY <1>2, <1>5, <2>2
    <3>2. Alone(d, k) /\ Held(x)
      BY <1>5, <3>1 DEF SurviveInv, Survives
    <3>3. Alone(d, k)'
      <4> SUFFICES ASSUME NEW j \in Names \ {k}, cnxns'[d][j] = cnxns[d][k] PROVE FALSE
        BY <3>1 DEF Alone
      <4>1. cnxns[d][j] # cnxns[d][k]
        BY <3>2 DEF Alone
      <4>2. d = c /\ j = n /\ cnxns'[d][j] = id
        BY <1>2, <4>1
      <4> QED
        BY <1>1, <1>5, <4>2 DEF Adds
    <3>4. x \in Pairs
      BY <1>5, <3>1, ConnectionEntry
    <3>5. x \in Logged => x \in Logged'
      BY <1>3, <1>4, <3>4, PairsStayLogged
    <3>6. Held(x)'
      BY <1>2, <3>2, <3>5 DEF Held
    <3> QED
      BY <3>1, <3>3, <3>6 DEF Survives
  <2> QED
    BY <2>1, <2>2
<1> QED
  BY <1>5 DEF SurviveInv, Survives

LEMMA RemoveListenerSurvives ==
  ASSUME ShapeInv, Counted, SurviveInv, NEW c \in Clients, NEW n \in Names, RemoveListener(c, n)
  PROVE  SurviveInv'
<1>1. PICK met : Removes(c, n, met)
  BY RemoveListenerIs
<1>2. PICK T : T = {}
  OBVIOUS
<1>3. /\ pc' = pc /\ pc = "up" /\ listeners' = listeners \ met
      /\ cnxns \in [Clients -> [Names -> Ids \cup {NoId}]]
      /\ cnxns' = [cnxns EXCEPT ![c][n] = NoId]
      /\ log' = log \/ log' = (Logged \ met) \cup T
      /\ T \subseteq Entries
  BY <1>1, <1>2 DEF RemoveListener, Removes, ShapeInv, ProgramsType
<1>4. ASSUME NEW d \in Clients, NEW k \in Names,
             cnxns'[d][k] # NoId, <<d, k>> \notin excused'
      PROVE  Survives(d, k)'
  <2> PICK x : x = <<d, cnxns[d][k]>>
    OBVIOUS
  <2>1. <<d, k>> # <<c, n>> /\ cnxns'[d][k] = cnxns[d][k]
    BY <1>3, <1>4
  <2>2. <<d, k>> \notin excused /\ x \notin met
    BY <1>1, <1>4, <2>1 DEF Removes
  <2>3. Alone(d, k) /\ Held(x)
    BY <1>4, <2>1, <2>2 DEF SurviveInv, Survives
  <2>4. Alone(d, k)'
    BY <1>3, <1>4, <2>1, <2>3 DEF Alone
  <2>5. x \in Pairs
    BY <1>4, <2>1, ConnectionEntry
  <2>6. x \in Logged => x \in Logged'
    BY <1>3, <2>2, <2>5, PairsStayLogged
  <2>7. Held(x)'
    BY <1>3, <2>2, <2>3, <2>6 DEF Held
  <2> QED
    BY <2>1, <2>4, <2>7 DEF Survives
<1> QED
  BY <1>4 DEF SurviveInv, Survives

LEMMA ProgramEndsSurvives ==
  ASSUME ShapeInv, SurviveInv, NEW c \in Clients, ProgramEnds(c)
  PROVE  SurviveInv'
<1>1. /\ cnxns' = [cnxns EXCEPT ![c] = [n \in Names |-> NoId]]
      /\ excused' = {cn \in excused : cn[1] # c}
      /\ cnxns \in [Clients -> [Names -> Ids \cup {NoId}]]
      /\ UNCHANGED <<pc, listeners, todo, hand, log, orig>>
  BY DEF ProgramEnds, ShapeInv, ProgramsType, gconfd, files
<1>2. ASSUME NEW d \in Clients, NEW k \in Names,
             cnxns'[d][k] # NoId, <<d, k>> \notin excused'
      PROVE  Survives(d, k)'
  <2> PICK x : x = <<d, cnxns[d][k]>>
    OBVIOUS
  <2>1. d # c /\ cnxns'[d] = cnxns[d]
    BY <1>1, <1>2
  <2>2. <<d, k>> \notin excused
    BY <1>1, <1>2, <2>1
  <2>3. Alone(d, k) /\ Held(x)
    BY <1>2, <2>1, <2>2 DEF SurviveInv, Survives
  <2>4. Alone(d, k)'
    BY <2>1, <2>3 DEF Alone
  <2>5. Held(x)'
    BY <1>1, <2>3 DEF Held, InHand, Logged
  <2> QED
    BY <2>1, <2>4, <2>5 DEF Survives
<1> QED
  BY <1>2 DEF SurviveInv, Survives

LEMMA SaveSurvives ==
  ASSUME ShapeInv, SurviveInv, WriteTmp \/ MoveAside
  PROVE  SurviveInv'
<1>1. StaysHeld
  BY DEF WriteTmp, MoveAside, StaysHeld, Held, Logged, AfterSave
<1> QED
  BY <1>1, StillAlone DEF WriteTmp, MoveAside, programs

(* The new file has what the old one or the table had, or the connections    *)
(* are excused; those it has are excused no longer.                         *)
LEMMA MoveIntoSurvives ==
  ASSUME ShapeInv, SurviveInv, MoveInto
  PROVE  SurviveInv'
<1>1. /\ UNCHANGED <<listeners, cnxns>> /\ pc' \in {"down", "up"}
      /\ pc \in {"aside", "written"} /\ (pc = "written" => log = NoFile)
      /\ tmp # NoFile /\ tmp \cap Pairs \subseteq listeners /\ (pc = "aside" => orig # NoFile)
  BY DEF MoveInto, AfterSave, programs, ShapeInv, FilesType
<1>2. ASSUME NEW c \in Clients, NEW n \in Names,
             cnxns'[c][n] # NoId, <<c, n>> \notin excused'
      PROVE  Survives(c, n)'
  <2> PICK x : x = <<c, cnxns[c][n]>>
    OBVIOUS
  <2>1. x \in Pairs /\ cnxns[c][n] # NoId
    BY <1>1, <1>2, ConnectionEntry
  <2>2. Alone(c, n)' <=> Alone(c, n)
    BY <1>1 DEF Alone
  <2>3. CASE log' = tmp /\ excused' = (excused \ With(tmp)) \cup With(listeners \ tmp)
    <3>1. CASE <<c, n>> \in With(tmp)
      <4>1. Alone(c, n) /\ x \in tmp
        BY <3>1, InWith
      <4>2. x \in listeners /\ x \in Logged'
        BY <1>1, <2>1, <2>3, <4>1 DEF Logged
      <4> QED
        BY <1>1, <2>2, <4>1, <4>2 DEF Survives, Held
    <3>2. CASE <<c, n>> \notin With(tmp)
      <4>1. <<c, n>> \notin excused
        BY <1>2, <2>3, <3>2
      <4>2. Alone(c, n) /\ Held(x)
        BY <2>1, <4>1 DEF SurviveInv, Survives
      <4>3. x \in listeners
        BY <1>1, <4>2 DEF Held
      <4>4. x \in tmp
        BY <1>2, <2>1, <2>3, <4>2, <4>3, InWith
      <4> QED
        BY <2>1, <3>2, <4>2, <4>4, InWith
    <3> QED
      BY <3>1, <3>2
  <2>4. CASE pc = "aside" /\ log' = orig /\ excused' = excused
    <3>1. Alone(c, n) /\ Held(x)
      BY <1>2, <2>1, <2>4 DEF SurviveInv, Survives
    <3>2. x \in listeners /\ x \in Logged'
      BY <1>1, <2>4, <3>1 DEF Held, Logged
    <3> QED
      BY <1>1, <2>2, <3>1, <3>2 DEF Survives, Held
  <2>5. CASE excused' = excused \cup With(listeners)
    <3>1. Alone(c, n) /\ Held(x)
      BY <1>2, <2>1, <2>5 DEF SurviveInv, Survives
    <3>2. x \in listeners
      BY <1>1, <3>1 DEF Held
    <3> QED
      BY <1>2, <2>1, <2>5, <3>1, <3>2, InWith
  <2> QED
    BY <2>3, <2>4, <2>5 DEF MoveInto
<1> QED
  BY <1>2 DEF SurviveInv, Survives

LEMMA CrashSurvives ==
  ASSUME ShapeInv, SurviveInv, Crash
  PROVE  SurviveInv'
<1>1. /\ UNCHANGED <<cnxns, log, listeners>> /\ pc' = "down" /\ excused \subseteq excused'
      /\ pc = "aside" => With(listeners) \subseteq excused'
      /\ hand # Nothing => With({hand.entry, <<hand.entry[1], hand.id>>}) \subseteq excused'
  BY DEF Crash, Ending
<1>2. StaysHeld
  <2> SUFFICES ASSUME NEW c \in Clients, NEW n \in Names, NEW x \in Pairs,
                      x = <<c, cnxns[c][n]>>, <<c, n>> \notin excused', Alone(c, n), Held(x)
               PROVE  Held(x)'
    BY DEF StaysHeld
  <2>1. cnxns[c][n] # NoId
    BY DEF Pairs
  <2>2. pc # "aside"
    <3> SUFFICES ASSUME pc = "aside" PROVE FALSE
      OBVIOUS
    <3> QED
      BY <1>1, <2>1, InWith DEF Held
  <2>3. ~InHand(x)
    <3> SUFFICES ASSUME InHand(x) PROVE FALSE
      OBVIOUS
    <3>1. x \in {hand.entry, <<hand.entry[1], hand.id>>} /\ hand # Nothing
      BY DEF InHand
    <3> QED
      BY <1>1, <2>1, <3>1, InWith
  <2>4. x \in Logged
    BY <2>2, <2>3 DEF Held, ShapeInv, GconfdType
  <2> QED
    BY <1>1, <2>4 DEF Held, Logged
<1> QED
  BY <1>1, <1>2, StillAlone

LEMMA CleanExitSurvives ==
  ASSUME ShapeInv, SurviveInv, CleanExit
  PROVE  SurviveInv'
BY InConnections DEF CleanExit, Ending, SurviveInv, Survives

LEMMA NextSurvives ==
  ASSUME ShapeInv, Counted, SurviveInv, [Next]_vars
  PROVE  SurviveInv'
<1>1. CASE UNCHANGED vars
  <2>1. StaysHeld
    BY <1>1 DEF vars, StaysHeld, Held, InHand, Logged
  <2> QED
    BY <1>1, <2>1, StillAlone DEF vars
<1> QED
  BY <1>1, StartSurvives, RestoreClientSurvives, CancelEntrySurvives, UpdateClientSurvives,
     LogEntrySurvives, RestoredSurvives, AttachSurvives, AddListenerSurvives,
     RemoveListenerSurvives, ForgetDeadSurvives, ProgramEndsSurvives, CleanupSurvives,
     SaveSurvives, MoveIntoSurvives, CrashSurvives, CleanExitSurvives
     DEF Next

(***************************************************************************)
(* A gconfd that serves has every connection of every running program,      *)
(* however often it was killed before, but for the named gaps: entries are   *)
(* in the file, in the table or in hand.                                    *)
(***************************************************************************)
THEOREM Survive == Spec => []ConnectionsSurvive
<1>1. Init => SurviveInv
  BY DEF Init, SurviveInv, Survives
<1>2. ShapeInv /\ SurviveInv => ConnectionsSurvive
  <2> SUFFICES ASSUME SurviveInv, pc \in {"up", "saving", "written", "aside"},
                      NEW c \in Clients, NEW n \in Names, <<c, n>> \in Connections \ excused
               PROVE  <<c, n>> \in With(listeners)
    BY DEF ConnectionsSurvive, Connections
  <2>1. cnxns[c][n] # NoId /\ Survives(c, n)
    BY InConnections DEF SurviveInv
  <2>2. Alone(c, n) /\ <<c, cnxns[c][n]>> \in listeners
    BY <2>1 DEF Survives, Held
  <2> QED
    BY <2>1, <2>2, InWith
<1> QED
  BY <1>1, <1>2, NextSurvives, Shapes, PTL DEF Spec

-----------------------------------------------------------------------------
(***************************************************************************)
(* What the file has of running programs, gconfd has or is going to restore; *)
(* the entry in hand is in the table before it is in the file.               *)
(***************************************************************************)
Backed == \A e \in Logged \cap Pairs : e[1] \in alive => e \in listeners \cup todo

BackInv ==
  failures = 0 /\ pc # "down" =>
    /\ Backed
    /\ pc = "restoring" /\ hand # Nothing /\ hand.id # NoId =>
         <<hand.entry[1], hand.id>> \in listeners
    /\ pc # "restoring" => todo = {}

LEMMA AppendWrites ==
  ASSUME ShapeInv, Counted, failures' = 0, NEW added, NEW removed, NEW missed,
         Append(added, removed, missed), added \subseteq Entries
  PROVE  Logged' = (Logged \ removed) \cup added
<1>1. log' = (Logged \ removed) \cup added
  BY FailingCounts DEF Append
<1>2. (Logged \ removed) \cup added \subseteq Entries
  BY LoggedType DEF ShapeInv
<1>3. log' # NoFile
  BY <1>1, <1>2
<1> QED
  BY <1>1, <1>3 DEF Logged

LEMMA StartBack ==
  ASSUME ShapeInv, Start
  PROVE  BackInv'
BY DEF Start, BackInv, Backed, Logged, files, Nothing

LEMMA RestoreClientBack ==
  ASSUME ShapeInv, Counted, BackInv, NEW c \in Clients, RestoreClient(c), failures = 0, failures' = 0
  PROVE  BackInv'
<1>1. /\ alive' = alive /\ pc' = pc /\ pc = "restoring" /\ listeners' = listeners /\ hand' = hand
      /\ todo' = todo \ {<<c>>}
  BY DEF RestoreClient, programs
<1>2. Logged' = (Logged \ {}) \cup {<<c>>} \/ Logged' = Logged
  <2>1. PICK a : a = {<<c>>}
    OBVIOUS
  <2>2. a \subseteq Entries
    BY <2>1, EntriesAre
  <2>3. CASE c \in alive
    BY <2>1, <2>2, <2>3, AppendWrites DEF RestoreClient
  <2>4. CASE c \notin alive
    BY <2>4 DEF RestoreClient, Logged
  <2> QED
    BY <2>3, <2>4
<1>3. Backed'
  BY <1>1, <1>2, PairsAreNot1 DEF BackInv, Backed
<1> QED
  BY <1>1, <1>3 DEF BackInv, Nothing

LEMMA CancelEntryBack ==
  ASSUME ShapeInv, Counted, BackInv, CancelEntry, failures = 0, failures' = 0
  PROVE  BackInv'
<1>1. PICK e \in todo : /\ hand' = [entry |-> e, id |-> NoId] /\ todo' = todo \ {e}
                        /\ Append({}, {e}, {})
  BY DEF CancelEntry
<1>2. Logged' = Logged \ {e}
  BY <1>1, AppendWrites
<1>3. alive' = alive /\ pc' = pc /\ pc = "restoring" /\ listeners' = listeners
  BY DEF CancelEntry, programs
<1>4. Backed'
  BY <1>1, <1>2, <1>3 DEF BackInv, Backed
<1> QED
  BY <1>1, <1>3, <1>4 DEF BackInv

LEMMA UpdateClientBack ==
  ASSUME ShapeInv, BackInv, UpdateClient, failures = 0
  PROVE  BackInv'
<1>1. PICK c \in Clients, old \in Ids, id \in Ids, n \in AnyName :
           hand.entry = <<c, old>> /\ Renews(c, old, id, n)
  BY UpdateClientIs
<1>2. /\ hand \in HandOf /\ alive' = alive /\ pc' = pc /\ pc = "restoring" /\ log' = log
      /\ todo' = todo /\ listeners' = listeners \cup {<<c, id>>}
      /\ hand' = [hand EXCEPT !.id = id] \/ hand' = Nothing
  BY <1>1 DEF UpdateClient, ShapeInv, GconfdType, Renews, files
<1>3. hand' # Nothing => <<hand'.entry[1], hand'.id>> \in listeners'
  BY <1>1, <1>2 DEF HandOf
<1>4. Backed'
  BY <1>2 DEF BackInv, Backed, Logged
<1> QED
  BY <1>2, <1>3, <1>4 DEF BackInv

LEMMA LogEntryBack ==
  ASSUME ShapeInv, Counted, BackInv, LogEntry, failures = 0, failures' = 0
  PROVE  BackInv'
<1>1. PICK e, T : e = <<hand.entry[1], hand.id>> /\ T = {e}
  OBVIOUS
<1>2. Append(T, {}, With({e})) /\ e \in listeners
  BY <1>1 DEF LogEntry, BackInv
<1>3. T \subseteq Entries
  BY <1>1, <1>2, EntriesAre DEF ShapeInv, GconfdType
<1>4. Logged' = (Logged \ {}) \cup T
  BY <1>2, <1>3, AppendWrites
<1>5. /\ alive' = alive /\ pc' = pc /\ pc = "restoring" /\ listeners' = listeners /\ todo' = todo
      /\ hand' = Nothing
  BY DEF LogEntry, programs
<1>6. Backed'
  BY <1>1, <1>2, <1>4, <1>5 DEF BackInv, Backed
<1> QED
  BY <1>5, <1>6 DEF BackInv

LEMMA AttachBack ==
  ASSUME ShapeInv, Counted, BackInv, NEW c \in Clients, Attach(c), failures = 0, failures' = 0
  PROVE  BackInv'
<1>1. Logged' = (Logged \ {}) \cup {<<c>>} \/ Logged' = Logged
  <2>1. PICK a : a = {<<c>>}
    OBVIOUS
  <2>2. a \subseteq Entries
    BY <2>1, EntriesAre
  <2>3. CASE c \notin table
    BY <2>1, <2>2, <2>3, AppendWrites DEF Attach
  <2>4. CASE c \in table
    BY <2>4 DEF Attach, Logged
  <2> QED
    BY <2>3, <2>4
<1>2. alive' = alive /\ pc' = pc /\ pc = "up" /\ listeners' = listeners /\ todo' = todo
  BY DEF Attach
<1>3. Backed'
  BY <1>1, <1>2, PairsAreNot1 DEF BackInv, Backed
<1> QED
  BY <1>2, <1>3 DEF BackInv

LEMMA AddListenerBack ==
  ASSUME ShapeInv, Counted, BackInv, NEW c \in Clients, NEW n \in Names, AddListener(c, n),
         failures = 0
  PROVE  BackInv'
<1>1. PICK id \in Ids : Adds(c, n, id)
  BY AddListenerIs
<1>2. Logged' \subseteq Logged \cup {<<c, id>>}
  BY <1>1 DEF Adds, Logged
<1>3. /\ alive' = alive /\ pc' = pc /\ pc = "up" /\ todo' = todo
      /\ listeners' = listeners \cup {<<c, id>>}
  BY <1>1 DEF AddListener, Adds
<1>4. Backed'
  BY <1>2, <1>3 DEF BackInv, Backed
<1> QED
  BY <1>3, <1>4 DEF BackInv

LEMMA RemoveListenerBack ==
  ASSUME ShapeInv, Counted, BackInv, NEW c \in Clients, NEW n \in Names, RemoveListener(c, n),
         failures = 0, failures' = 0
  PROVE  BackInv'
<1>1. PICK met : Removes(c, n, met)
  BY RemoveListenerIs
<1>2. Logged' \subseteq Logged \ met
  <2>1. \/ log' = Logged \ met
        \/ log' = log /\ met = {}
        \/ log' = log /\ Logged \ met = log
    BY <1>1 DEF Removes
  <2>2. Logged \ met \subseteq Entries
    BY LoggedType DEF ShapeInv
  <2> QED
    BY <2>1, <2>2 DEF Logged
<1>3. alive' = alive /\ pc' = pc /\ pc = "up" /\ todo' = todo /\ listeners' = listeners \ met
  BY <1>1 DEF RemoveListener, Removes
<1>4. Backed'
  BY <1>2, <1>3 DEF BackInv, Backed
<1> QED
  BY <1>3, <1>4 DEF BackInv

LEMMA CleanupBack ==
  ASSUME ShapeInv, Counted, BackInv, Cleanup, failures = 0, failures' = 0
  PROVE  BackInv'
<1>1. PICK S : S = {<<c>> : c \in table \ alive}
  OBVIOUS
<1>2. Append({}, S, {})
  BY <1>1 DEF Cleanup
<1>3. Logged' \subseteq Logged
  BY <1>2, AppendWrites
<1>4. /\ alive' = alive /\ pc' = "saving" /\ pc = "up" /\ todo' = todo
      /\ listeners' = {l \in listeners : l[1] \in alive}
  BY DEF Cleanup, programs
<1>5. Backed'
  BY <1>3, <1>4 DEF BackInv, Backed
<1> QED
  BY <1>4, <1>5 DEF BackInv

LEMMA MoveIntoBack ==
  ASSUME ShapeInv, Counted, BackInv, MoveInto, failures = 0, failures' = 0
  PROVE  BackInv'
<1>1. log' = tmp /\ tmp # NoFile /\ tmp \cap Pairs \subseteq listeners
  BY FailingCounts DEF MoveInto, ShapeInv, FilesType
<1>2. /\ alive' = alive /\ pc' \in {"up", "down"} /\ pc \in {"written", "aside"}
      /\ todo' = todo /\ listeners' = listeners
  BY DEF MoveInto, programs, AfterSave
<1>3. Backed'
  BY <1>1, <1>2 DEF Backed, Logged
<1> QED
  BY <1>2, <1>3 DEF BackInv

LEMMA QuietBack ==
  ASSUME ShapeInv, Counted, BackInv, failures = 0, failures' = 0,
         \/ Restored \/ ForgetDead \/ WriteTmp \/ MoveAside \/ Crash \/ CleanExit
         \/ \E c \in Clients : ProgramEnds(c)
         \/ UNCHANGED vars
  PROVE  BackInv'
<1>1. alive' \subseteq alive /\ todo' = todo /\ (hand' = hand \/ pc' = "down")
  BY DEF Restored, ForgetDead, WriteTmp, MoveAside, Crash, CleanExit, Ending, ProgramEnds, vars,
         programs, gconfd
<1>2. pc' # "down" => Logged' \subseteq Logged
  BY DEF Restored, ForgetDead, WriteTmp, MoveAside, Crash, CleanExit, Ending, ProgramEnds, vars,
         files, Logged
<1>3. \A l \in listeners : l[1] \in alive' => l \in listeners'
  BY DEF Restored, ForgetDead, WriteTmp, MoveAside, Crash, CleanExit, Ending, ProgramEnds, vars,
         gconfd, programs
<1>4. pc' # "down" => pc # "down" /\ (pc' = pc \/ Restored \/ WriteTmp \/ MoveAside)
  BY DEF ForgetDead, Crash, CleanExit, Ending, ProgramEnds, vars, gconfd, Restored, WriteTmp,
         MoveAside
<1>5. pc' # "down" => Backed'
  BY <1>1, <1>2, <1>3, <1>4 DEF BackInv, Backed
<1>6. pc' \notin {"down", "restoring"} => todo' = {}
  BY <1>1, <1>4 DEF BackInv, Restored, WriteTmp, MoveAside
<1>7. pc' = "restoring" => pc = "restoring" /\ UNCHANGED listeners
  BY DEF Restored, ForgetDead, WriteTmp, MoveAside, AfterSave, Crash, CleanExit, Ending,
         ProgramEnds, vars, gconfd
<1> QED
  BY <1>1, <1>5, <1>6, <1>7 DEF BackInv, Nothing

LEMMA NextBack ==
  ASSUME ShapeInv, Counted, BackInv, [Next]_vars
  PROVE  BackInv'
<1> SUFFICES ASSUME failures' = 0 PROVE BackInv'
  BY DEF BackInv
<1>1. failures = 0
  BY NextFailures
<1> QED
  BY <1>1, StartBack, RestoreClientBack, CancelEntryBack, UpdateClientBack, LogEntryBack,
     AttachBack, AddListenerBack, RemoveListenerBack, CleanupBack, MoveIntoBack, QuietBack
     DEF Next

(***************************************************************************)
(* As long as no system call failed, a gconfd that serves has every listener *)
(* of a running program that the file has: none that was removed is there.   *)
(***************************************************************************)
THEOREM Removed == Spec => []NoneComesBack
<1>1. Init => BackInv
  BY DEF Init, BackInv
<1>2. ShapeInv /\ BackInv => NoneComesBack
  BY DEF ShapeInv, ProgramsType, BackInv, Backed, NoneComesBack, Pairs
<1> QED
  BY <1>1, <1>2, NextBack, Shapes, PTL DEF Spec
=============================================================================
