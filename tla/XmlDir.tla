------------------------------- MODULE XmlDir -------------------------------
(***************************************************************************)
(* The XML backend: backends/xml-cache.c keeps the directories in use, with *)
(* a table of those known not to exist; backends/xml-dir.c has a directory  *)
(* with its entries and the names of its subdirectories, and saves it to    *)
(* %gconf.xml.  Empty directories are deleted.                              *)
(*                                                                          *)
(* Sync takes one step for each change on disk: in between the process may  *)
(* be killed.  The localized parts of schemas are left out.                 *)
(***************************************************************************)
EXTENDS KeySpace

CONSTANTS
    Dir,        \* directories, with the root
    Key,
    Entry,      \* a value, the name of a schema or both
    Nothing,    \* an entry with neither
    NoFile,
    Layouts,    \* files that may be there at the start
    MaxChanges, \* bound: requests that change an entry
    MaxFaults   \* bound: failed accesses to the disk, and crashes

ASSUME XmlAssumption ==
    /\ Root \in Dir /\ Dir \subseteq Path /\ Key \subseteq Path \ {Root}
    /\ \A d \in Dir : Up[d] \subseteq Dir
    /\ \A k \in Key : KeyDirectory(k) \in Dir
    /\ Nothing \notin Entry
    /\ NoFile \notin Dir
    /\ \A ks \in SUBSET Key : NoFile \notin [ks -> Entry \cup {Nothing}]
    /\ MaxChanges \in Nat /\ MaxFaults \in Nat

VARIABLES
    cache,       \* the Dirs in memory
    nonexistent, \* nonexistent_cache
    disk,        \* for each directory its files
    sync,        \* cache_sync in progress
    told,        \* answer of the last sync_all
    changes, faults,
    spoilt,      \* history: keys that a failure on disk lost or brought back
    overlooked   \* history: directories a parent in memory was not told of or did not see

memory == <<cache, nonexistent>>
vars == <<memory, disk, sync, told, changes, faults, spoilt, overlooked>>

-----------------------------------------------------------------------------
Parent == [d \in Dir |-> KeyDirectory(d)]
Children == [d \in Dir |-> {c \in Dir \ {Root} : KeyDirectory(c) = d}]
DirOf == [k \in Key |-> KeyDirectory(k)]
KeysIn == [d \in Dir |-> {k \in Key : DirOf[k] = d}]

\* A directory is there (made) before its files: %gconf.xml, which may be empty, and what a
\* save left behind, %gconf.xml.old and %gconf.xml.tmp.
File(d) == [KeysIn[d] -> Entry \cup {Nothing}] \cup {NoFile}
EmptyFile(d) == [k \in KeysIn[d] |-> Nothing]
NoDir == [made |-> FALSE, file |-> NoFile, old |-> NoFile, tmp |-> FALSE]
Exists(dk, d) == dk[d].file # NoFile

ASSUME LayoutsAssumption ==
    \A dk \in Layouts :
        /\ dk = [d \in Dir |-> dk[d]]
        /\ \A d \in Dir : dk[d] \in [made : BOOLEAN, file : File(d), old : File(d), tmp : BOOLEAN]

\* A Dir without its document has not read its file; listed is ~need_rescan_subdirs.
Absent == [loaded |-> FALSE]
NewDir == [loaded |-> FALSE, listed |-> FALSE, subdirs |-> {}, dirty |-> FALSE, entries |-> <<>>]
In(c, d) == c[d] # Absent

Content(dk, d) == IF Exists(dk, d) THEN dk[d].file ELSE EmptyFile(d)
Entries(c, dk, d) == IF c[d].loaded THEN c[d].entries ELSE Content(dk, d)

\* Memory and disk, with another Dir, or other files, for a directory.
Now == [cache |-> cache, nonexistent |-> nonexistent, disk |-> disk]
Become(s) == cache' = s.cache /\ nonexistent' = s.nonexistent /\ disk' = s.disk
SetDir(s, d, n) == [s EXCEPT !.cache[d] = n]
SetFiles(s, d, f) == [s EXCEPT !.disk[d] = f]

-----------------------------------------------------------------------------
(***************************************************************************)
(* Looking up a directory.                                                  *)
(***************************************************************************)
\* Mutant: the parent is not told.
AddNoChild(n, c) == n

AddChild(n, c) == IF n.listed THEN [n EXCEPT !.subdirs = @ \cup {c}] ELSE n

\* cache_lookup without creating: a directory that is loaded is added to its parent, which is
\* looked up in turn, as far as there is something to load.
Loadable(s, d) == ~In(s.cache, d) /\ d \notin s.nonexistent /\ Exists(s.disk, d)
Lookup(s, d) ==
    LET way == {e \in Up[d] : \A f \in Up[d] : e \in Up[f] => Loadable(s, f)}
        rest == Up[d] \ way
        stop == {e \in rest : rest \subseteq Up[e]}
    IN [s EXCEPT
          !.cache = [e \in Dir |->
              IF e \in way THEN NewDir
              ELSE IF e \in stop /\ In(s.cache, e) /\ way # {}
                   THEN AddChild(s.cache[e], CHOOSE c \in way : Parent[c] = e)
                   ELSE s.cache[e]],
          !.nonexistent = @ \cup {e \in stop : ~In(s.cache, e)}]

\* create_fs_dir: from the first directory above that has a file down to last.
Missing(dk, d) == {e \in Up[d] : \A f \in Up[d] : e \in Up[f] => ~Exists(dk, f)}
CreateFsDir(dk, ds) ==
    [e \in Dir |-> IF e \in ds THEN [dk[e] EXCEPT !.made = TRUE, !.file = EmptyFile(e)] ELSE dk[e]]

UnsetNonexistent(s, d) == [s EXCEPT !.nonexistent = @ \ Up[d]]

\* dir_new, dir_ensure_exists and adding to the parent.
Create(s, d) ==
    LET p == Parent[d]
        made == SetDir([s EXCEPT !.disk = CreateFsDir(@, Missing(@, d))], d, NewDir)
        up == IF d = Root THEN made ELSE Lookup(made, p)
        known == IF d # Root /\ In(up.cache, p) THEN SetDir(up, p, AddChild(up.cache[p], d)) ELSE up
    IN UnsetNonexistent(known, d)

Creates(s, d) == ~In(s.cache, d) /\ (d \in s.nonexistent \/ ~Exists(s.disk, d))
Ensure(s, d) == IF Creates(s, d) THEN Create(s, d) ELSE Lookup(s, d)

\* Directories made on the way to d that no parent is told of: the walk up ends at the first one
\* still thought not to exist, or in memory although its file was gone.
Overlooks(s, d) ==
    LET on == Missing(s.disk, d) \ {d}
        Ends(f) == f \in s.nonexistent \/ In(s.cache, f)
    IN IF Creates(s, d) THEN {e \in on : \E f \in on : e \in Up[f] /\ Ends(f)} ELSE {}

\* dir_load_doc.
Load(s, d) ==
    SetDir(s, d, [s.cache[d] EXCEPT !.entries = Entries(s.cache, s.disk, d), !.loaded = TRUE])
\* dir_rescan_subdirs: subdirectories are those with a file.  When the directory cannot be opened
\* or read through, or a file not be examined, some are missed and it counts as listed all the same.
Found(s, d) == {c \in Children[d] : Exists(s.disk, c)}
Missable(s, d) == IF s.cache[d].listed THEN {{}} ELSE SUBSET Found(s, d)
Rescan(s, d, missed) ==
    LET there == Load(s, d)
    IN IF s.cache[d].listed THEN s
       ELSE SetDir(there, d,
                   [there.cache[d] EXCEPT !.listed = TRUE, !.subdirs = Found(s, d) \ missed])

-----------------------------------------------------------------------------
(***************************************************************************)
(* Requests.                                                                *)
(***************************************************************************)
Faulty(n) == faults + n <= MaxFaults /\ faults' = faults + n
Fault == Faulty(1)
NoFault == UNCHANGED faults
\* A scan that misses something, and what else goes wrong.
Misread(missed, n) == Faulty(n + IF missed = {} THEN 0 ELSE 1)
Free == sync.pc = "idle"
Changing == Free /\ changes < MaxChanges /\ changes' = changes + 1
Settled == UNCHANGED <<sync, told, spoilt>>

\* The entry is forgotten when nothing is left of it.
Change(s, k, e) ==
    LET n == Load(s, DirOf[k]).cache[DirOf[k]]
    IN SetDir(s, DirOf[k], [n EXCEPT !.entries = [@ EXCEPT ![k] = e], !.dirty = TRUE])

\* set_value and set_schema; with no schema as well, the directory is made first.
SetEntry(k) ==
    /\ Changing
    /\ \E e \in Entry \cup {Nothing} :
         LET there == Ensure(Now, DirOf[k])
         IN /\ Become(Change(there, k, e))
            /\ overlooked' = overlooked \cup Overlooks(Now, DirOf[k])
    /\ NoFault /\ Settled

\* mkdir or the creation of a file fails on the way down.
SetFails(k) ==
    /\ Changing /\ Creates(Now, DirOf[k]) /\ Fault
    /\ \E ds \in SUBSET Missing(disk, DirOf[k]) \ {Missing(disk, DirOf[k])} :
         /\ \A e \in ds : Up[e] \cap Missing(disk, DirOf[k]) \subseteq ds
         /\ disk' = CreateFsDir(disk, ds)
         /\ overlooked' = overlooked \cup ds
    /\ UNCHANGED memory /\ Settled

\* An entry may keep the name of its schema.
UnsetEntry(k) ==
    /\ Changing
    /\ LET d == DirOf[k]
           there == Lookup(Now, d)
       IN IF ~In(there.cache, d) THEN Become(there)
          ELSE IF Load(there, d).cache[d].entries[k] = Nothing THEN Become(Load(there, d))
          ELSE \E e \in Entry \cup {Nothing} : Become(Change(there, k, e))
    /\ NoFault /\ Settled /\ UNCHANGED overlooked

\* query_value, query_metainfo, all_entries and (without reading) dir_exists.
Query(d) ==
    /\ Free
    /\ LET there == Lookup(Now, d)
       IN \/ Become(there)
          \/ In(there.cache, d) /\ Become(Load(there, d))
    /\ memory' # memory
    /\ NoFault /\ Settled /\ UNCHANGED <<changes, overlooked>>

\* cache_clean after some time, or at once for clear_cache: what needs no saving goes.
Clean(ds) ==
    /\ Free
    /\ \A d \in ds : In(cache, d) /\ ~cache[d].dirty
    /\ cache' = [d \in Dir |-> IF d \in ds THEN Absent ELSE cache[d]]
    /\ overlooked' = overlooked \ {c \in Dir : Parent[c] \in ds /\ Exists(disk, c)}
    /\ UNCHANGED <<nonexistent, disk, changes, faults>> /\ Settled

-----------------------------------------------------------------------------
(***************************************************************************)
(* cache_sync: dir_sync for each directory, those below first.              *)
(***************************************************************************)
Idle == [pc |-> "idle", todo |-> {}, dir |-> Root, failed |-> FALSE, deletedSome |-> FALSE,
         oldExisted |-> FALSE, list |-> NoFile]
AllCached == {d \in Dir : In(cache, d)}

Start(what) ==
    /\ Free
    /\ sync' = [Idle EXCEPT !.pc = "dir", !.todo = AllCached, !.list = what]
    /\ told' = "none"
    /\ UNCHANGED <<memory, disk, changes, faults, spoilt, overlooked>>

SyncAll == Start(NoFile)
\* all_subdirs saves first, to see which subdirectories have gone away.
AllSubdirs(d) == Start(d)

\* dircmp: a directory comes after those below it.
Due == {d \in sync.todo : \A e \in sync.todo : d \in Up[e] => e = d}
At(pc) == sync.pc = pc
This == sync.dir
Done(d) == [sync EXCEPT !.pc = "dir", !.todo = @ \ {d}, !.dir = Root, !.oldExisted = FALSE]
Failed(d) == [Done(d) EXCEPT !.failed = TRUE]
Goto(pc) == sync' = [sync EXCEPT !.pc = pc]
Go(pc, d) == sync' = [sync EXCEPT !.pc = pc, !.dir = d]

\* dir_useless; unless its file can be read a directory seems to be empty.
Examined(d, missed) == Rescan(Load(Now, d), d, missed)
Useless(n) == n.subdirs = {} /\ \A k \in DOMAIN n.entries : n.entries[k] = Nothing

SyncClean(d) ==
    /\ At("dir") /\ d \in Due /\ ~cache[d].dirty
    /\ sync' = Done(d)
    /\ UNCHANGED <<memory, disk, told, changes, faults, spoilt, overlooked>>

\* Get rid of the directory and tell its parent, which is made again if need be.
ForgetDir(s, d) ==
    LET p == Parent[d]
        there == Ensure(s, p)
        told2 == IF d = Root THEN there
                 ELSE SetDir(there, p, [there.cache[p] EXCEPT !.dirty = TRUE, !.subdirs = @ \ {d}])
    IN [SetDir(told2, d, Absent) EXCEPT !.nonexistent = @ \cup {d}]

Deleted(d) == [Done(d) EXCEPT !.deletedSome = TRUE]

\* The root directory itself stays.
Unlinked(s, d) ==
    LET gone == SetFiles(s, d, [s.disk[d] EXCEPT !.file = NoFile])
    IN IF d = Root
       THEN Become(ForgetDir(gone, d)) /\ sync' = Deleted(d)
       ELSE Become(gone) /\ Go("rmdir", d)

\* Delete the file of a directory that seems useless.
SyncUnlink(d) ==
    /\ At("dir") /\ d \in Due /\ cache[d].dirty /\ Exists(disk, d)
    /\ \/ \E missed \in Missable(Now, d) :
            /\ Useless(Examined(d, missed).cache[d])
            /\ Unlinked(Examined(d, missed), d)
            /\ overlooked' = overlooked \cup missed
            /\ Misread(missed, 0) /\ UNCHANGED spoilt
       \/ /\ ~cache[d].loaded                                    \* could not be read
          /\ Unlinked(Now, d)
          /\ spoilt' = spoilt \cup {k \in KeysIn[d] : disk[d].file[k] # Nothing}
          /\ Fault /\ UNCHANGED overlooked
    /\ UNCHANGED <<told, changes>>

SyncUnlinkFails(d) ==
    /\ At("dir") /\ d \in Due /\ cache[d].dirty
    /\ \E missed \in Missable(Now, d) :
         /\ Useless(Examined(d, missed).cache[d])
         /\ Become(Examined(d, missed))
         /\ overlooked' = overlooked \cup missed
         /\ Misread(missed, IF Exists(disk, d) THEN 1 ELSE 0)
    /\ sync' = Failed(d)
    /\ UNCHANGED <<told, changes, spoilt>>

\* What else is in the directory keeps it.
Cruft(d) == disk[d].old # NoFile \/ disk[d].tmp \/ \E c \in Children[d] : disk[c].made

SyncRmdir ==
    /\ At("rmdir")
    /\ LET d == This
       IN \/ /\ ~Cruft(d) /\ NoFault
             /\ LET s == SetFiles(Now, d, NoDir)
                IN /\ Become(ForgetDir(s, d))
                   /\ overlooked' = (overlooked \ {d}) \cup Overlooks(s, Parent[d])
             /\ sync' = Deleted(d)
          \/ /\ IF Cruft(d) THEN NoFault ELSE Fault
             /\ Become(Now) /\ sync' = Failed(d)
             /\ overlooked' = overlooked \cup {d}
    /\ UNCHANGED <<told, changes, spoilt>>

\* Write a second file.
SyncWrite(d) ==
    /\ At("dir") /\ d \in Due /\ cache[d].dirty
    /\ \E missed \in Missable(Now, d) :
         /\ ~Useless(Examined(d, missed).cache[d])
         /\ overlooked' = overlooked \cup missed
         /\ \/ /\ Become(SetFiles(Examined(d, missed), d, [disk[d] EXCEPT !.tmp = TRUE]))
               /\ Misread(missed, 0) /\ Go("aside", d)
            \/ /\ \E left \in {TRUE, disk[d].tmp} :
                     Become(SetFiles(Examined(d, missed), d, [disk[d] EXCEPT !.tmp = left]))
               /\ Misread(missed, 1) /\ sync' = Failed(d)
    /\ UNCHANGED <<told, changes, spoilt>>

\* Move the file aside, if there is one.
SyncAside ==
    /\ At("aside")
    /\ LET d == This
       IN IF ~Exists(disk, d)
          THEN Goto("into") /\ Become(Now) /\ NoFault
          ELSE \/ /\ Become(SetFiles(Now, d, [disk[d] EXCEPT !.old = disk[d].file, !.file = NoFile]))
                  /\ sync' = [sync EXCEPT !.pc = "into", !.oldExisted = TRUE] /\ NoFault
               \/ sync' = Failed(d) /\ Become(Now) /\ Fault
    /\ UNCHANGED <<told, changes, spoilt, overlooked>>

Saving(d) == SetFiles(Now, d, [disk[d] EXCEPT !.file = cache[d].entries, !.tmp = FALSE])
NotDirty(s, d) == SetDir(s, d, [s.cache[d] EXCEPT !.dirty = FALSE])

\* Mutant: nothing is put back.
NotRestored(d) == Now

\* "Put the original file back, so this isn't a total disaster."
Restored(d) == SetFiles(Now, d, [disk[d] EXCEPT !.file = disk[d].old, !.old = NoFile])

SyncInto ==
    /\ At("into")
    /\ LET d == This
       IN \/ /\ IF sync.oldExisted
                THEN Become(Saving(d)) /\ Goto("drop")
                ELSE Become(NotDirty(Saving(d), d)) /\ sync' = Done(d)
             /\ NoFault /\ UNCHANGED <<spoilt, overlooked>>
          \/ /\ Become(Restored(d)) /\ sync' = Failed(d)
             /\ spoilt' = spoilt \cup IF sync.oldExisted THEN {} ELSE KeysIn[d]
             /\ Fault /\ UNCHANGED overlooked
          \/ /\ Become(Now) /\ sync' = Failed(d)
             /\ spoilt' = spoilt \cup KeysIn[d] /\ overlooked' = overlooked \cup {d}
             /\ Faulty(2)
    /\ UNCHANGED <<told, changes>>

\* If the file moved aside cannot be deleted it is left there.
SyncDrop ==
    /\ At("drop")
    /\ LET d == This
       IN /\ \/ Become(NotDirty(SetFiles(Now, d, [disk[d] EXCEPT !.old = NoFile]), d)) /\ NoFault
             \/ Become(NotDirty(Now, d)) /\ Fault
          /\ sync' = Done(d)
    /\ UNCHANGED <<told, changes, spoilt, overlooked>>

\* A pass that deleted something is followed by another.
Again == ~sync.failed /\ sync.deletedSome

\* The rest of all_subdirs.
AnswerSubdirs(d) ==
    LET there == Lookup(Now, d)
    IN IF In(there.cache, d)
       THEN \E missed \in Missable(there, d) :
              /\ Become(Rescan(there, d, missed))
              /\ overlooked' = overlooked \cup missed
              /\ Misread(missed, 0)
       ELSE Become(there) /\ UNCHANGED overlooked /\ NoFault

SyncEnd ==
    /\ At("dir") /\ sync.todo = {}
    /\ IF Again
       THEN /\ sync' = [sync EXCEPT !.todo = AllCached, !.deletedSome = FALSE]
            /\ UNCHANGED <<memory, disk, told, overlooked>> /\ NoFault
       ELSE /\ sync' = Idle
            /\ IF sync.list = NoFile
               THEN /\ told' = (IF sync.failed THEN "failed" ELSE "saved")
                    /\ UNCHANGED <<memory, disk, overlooked>> /\ NoFault
               ELSE AnswerSubdirs(sync.list) /\ UNCHANGED told
    /\ UNCHANGED <<changes, spoilt>>

-----------------------------------------------------------------------------
\* destroy_source drops the cache; a kill may come at any time.  In between the two renames the
\* directory is left without its file.
Restart ==
    /\ \/ Free /\ NoFault
       \/ Fault
    /\ cache' = [d \in Dir |-> Absent] /\ nonexistent' = {} /\ sync' = Idle /\ told' = "none"
    /\ spoilt' = spoilt \cup IF At("into") /\ sync.oldExisted
                            THEN {k \in KeysIn[This] : disk[This].old[k] # Nothing} ELSE {}
    /\ overlooked' = {}
    /\ UNCHANGED <<disk, changes>>

Init ==
    /\ cache = [d \in Dir |-> Absent] /\ nonexistent = {}
    /\ disk \in Layouts
    /\ sync = Idle /\ told = "none"
    /\ changes = 0 /\ faults = 0 /\ spoilt = {} /\ overlooked = {}

Next ==
    \/ \E k \in Key : SetEntry(k)
    \/ \E k \in Key : SetFails(k)
    \/ \E k \in Key : UnsetEntry(k)
    \/ \E d \in Dir : Query(d)
    \/ \E ds \in SUBSET Dir \ {{}} : Clean(ds)
    \/ SyncAll
    \/ \E d \in Dir : AllSubdirs(d)
    \/ \E d \in Dir : SyncClean(d)
    \/ \E d \in Dir : SyncUnlink(d)
    \/ \E d \in Dir : SyncUnlinkFails(d)
    \/ SyncRmdir
    \/ \E d \in Dir : SyncWrite(d)
    \/ SyncAside
    \/ SyncInto
    \/ SyncDrop
    \/ SyncEnd
    \/ Restart

Spec == Init /\ [][Next]_vars

-----------------------------------------------------------------------------
(***************************************************************************)
(* Properties.                                                              *)
(***************************************************************************)
\* What query_value answers, and what a new process would: while a file is aside it can still
\* be put back.
Mem == [k \in Key |->
    LET d == DirOf[k]
    IN IF In(cache, d) THEN Entries(cache, disk, d)[k]
       ELSE IF d \in nonexistent THEN Nothing ELSE Content(disk, d)[k]]
Saved == [k \in Key |->
    LET d == DirOf[k]
    IN IF sync.pc = "into" /\ d = This /\ sync.oldExisted THEN disk[d].old[k] ELSE Content(disk, d)[k]]

\* Every variable has its shape; a file is in a directory that was made, below one that was
\* made; what is in memory is not in the table of the nonexistent.
TypeOK ==
    /\ \A d \in Dir :
        /\ In(cache, d) =>
             /\ IF cache[d].loaded THEN cache[d].entries \in File(d) ELSE cache[d].entries = <<>>
             /\ cache[d].listed \in BOOLEAN /\ cache[d].dirty \in BOOLEAN
             /\ cache[d].subdirs \subseteq Children[d]
             /\ disk[d].made /\ d \notin nonexistent
        /\ disk[d].file \in File(d) /\ disk[d].old \in File(d)
        /\ disk[d].file # NoFile \/ disk[d].old # NoFile \/ disk[d].tmp => disk[d].made
        /\ disk[d].made => disk[Parent[d]].made
    /\ nonexistent \subseteq Dir
    /\ sync.pc \in {"idle", "dir", "rmdir", "aside", "into", "drop"}
    /\ \A d \in sync.todo \cup IF At("idle") \/ At("dir") THEN {} ELSE {This} : In(cache, d)
    /\ told \in {"none", "saved", "failed"}
    /\ changes \in 0..MaxChanges /\ faults \in 0..MaxFaults
    /\ spoilt \subseteq Key /\ overlooked \subseteq Dir

Promise == INSTANCE PersistentStore WITH mem <- Mem, saved <- Saved
\* What cache_sync and the renames in dir_sync promise: saved is the old or the new entry,
\* success means saved, a new process reads what was saved.
KeepsPromise == Promise!Spec

\* The names of subdirectories that all_subdirs answers from memory are those with a file, but for
\* directories the parent was not told of (cache_add_to_parent, cache_remove_from_parent) or did
\* not see when it was read (dir_rescan_subdirs).
ListingIsTrue ==
    Free => \A d \in Dir : In(cache, d) /\ cache[d].listed =>
        \A c \in Children[d] \ overlooked : c \in cache[d].subdirs <=> Exists(disk, c)
=============================================================================
