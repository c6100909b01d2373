----------------------------- MODULE MarkupTree -----------------------------
(***************************************************************************)
(* backends/markup-tree.c behind backends/markup-backend.c: a tree of       *)
(* directories read from disk as far as it is asked for, with flags that    *)
(* say what is to be saved.  A directory is saved to its own %gconf.xml, or  *)
(* the whole subtree below it to one %gconf-tree.xml; either is written to   *)
(* a second file ".new", which is then renamed.                             *)
(*                                                                          *)
(* Sync takes one step for each access to the disk: in between the process  *)
(* may be killed.  Localized descriptions are in MarkupLocales.              *)
(***************************************************************************)
EXTENDS KeySpace, Sequences, SequencesExt

CONSTANTS
    Dir,        \* directories, with the root
    Key,
    Entry,      \* a value, the name of a schema or both
    Nothing,    \* an entry with neither
    NoFile,
    Layouts,    \* files that may be there at the start
    MaxChanges, \* bound: requests that change an entry
    MaxFaults   \* bound: failed accesses to the disk, and crashes

ASSUME MarkupAssumption ==
    /\ Root \in Dir /\ Dir \subseteq Path /\ Key \subseteq Path \ {Root}
    /\ \A d \in Dir : Up[d] \subseteq Dir
    /\ \A k \in Key : KeyDirectory(k) \in Dir
    /\ Nothing \notin Entry
    /\ MaxChanges \in Nat /\ MaxFaults \in Nat

VARIABLES
    node,       \* the MarkupDirs in memory
    merged,     \* flag "merged" of the address
    disk,       \* for each directory its files
    frames,     \* activations of markup_dir_sync, the innermost first
    purpose,    \* what the sync is for: "idle", "sync" or "clear" (clear_cache)
    told,       \* answer of the last sync
    changes, faults,
    spoilt      \* history: keys a stale file or a failed deletion brings back

memory == <<node, merged>>
sync == <<frames, purpose, told>>
vars == <<memory, disk, sync, changes, faults, spoilt>>

-----------------------------------------------------------------------------
\* What a file says: for %gconf-tree.xml also which directories it holds.
Empty == [dirs |-> {}, entries |-> <<>>]
Entries == UNION {[ks -> Entry \cup {Nothing}] : ks \in SUBSET Key}
Content == [dirs : SUBSET Dir, entries : Entries]
File == Content \cup {NoFile}

\* A MarkupDir without one is absent.
Absent == [entriesLoaded |-> FALSE]
NewDir == [entriesLoaded |-> FALSE, subdirsLoaded |-> FALSE,
           entriesNeedSave |-> FALSE, someSubdirNeedsSync |-> FALSE,
           notInFilesystem |-> FALSE, saveAsSubtree |-> FALSE, entries |-> <<>>]
LoadedDir == [NewDir EXCEPT !.entriesLoaded = TRUE, !.subdirsLoaded = TRUE]

Parent == [d \in Dir |-> KeyDirectory(d)]
Children == [d \in Dir |-> {c \in Dir \ {Root} : KeyDirectory(c) = d}]
Above == [d \in Dir |-> Up[d] \ {d}]
Below == [d \in Dir |-> {c \in Dir : d \in Above[c]}]
DirOf == [k \in Key |-> KeyDirectory(k)]
KeysIn == [d \in Dir |-> {k \in Key : DirOf[k] = d}]
TopDown == SetToSortSeq(Dir, LAMBDA d, e : d \in Above[e])
Walk(step(_, _), ns, ds) == FoldLeft(LAMBDA acc, d : IF d \in ds THEN step(acc, d) ELSE acc, ns, TopDown)

Has(ns, d) == ns[d] # Absent
Present(ns, ds) == {d \in ds : Has(ns, d)}
NeedsSync(n) == n.entriesNeedSave \/ n.someSubdirNeedsSync

-----------------------------------------------------------------------------
(***************************************************************************)
(* Reading.                                                                 *)
(***************************************************************************)
HasFile(dk, d, kind) == dk[d][kind] # NoFile
Listed(dk, d) == HasFile(dk, d, "plain") \/ HasFile(dk, d, "tree")

\* The elements of a file become nodes; the dirs of a tree file are loaded.
ParseTree(ns, d, c) ==
    [e \in Dir |->
        IF e = d THEN [ns[d] EXCEPT !.entries = Restrict(c.entries, KeysIn[d] \cap DOMAIN c.entries)]
        ELSE IF e \in c.dirs
             THEN [LoadedDir EXCEPT !.notInFilesystem = TRUE,
                                    !.entries = Restrict(c.entries, KeysIn[e] \cap DOMAIN c.entries)]
             ELSE ns[e]]

LoadSubtree(ns, dk, d) ==
    ParseTree([ns EXCEPT ![d] = [@ EXCEPT !.entriesLoaded = TRUE, !.subdirsLoaded = TRUE,
                                          !.saveAsSubtree = TRUE]],
              d, dk[d].tree)

LoadEntries(ns, dk, d) ==
    IF ns[d].entriesLoaded THEN ns
    ELSE IF HasFile(dk, d, "tree") THEN LoadSubtree(ns, dk, d)
    ELSE LET marked == [ns EXCEPT ![d].entriesLoaded = TRUE]
         IN IF HasFile(dk, d, "plain") THEN ParseTree(marked, d, dk[d].plain) ELSE marked

\* A directory on disk counts when it has one of the two files.
LoadSubdirs(ns, dk, d) ==
    IF ns[d].subdirsLoaded THEN ns
    ELSE IF HasFile(dk, d, "tree") THEN LoadSubtree(ns, dk, d)
    ELSE [e \in Dir |->
            IF e = d THEN [ns[d] EXCEPT !.subdirsLoaded = TRUE]
            ELSE IF e \in Children[d] /\ Listed(dk, e)
            THEN NewDir
            ELSE ns[e]]

\* recursively_load_subtree, but for the flag it sets.
LoadBelow(ns, dk, d) ==
    Walk(LAMBDA acc, e : IF Has(acc, e) THEN LoadSubdirs(LoadEntries(acc, dk, e), dk, e) ELSE acc,
         ns, {d} \cup Below[d])

\* markup_tree_lookup_dir; the dir is there afterwards or not.
LookupDir(ns, dk, d) ==
    Walk(LAMBDA acc, e : IF Has(acc, e) THEN LoadSubdirs(acc, dk, e) ELSE acc, ns, Above[d])

(***************************************************************************)
(* What a query answers, however much is in memory: the lowest node above    *)
(* the key decides, and below it the files, a tree file before all others.   *)
(***************************************************************************)
In(es, k) == IF k \in DOMAIN es THEN es[k] ELSE Nothing
Lowest(ds) == CHOOSE d \in ds : ds \subseteq Up[d]
Highest(ds) == CHOOSE d \in ds : ds \cap Above[d] = {}

OnDisk(dk, k, from) ==
    LET way == {d \in Up[DirOf[k]] : from \in Up[d]}
        trees == {d \in way : HasFile(dk, d, "tree")}
        AllListed(ds) == \A d \in ds \ {from} : Listed(dk, d)
    IN IF trees # {}
       THEN LET t == Highest(trees)
            IN IF AllListed(way \cap Up[t]) THEN In(dk[t].tree.entries, k) ELSE Nothing
       ELSE IF AllListed(way) /\ HasFile(dk, DirOf[k], "plain")
       THEN In(dk[DirOf[k]].plain.entries, k) ELSE Nothing

Contents(ns, dk) ==
    [k \in Key |->
        LET e == Lowest(Present(ns, Up[DirOf[k]]))
            loaded == IF e = DirOf[k] THEN ns[e].entriesLoaded ELSE ns[e].subdirsLoaded
        IN IF ~loaded THEN OnDisk(dk, k, e)
           ELSE IF e = DirOf[k] THEN In(ns[e].entries, k) ELSE Nothing]
NewTree == [d \in Dir |-> IF d = Root THEN NewDir ELSE Absent]
Mem == Contents(node, disk)
Saved == Contents(NewTree, disk)

-----------------------------------------------------------------------------
(***************************************************************************)
(* Changing.                                                                *)
(***************************************************************************)
\* Up from d over the directories that are not in the file system.
SetEntriesNeedSave(ns, d) ==
    LET reached == {e \in Up[d] : \A f \in Up[d] : e \in Above[f] => ns[f].notInFilesystem}
    IN [e \in Dir |-> IF e \in reached THEN [ns[e] EXCEPT !.entriesNeedSave = TRUE] ELSE ns[e]]

\* Mutant: only the parent hears of it.
QueueSyncParent(ns, d) ==
    IF d = Root THEN ns ELSE [ns EXCEPT ![Parent[d]].someSubdirNeedsSync = TRUE]

QueueSync(ns, d) ==
    [e \in Dir |-> IF e \in Above[d] THEN [ns[e] EXCEPT !.someSubdirNeedsSync = TRUE] ELSE ns[e]]

EnsureSubdir(ns, dk, c) ==
    LET there == LoadSubdirs(ns, dk, Parent[c])
    IN IF Has(there, c) THEN there
       ELSE [there EXCEPT ![c] = [LoadedDir EXCEPT !.entriesNeedSave = TRUE]]

EnsureDir(ns, dk, d) ==
    Walk(LAMBDA acc, e : EnsureSubdir(acc, dk, e), ns, Up[d] \ {Root})

NeedSave(ns, d) == QueueSync(SetEntriesNeedSave(ns, d), d)

EnsureEntry(ns, dk, k) ==
    LET d == DirOf[k]
        there == LoadEntries(EnsureDir(ns, dk, d), dk, d)
    IN IF k \in DOMAIN there[d].entries THEN there
       ELSE NeedSave([there EXCEPT ![d].entries = @ @@ (k :> Nothing)], d)

Free == frames = <<>>

Store(k, e) ==
    LET d == DirOf[k]
    IN node' = NeedSave([EnsureEntry(node, disk, k) EXCEPT ![d].entries[k] = e], d)

Changing ==
    /\ Free /\ changes < MaxChanges
    /\ changes' = changes + 1
    /\ UNCHANGED <<merged, disk, sync, faults, spoilt>>

\* set_value and set_schema; what the entry has besides stays.
SetEntry(k) ==
    /\ Changing
    /\ \E e \in Entry : Store(k, e)

\* unset_value and set_schema without a schema; unset_value makes the entry.
UnsetEntry(k) ==
    /\ Changing
    /\ \/ Store(k, Nothing)
       \/ /\ Mem[k] = Nothing
          /\ node' = EnsureEntry(node, disk, k)

\* query_value, all_entries, all_subdirs and dir_exists only read.
Query(d) ==
    /\ Free
    /\ LET there == LookupDir(node, disk, d)
       IN node' = IF Has(there, d) THEN LoadEntries(there, disk, d) ELSE there
    /\ node' # node
    /\ UNCHANGED <<merged, disk, sync, changes, faults, spoilt>>

AllSubdirs(d) ==
    /\ Free
    /\ LET there == LookupDir(node, disk, d)
       IN node' = IF Has(there, d) THEN LoadSubdirs(there, disk, d) ELSE there
    /\ node' # node
    /\ UNCHANGED <<merged, disk, sync, changes, faults, spoilt>>

-----------------------------------------------------------------------------
(***************************************************************************)
(* Saving.                                                                  *)
(***************************************************************************)
Top == Head(frames)
Step(pc) == frames # <<>> /\ Top.pc = pc
Frame(d) == [dir |-> d, pc |-> "enter", entriesGone |-> FALSE, subdirsGone |-> FALSE,
             failed |-> FALSE, todo |-> {}]
Goto(pc) == frames' = <<[Top EXCEPT !.pc = pc]>> \o Tail(frames)

\* Mutant: it does so without reading it.
MergingUnread(ns, d) == [ns EXCEPT ![d].saveAsSubtree = @ \/ merged]

\* A sync does not go below a directory whose file has all that is below, so the test of
\* not_in_filesystem at the start of markup_dir_sync never holds (see TypeOK).
\* With "merged" a directory takes in what is below it before it is saved.
Merging(ns, d) ==
    IF ~merged \/ ns[d].saveAsSubtree THEN ns
    ELSE LET all == LoadBelow([ns EXCEPT ![d].saveAsSubtree = TRUE], disk, d)
         IN [e \in Dir |-> IF e \in Present(all, Below[d])
                           THEN [all[e] EXCEPT !.notInFilesystem = TRUE] ELSE all[e]]

MustSave(n) == n.entriesNeedSave \/ (n.someSubdirNeedsSync /\ n.saveAsSubtree)

\* The directories that go to the file of d.
SavedWith(ns, d) == {d} \cup IF ns[d].saveAsSubtree THEN Present(ns, Below[d]) ELSE {}

Useful(es) == Restrict(es, {k \in DOMAIN es : es[k] # Nothing})
DeleteUselessEntries(ns, ds) ==
    [e \in Dir |-> IF e \in ds THEN [ns[e] EXCEPT !.entries = Useful(@)] ELSE ns[e]]

EntriesOf(ns, ds) ==
    [k \in UNION {DOMAIN ns[e].entries : e \in ds} |-> ns[DirOf[k]].entries[k]]
Written(ns, d) == [dirs |-> SavedWith(ns, d) \ {d}, entries |-> EntriesOf(ns, SavedWith(ns, d))]
KindOf(n) == IF n.saveAsSubtree THEN "tree" ELSE "plain"
NewOf(kind) == IF kind = "tree" THEN "treeNew" ELSE "plainNew"

\* write_dir notes for each directory it comes to that the file holds it.
TakenIn(ns, ds) ==
    [e \in Dir |-> IF e \in ds THEN [ns[e] EXCEPT !.notInFilesystem = TRUE] ELSE ns[e]]

Fault == faults < MaxFaults /\ faults' = faults + 1
NoFault == UNCHANGED faults

SyncSave ==
    /\ Step("enter")
    /\ LET d == Top.dir
           taken == Merging(node, d)
           ns == DeleteUselessEntries(taken, SavedWith(taken, d))
           c == Written(ns, d)
           f == NewOf(KindOf(ns[d]))
           gone == ns # taken
           Proceed(pc) == frames' = <<[Top EXCEPT !.pc = pc, !.entriesGone = gone]>> \o Tail(frames)
       IN /\ MustSave(taken[d])
          /\ \/ /\ NoFault                                    \* an empty file is not even truncated
                /\ disk' = [disk EXCEPT ![d][f] = IF c = Empty /\ @ # NoFile THEN @ ELSE c]
                /\ node' = TakenIn(ns, c.dirs)
                /\ Proceed("rename")
             \/ /\ Fault                                      \* mkdir or open fails
                /\ node' = ns
                /\ UNCHANGED disk
                /\ Proceed("subdirs")
             \/ /\ Fault /\ c # Empty                         \* a write fails
                /\ \E ds \in SUBSET c.dirs, ks \in SUBSET DOMAIN c.entries :
                      /\ \A e \in ds : Above[e] \cap c.dirs \subseteq ds
                      /\ \A k \in ks : DirOf[k] \in ds \cup {d}
                      /\ node' = TakenIn(ns, ds)
                      /\ disk' = [disk EXCEPT ![d][f] =
                                     [dirs |-> ds, entries |-> Restrict(c.entries, ks)]]
                /\ Proceed("subdirs")
    /\ UNCHANGED <<merged, purpose, told, changes, spoilt>>

\* A second file left behind takes the place of an empty one; the first file of a directory
\* makes files below it count that earlier failures left there.
KeysBelow(d) == {k \in Key : d \in Above[DirOf[k]]}
Stale(d, kind) ==
    {k \in KeysIn[d] \cup IF kind = "tree" THEN KeysBelow(d) ELSE {} :
        In(disk[d][NewOf(kind)].entries, k) # Mem[k]}
Orphans(d) == {k \in KeysBelow(d) : Saved'[k] \notin {Nothing, Mem[k]}}

SyncRename ==
    /\ Step("rename")
    /\ LET d == Top.dir
           kind == KindOf(node[d])
           f == NewOf(kind)
       IN \/ /\ NoFault
             /\ disk' = [disk EXCEPT ![d][kind] = disk[d][f], ![d][f] = NoFile]
             /\ node' = [node EXCEPT ![d].entriesNeedSave = FALSE,
                                     ![d].someSubdirNeedsSync = @ /\ kind = "plain"]
             /\ spoilt' = spoilt \cup Stale(d, kind) \cup
                              IF Listed(disk, d) THEN {} ELSE Orphans(d)
          \/ /\ Fault
             /\ UNCHANGED <<disk, node, spoilt>>
    /\ Goto("subdirs")
    /\ UNCHANGED <<merged, purpose, told, changes>>

SyncNothingToSave ==
    /\ Step("enter")
    /\ node' = Merging(node, Top.dir)
    /\ ~MustSave(node'[Top.dir])
    /\ Goto("subdirs")
    /\ UNCHANGED <<merged, disk, purpose, told, changes, faults, spoilt>>

Recurses(n) == n.someSubdirNeedsSync /\ ~n.saveAsSubtree

SyncSubdirs ==
    /\ Step("subdirs")
    /\ LET d == Top.dir
           todo == {c \in Present(node, Children[d]) : NeedsSync(node[c])}
       IN frames' = IF Recurses(node[d])
                    THEN <<[Top EXCEPT !.pc = "recurse", !.todo = todo]>> \o Tail(frames)
                    ELSE <<[Top EXCEPT !.pc = "tidy"]>> \o Tail(frames)
    /\ UNCHANGED <<memory, disk, purpose, told, changes, faults, spoilt>>

SyncRecurse ==
    /\ Step("recurse")
    /\ IF Top.todo = {}
       THEN /\ node' = [node EXCEPT ![Top.dir].someSubdirNeedsSync = @ /\ Top.failed]
            /\ Goto("tidy")
       ELSE /\ \E c \in Top.todo :
                  frames' = <<Frame(c), [Top EXCEPT !.todo = @ \ {c}]>> \o Tail(frames)
            /\ UNCHANGED node
    /\ UNCHANGED <<merged, disk, purpose, told, changes, faults, spoilt>>

Useless(ns, c) ==
    /\ ns[c].entriesLoaded /\ ns[c].entries = <<>>
    /\ ns[c].subdirsLoaded /\ Present(ns, Children[c]) = {}

Candidates(d) ==
    {c \in Present(node, IF node[d].saveAsSubtree THEN Below[d] ELSE Children[d]) : Useless(node, c)}

\* The node goes, whether its file can be removed or not.
DeleteUselessSubdir ==
    /\ Step("tidy")
    /\ \E c \in Candidates(Top.dir) :
          LET kind == KindOf(node[c])
          IN /\ node' = [node EXCEPT ![c] = Absent]
             /\ \/ /\ NoFault
                   /\ disk' = IF node[c].notInFilesystem THEN disk
                              ELSE [disk EXCEPT ![c][kind] = NoFile]
                   /\ UNCHANGED spoilt
                \/ /\ Fault /\ ~node[c].notInFilesystem /\ HasFile(disk, c, kind)
                   /\ spoilt' = spoilt \cup {k \in Key : c \in Up[k] /\ Saved[k] # Mem[k]}
                   /\ UNCHANGED disk
    /\ frames' = <<[Top EXCEPT !.subdirsGone = TRUE]>> \o Tail(frames)
    /\ UNCHANGED <<merged, purpose, told, changes>>

\* The end of markup_dir_sync with its answer ok.
Return(ok) ==
    IF Len(frames) > 1
    THEN /\ frames' = <<[frames[2] EXCEPT !.failed = @ \/ ~ok]>> \o Tail(Tail(frames))
         /\ UNCHANGED <<purpose, told>>
    ELSE /\ frames' = <<>>
         /\ told' = IF purpose = "sync" THEN IF ok THEN "saved" ELSE "failed" ELSE told
         /\ purpose' = IF purpose = "clear" /\ ok THEN "rebuild" ELSE "idle"

\* What was deleted may have been all that kept d: read the rest of it.
SyncReturn ==
    /\ Step("tidy") /\ Candidates(Top.dir) = {}
    /\ LET d == Top.dir
           ns == IF Top.entriesGone THEN LoadSubdirs(node, disk, d) ELSE node
       IN node' = IF Top.subdirsGone THEN LoadEntries(ns, disk, d) ELSE ns
    /\ Return(~NeedsSync(node'[Top.dir]))
    /\ UNCHANGED <<merged, disk, changes, faults, spoilt>>

\* sync_all, or the sync that clear_cache starts with.
Sync(p) ==
    /\ Free /\ purpose = "idle"
    /\ IF NeedsSync(node[Root])
       THEN frames' = <<Frame(Root)>> /\ purpose' = p /\ told' = "none"
       ELSE /\ UNCHANGED frames
            /\ purpose' = IF p = "clear" THEN "rebuild" ELSE "idle"
            /\ told' = IF p = "clear" THEN "none" ELSE "saved"
    /\ UNCHANGED <<memory, disk, changes, faults, spoilt>>

SyncAll == Sync("sync")
ClearCache == Sync("clear")

Rebuild ==
    /\ purpose = "rebuild"
    /\ node' = NewTree /\ purpose' = "idle"
    /\ UNCHANGED <<merged, disk, frames, told, changes, faults, spoilt>>

-----------------------------------------------------------------------------
\* destroy_source frees the tree as it is; a kill may come at any time.
Restart ==
    /\ \/ Free /\ NoFault
       \/ Fault
    /\ node' = NewTree /\ merged' \in BOOLEAN
    /\ frames' = <<>> /\ purpose' = "idle" /\ told' = "none"
    /\ UNCHANGED <<disk, changes, spoilt>>

Init ==
    /\ node = NewTree
    /\ merged \in BOOLEAN
    /\ disk \in Layouts
    /\ frames = <<>> /\ purpose = "idle" /\ told = "none"
    /\ changes = 0 /\ faults = 0 /\ spoilt = {}

Next ==
    \/ \E k \in Key : SetEntry(k)
    \/ \E k \in Key : UnsetEntry(k)
    \/ \E d \in Dir : Query(d)
    \/ \E d \in Dir : AllSubdirs(d)
    \/ SyncAll
    \/ ClearCache
    \/ Rebuild
    \/ SyncSave
    \/ SyncNothingToSave
    \/ SyncRename
    \/ SyncSubdirs
    \/ SyncRecurse
    \/ DeleteUselessSubdir
    \/ SyncReturn
    \/ Restart

Spec == Init /\ [][Next]_vars

-----------------------------------------------------------------------------
(***************************************************************************)
(* Properties.                                                              *)
(***************************************************************************)
Node == [entriesLoaded : BOOLEAN, subdirsLoaded : BOOLEAN, entriesNeedSave : BOOLEAN,
         someSubdirNeedsSync : BOOLEAN, notInFilesystem : BOOLEAN, saveAsSubtree : BOOLEAN,
         entries : Entries]

\* Every variable has its shape; the root is always there, a directory only below another.
TypeOK ==
    /\ node \in [Dir -> Node \cup {Absent}]
    /\ \A d \in Dir : Has(node, d) => DOMAIN node[d].entries \subseteq KeysIn[d]
    /\ Has(node, Root) /\ ~node[Root].notInFilesystem
    /\ \A d \in Dir \ {Root} : Has(node, d) => Has(node, Parent[d]) /\ node[Parent[d]].subdirsLoaded
    /\ merged \in BOOLEAN
    /\ disk \in [Dir -> [plain : File, plainNew : File, tree : File, treeNew : File]]
    /\ purpose \in {"idle", "sync", "clear", "rebuild"} /\ told \in {"none", "saved", "failed"}
    /\ (frames # <<>>) <=> (purpose \in {"sync", "clear"})
    /\ \A i \in 1..Len(frames) : Has(node, frames[i].dir) /\ ~node[frames[i].dir].notInFilesystem
    /\ changes \in 0..MaxChanges /\ faults \in 0..MaxFaults
    /\ spoilt \subseteq Key

\* What differs from the disk is found by the next sync: a directory whose own file
\* has to be written is above it, and its parents lead there (markup_dir_set_entries_need_save,
\* markup_dir_queue_sync), also after failures.
UnsavedIsFlagged ==
    Free => \A k \in Key \ spoilt : Mem[k] # Saved[k] =>
        \E e \in Present(node, Up[DirOf[k]]) :
            /\ MustSave(node[e])
            /\ \A f \in Above[e] : node[f].someSubdirNeedsSync

Promise == INSTANCE PersistentStore WITH mem <- Mem, saved <- Saved
\* What markup_tree_sync and the renames in save_tree_with_locale promise: saved is the old
\* or the new entry, success means saved, a new process reads what was saved.
KeepsPromise == Promise!Spec
=============================================================================
