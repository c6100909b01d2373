----------------------------- MODULE Listeners -----------------------------
(***************************************************************************)
(* gconf/gconf-listeners.c: the table of listeners.  gconf-client.c keeps   *)
(* the notify functions of an application in one.                           *)
(*                                                                          *)
(* A connection id packs an array index (24 bits in the code, 1..MaxIndex   *)
(* here) and a "uniqueness" counter (8 bits in the code, 0..Wrap-1 here)    *)
(* that is shared by all tables of the process.  The table is a tree of     *)
(* directories with the listeners of each, and a flat array that leads from *)
(* an index to the tree node.                                               *)
(*                                                                          *)
(* A Listener object is named by the number of the gconf_listeners_add call *)
(* that made it.  Notifications nest: a callback may add and remove         *)
(* listeners and start another notification, so stack holds one frame for   *)
(* each ltable_notify on the C stack.                                       *)
(***************************************************************************)
EXTENDS KeySpace, Integers, Sequences

CONSTANTS
    MaxIndex,   \* largest index that fits in the id (0xFFFFFF)
    Wrap,       \* number of uniqueness values (256)
    MaxAdds,    \* bound: listeners ever added to this table
    MaxTicks,   \* bound: ids ever handed out by all tables of the process
    MaxDepth,   \* bound: nested notifications
    NoNode      \* NULL in the flat array; no directory

ASSUME ListenersAssumption ==
    /\ MaxIndex \in Nat \ {0}
    /\ Wrap \in Nat \ {0}
    /\ MaxAdds \in Nat
    /\ MaxTicks \in Nat
    /\ MaxDepth \in Nat
    /\ NoNode \notin Path

VARIABLES
    nodes,          \* directories that have a node in lt->tree
    flat,           \* lt->listeners: index -> node
    len,            \* lt->listeners->len
    active,         \* lt->active_listeners
    nextCnxn,       \* lt->next_cnxn
    removedIndices, \* lt->removed_indices
    ticks,          \* calls of ltable_next_cnxn in the process: uniqueness = ticks % Wrap
    issued,         \* listeners added so far
    where,          \* listener -> its directory, NoNode when the key was invalid
    cnxn,           \* listener -> its connection id, with the tick that made it
    listed,         \* listeners linked in lte->listeners of their node
    removed,        \* listeners whose l->removed is set
    refs,           \* listener -> l->refcount; 0 is a freed listener
    stack           \* notifications in progress, outermost first

table == <<nodes, flat, len, active, nextCnxn, removedIndices, listed, removed>>
objects == <<issued, where, cnxn>>
vars == <<table, objects, ticks, refs, stack>>

Listener == 1 .. MaxAdds
Index == 0 .. MaxIndex
Cnxn == [index : Index, uniq : 0 .. Wrap - 1, tick : 0 .. MaxTicks]
Frame == [held : SUBSET Listener, pending : SUBSET Listener]

(* An id as a caller sees it. *)
Id(l) == <<cnxn[l].index, cnxn[l].uniq>>

Maximum(a, b) == IF a >= b THEN a ELSE b

(* CNXN_ID_INDEX: the bits of the index field. *)
CnxnIdIndex(n) == n % (MaxIndex + 1)

(* Faulty variant: ids start at index 0. *)
InitFromZero ==
    /\ nodes = {}
    /\ flat = [i \in Index |-> NoNode]
    /\ len = 5
    /\ active = 0
    /\ nextCnxn = 0
    /\ removedIndices = <<>>
    /\ ticks \in 0 .. Wrap - 1
    /\ issued = 0
    /\ where = [l \in Listener |-> NoNode]
    /\ cnxn = [l \in Listener |-> [index |-> 0, uniq |-> 0, tick |-> 0]]
    /\ listed = {}
    /\ removed = {}
    /\ refs = [l \in Listener |-> 0]
    /\ stack = <<>>

Init ==
    /\ nodes = {}
    /\ flat = [i \in Index |-> NoNode]
    /\ len = 5
    /\ active = 0
    /\ nextCnxn = 1
    /\ removedIndices = <<>>
    /\ ticks \in 0 .. Wrap - 1          \* start = getpid() % 256
    /\ issued = 0
    /\ where = [l \in Listener |-> NoNode]
    /\ cnxn = [l \in Listener |-> [index |-> 0, uniq |-> 0, tick |-> 0]]
    /\ listed = {}
    /\ removed = {}
    /\ refs = [l \in Listener |-> 0]
    /\ stack = <<>>

(***************************************************************************)
(* ltable_next_cnxn: bump the uniqueness counter, then take the index that  *)
(* was released last, or a new one.  The code asserts that a new index fits *)
(* in the field.                                                            *)
(***************************************************************************)
NewIndex == IF removedIndices # <<>> THEN Head(removedIndices) ELSE nextCnxn

(* Faulty variant: the uniqueness counter advances only for a new index. *)
NextCnxnReusesId ==
    IF removedIndices # <<>>
      THEN /\ removedIndices' = Tail(removedIndices)
           /\ UNCHANGED <<nextCnxn, ticks>>
      ELSE /\ nextCnxn <= MaxIndex
           /\ ticks < MaxTicks
           /\ ticks' = ticks + 1
           /\ removedIndices' = removedIndices
           /\ nextCnxn' = nextCnxn + 1

NextCnxn ==
    /\ ticks < MaxTicks
    /\ ticks' = ticks + 1
    /\ IF removedIndices # <<>>
         THEN /\ removedIndices' = Tail(removedIndices)
              /\ nextCnxn' = nextCnxn
         ELSE /\ nextCnxn <= MaxIndex
              /\ removedIndices' = removedIndices
              /\ nextCnxn' = nextCnxn + 1

NewListener(d) ==
    /\ issued < MaxAdds
    /\ NextCnxn
    /\ issued' = issued + 1
    /\ where' = [where EXCEPT ![issued + 1] = d]
    /\ cnxn' = [cnxn EXCEPT ![issued + 1] =
                    [index |-> NewIndex, uniq |-> ticks' % Wrap, tick |-> ticks']]
    /\ refs' = [refs EXCEPT ![issued + 1] = 1]

(***************************************************************************)
(* gconf_listeners_add of a valid key: ltable_insert creates the missing    *)
(* nodes, resizes the flat array (g_ptr_array_set_size clears what it cuts  *)
(* off) and stores the node; a store past the end is lost.                  *)
(***************************************************************************)
(* Faulty variant: the array is sized by the index just handed out. *)
FlatLenOfIndex == NewIndex

FlatLen == Maximum(CnxnIdIndex(nextCnxn'), NewIndex)

Add(d) ==
    /\ NewListener(d)
    /\ nodes' = nodes \cup Up[d]
    /\ listed' = listed \cup {issued + 1}
    /\ len' = FlatLen
    /\ flat' = [i \in Index |-> IF i >= len' THEN NoNode
                                ELSE IF i = NewIndex THEN d ELSE flat[i]]
    /\ active' = active + 1
    /\ UNCHANGED <<removed, stack>>

(***************************************************************************)
(* gconf_listeners_add of an invalid key: an id is handed out, nothing is   *)
(* inserted, and the index is lost.                                         *)
(***************************************************************************)
AddInvalid ==
    /\ NewListener(NoNode)
    /\ UNCHANGED <<nodes, listed, flat, len, active, removed, stack>>

(***************************************************************************)
(* ltable_remove of the listener l: unlink it, release its index and drop   *)
(* the nodes from its directory up that hold no listener and no child.      *)
(***************************************************************************)
(* Faulty variant: the children of a node are not looked at. *)
NodesWithoutListener(d, rest) ==
    {n \in nodes \cap Up[d] : \A l \in rest : where[l] # n}

UselessNodes(d, rest) ==
    {n \in nodes \cap Up[d] :
        \A m \in nodes : KeyIsBelow(n, m) =>
            m \in Up[d] /\ \A l \in rest : where[l] # m}

(* Faulty variant: the table's count is left alone. *)
UnlinkUncounted(l) ==
    /\ listed' = listed \ {l}
    /\ removed' = removed \cup {l}
    /\ removedIndices' = <<cnxn[l].index>> \o removedIndices
    /\ refs' = [refs EXCEPT ![l] = @ - 1]
    /\ flat' = [flat EXCEPT ![cnxn[l].index] = NoNode]
    /\ nodes' = nodes \ UselessNodes(where[l], listed \ {l})
    /\ UNCHANGED active

Unlink(l) ==
    /\ listed' = listed \ {l}
    /\ removed' = removed \cup {l}
    /\ removedIndices' = <<cnxn[l].index>> \o removedIndices
    /\ refs' = [refs EXCEPT ![l] = @ - 1]
    /\ flat' = [flat EXCEPT ![cnxn[l].index] = NoNode]
    /\ nodes' = nodes \ UselessNodes(where[l], listed \ {l})
    /\ active' = active - 1

(***************************************************************************)
(* gconf_listeners_remove with an id that add returned once, live or stale. *)
(* The index leads to a node; the whole id must match a listener there.     *)
(***************************************************************************)
Matches(id, l) ==
    /\ l \in listed
    /\ id[1] < len
    /\ flat[id[1]] = where[l]
    /\ Id(l) = id

Remove(asked) ==
    /\ asked <= issued
    /\ \E l \in Listener : Matches(Id(asked), l) /\ Unlink(l)
    /\ UNCHANGED <<len, nextCnxn, objects, ticks, stack>>

(***************************************************************************)
(* ltable_notify: the listeners of the root and of each node on the way to  *)
(* key are copied and referenced; the walk ends at the first missing node.  *)
(***************************************************************************)
OnTheWay(key) ==
    {l \in listed : where[l] \in Up[key] /\ Up[where[l]] \subseteq nodes}

(* Faulty variant: the copied list holds no references. *)
NotifyUnreferenced(key) ==
    /\ Root \in nodes
    /\ Len(stack) < MaxDepth
    /\ stack' = Append(stack, [held |-> OnTheWay(key), pending |-> OnTheWay(key)])
    /\ UNCHANGED <<table, objects, ticks, refs>>

Notify(key) ==
    /\ Root \in nodes
    /\ Len(stack) < MaxDepth
    /\ stack' = Append(stack, [held |-> OnTheWay(key), pending |-> OnTheWay(key)])
    /\ refs' = [l \in Listener |-> IF l \in OnTheWay(key) THEN refs[l] + 1 ELSE refs[l]]
    /\ UNCHANGED <<table, objects, ticks>>

(* Ancestors first, and the most recently added first within a directory. *)
Before(l, m) ==
    IF where[l] = where[m] THEN l > m ELSE where[l] \in Up[where[m]]

(***************************************************************************)
(* One turn of notify_listener_list: the next listener is called, or passed *)
(* over when it was removed since.  What its callback does are the steps    *)
(* that follow.                                                             *)
(***************************************************************************)
Top == stack[Len(stack)]

Callback ==
    /\ stack # <<>>
    /\ \E l \in Top.pending :
         /\ \A m \in Top.pending \ {l} : Before(l, m)
         /\ stack' = [stack EXCEPT ![Len(stack)].pending = @ \ {l}]
    /\ UNCHANGED <<table, objects, ticks, refs>>

(* The end of ltable_notify: every listener of the copied list is unreferenced. *)
EndNotify ==
    /\ stack # <<>>
    /\ Top.pending = {}
    /\ refs' = [l \in Listener |-> IF l \in Top.held THEN refs[l] - 1 ELSE refs[l]]
    /\ stack' = SubSeq(stack, 1, Len(stack) - 1)
    /\ UNCHANGED <<table, objects, ticks>>

(* Another table of the process takes an id from the shared counter. *)
OtherTableAdd ==
    /\ ticks < MaxTicks
    /\ ticks' = ticks + 1
    /\ UNCHANGED <<table, objects, refs, stack>>

Next ==
    \/ \E d \in Path : Add(d)
    \/ AddInvalid
    \/ \E l \in Listener : Remove(l)
    \/ \E key \in Path : Notify(key)
    \/ Callback
    \/ EndNotify
    \/ OtherTableAdd

Spec == Init /\ [][Next]_vars

-----------------------------------------------------------------------------
(* Every variable keeps the shape of the structure it stands for. *)
TypeOK ==
    /\ nodes \subseteq Path
    /\ flat \in [Index -> Path \cup {NoNode}]
    /\ len \in Nat
    /\ active \in Int
    /\ nextCnxn \in 1 .. MaxIndex + 1
    /\ removedIndices \in Seq(Index)
    /\ ticks \in 0 .. Maximum(MaxTicks, Wrap - 1)
    /\ issued \in 0 .. MaxAdds
    /\ where \in [Listener -> Path \cup {NoNode}]
    /\ cnxn \in [Listener -> Cnxn]
    /\ listed \subseteq 1 .. issued
    /\ removed \subseteq 1 .. issued
    /\ refs \in [Listener -> Int]
    /\ stack \in Seq(Frame)

(***************************************************************************)
(* The flat array finds every registered listener: two of them never share  *)
(* an index, the index of each is inside the array and leads to the node    *)
(* that holds it, and an index is in use or free, never both or free twice. *)
(***************************************************************************)
FlatTableFindsListeners ==
    /\ \A l \in listed : cnxn[l].index < len /\ flat[cnxn[l].index] = where[l]
    /\ \A l, m \in listed : cnxn[l].index = cnxn[m].index => l = m
    /\ \A i, j \in DOMAIN removedIndices :
         removedIndices[i] = removedIndices[j] => i = j
    /\ \A l \in listed : \A i \in DOMAIN removedIndices :
         cnxn[l].index # removedIndices[i]

(***************************************************************************)
(* The tree has exactly the nodes that lead to a listener: removal leaves   *)
(* no dead branch, and never cuts off a listener that notification must     *)
(* still reach by walking down from the root.                               *)
(***************************************************************************)
TreeLeadsToListeners == nodes = UNION {Up[where[l]] : l \in listed}

(***************************************************************************)
(* Reference counting under re-entrancy: a listener has one reference from  *)
(* the table until it is removed and one from each notification that copied *)
(* it, so whatever callbacks remove, none is freed (its destroy function    *)
(* run) while a notification in progress still has it on its list.          *)
(***************************************************************************)
Holders(l) == {f \in DOMAIN stack : l \in stack[f].held}

RefcountsExact ==
    \A l \in 1 .. issued :
        refs[l] = (IF l \in removed THEN 0 ELSE 1) + Cardinality(Holders(l))

(* The count that decides whether a database is in use is the table's size. *)
ActiveIsExact == active = Cardinality(listed)

(***************************************************************************)
(* The uniqueness bits do their work: the id of one listener equals the id  *)
(* of another only when the counter went all the way round in between, so   *)
(* until then a stale id never removes somebody else's listener.            *)
(***************************************************************************)
StaleIdsDiffer ==
    \A l, m \in 1 .. issued :
        l < m /\ Id(l) = Id(m) => cnxn[m].tick - cnxn[l].tick >= Wrap
=============================================================================
