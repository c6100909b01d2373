--------------------------- MODULE ListenersProofs ---------------------------
(***************************************************************************)
(* Proofs about the table of listeners, for every namespace, every size of  *)
(* the id fields and every number of listeners, ids and nested              *)
(* notifications.                                                           *)
(***************************************************************************)
EXTENDS Listeners, SequenceTheorems, FiniteSetTheorems, TLAPS

USE PathAssumption, ListenersAssumption

-----------------------------------------------------------------------------
(* The table that NewListener and Unlink leave behind has the right shape. *)
LEMMA NewIndexType ==
  ASSUME TypeOK, NextCnxn
  PROVE  /\ NewIndex \in Index
         /\ nextCnxn' \in 1 .. MaxIndex + 1
         /\ removedIndices' \in Seq(Index)
         /\ ticks' \in 0 .. Maximum(MaxTicks, Wrap - 1)
         /\ ticks' \in 0 .. MaxTicks
         /\ ticks' % Wrap \in 0 .. Wrap - 1
<1>1. ticks' = ticks + 1 /\ ticks \in Nat /\ ticks < MaxTicks
  BY DEF NextCnxn, TypeOK, Maximum
<1>2. ticks' \in 0 .. Maximum(MaxTicks, Wrap - 1) /\ ticks' \in 0 .. MaxTicks
  BY <1>1 DEF Maximum
<1>3. ticks' % Wrap \in 0 .. Wrap - 1
  BY <1>1
<1>4. CASE removedIndices # <<>>
  <2>1. Head(removedIndices) \in Index /\ Tail(removedIndices) \in Seq(Index)
    BY <1>4, HeadTailProperties DEF TypeOK
  <2> QED
    BY <1>2, <1>3, <1>4, <2>1 DEF NextCnxn, NewIndex, TypeOK
<1>5. CASE removedIndices = <<>>
  BY <1>2, <1>3, <1>5 DEF NextCnxn, NewIndex, TypeOK, Index
<1> QED
  BY <1>4, <1>5

LEMMA NewListenerType ==
  ASSUME TypeOK, NEW d \in Path \cup {NoNode}, NewListener(d)
  PROVE  /\ issued' \in 0 .. MaxAdds
         /\ issued' = issued + 1
         /\ issued + 1 \in Listener
         /\ where' \in [Listener -> Path \cup {NoNode}]
         /\ cnxn' \in [Listener -> Cnxn]
         /\ refs' \in [Listener -> Int]
<1>1. issued + 1 \in Listener /\ issued' = issued + 1 /\ issued' \in 0 .. MaxAdds
  BY DEF NewListener, TypeOK, Listener
<1>2. [index |-> NewIndex, uniq |-> ticks' % Wrap, tick |-> ticks'] \in Cnxn
  BY NewIndexType DEF NewListener, Cnxn
<1> QED
  BY <1>1, <1>2 DEF NewListener, TypeOK

LEMMA UnlinkType ==
  ASSUME TypeOK, NEW l \in listed, Unlink(l)
  PROVE  /\ nodes' \subseteq Path
         /\ flat' \in [Index -> Path \cup {NoNode}]
         /\ active' \in Int
         /\ removedIndices' \in Seq(Index)
         /\ listed' \subseteq 1 .. issued
         /\ removed' \subseteq 1 .. issued
         /\ refs' \in [Listener -> Int]
<1>1. l \in Listener /\ cnxn[l].index \in Index
  BY DEF TypeOK, Listener, Cnxn
<1>2. removedIndices' \in Seq(Index)
  <2>1. <<cnxn[l].index>> \in Seq(Index)
    BY <1>1
  <2> QED
    BY <2>1, ConcatProperties DEF Unlink, TypeOK
<1> QED
  BY <1>1, <1>2 DEF Unlink, TypeOK

LEMMA RemovedIndexType ==
  ASSUME TypeOK
  PROVE  \A i \in DOMAIN removedIndices : removedIndices[i] \in Nat
<1>1. removedIndices \in Seq(Index) /\ Index \subseteq Nat
  BY DEF TypeOK, Index
<1>2. /\ \A i \in 1 .. Len(removedIndices) : removedIndices[i] \in Index
      /\ DOMAIN removedIndices = 1 .. Len(removedIndices)
  BY ONLY <1>1, ElementOfSeq, LenProperties
<1> QED
  BY ONLY <1>1, <1>2

LEMMA FrameStep ==
  ASSUME TypeOK, NEW f \in Frame
  PROVE  Append(stack, f) \in Seq(Frame)
BY DEF TypeOK

(***************************************************************************)
(* Type correctness: no operation, in any interleaving with notifications   *)
(* in progress, takes a variable out of its shape.  In particular the index *)
(* of every id handed out fits in its field.                                *)
(***************************************************************************)
THEOREM TypeCorrect == Spec => []TypeOK
<1>1. Init => TypeOK
  BY DEF Init, TypeOK, Index, Listener, Cnxn, Maximum
<1>2. TypeOK /\ [Next]_vars => TypeOK'
  <2> SUFFICES ASSUME TypeOK, [Next]_vars PROVE TypeOK'
    OBVIOUS
  <2>1. ASSUME NEW d \in Path, Add(d) PROVE TypeOK'
    <3>1. NewListener(d) /\ NextCnxn
      BY <2>1 DEF Add, NewListener
    <3>2. nodes' \subseteq Path /\ len' \in Nat
      <4>1. nodes' = nodes \cup Up[d] /\ len' = Maximum(CnxnIdIndex(nextCnxn'), NewIndex)
        BY <2>1 DEF Add, FlatLen
      <4>2. nextCnxn' \in Nat /\ NewIndex \in Nat
        BY <3>1, NewIndexType DEF Index
      <4>3. CnxnIdIndex(nextCnxn') \in Nat
        <5>1. nextCnxn' \in Nat /\ MaxIndex + 1 \in Nat \ {0}
          BY <4>2
        <5> QED
          BY ONLY <5>1 DEF CnxnIdIndex
      <4>4. nodes' \subseteq Path
        BY <4>1 DEF TypeOK
      <4> QED
        BY ONLY <4>1, <4>2, <4>3, <4>4 DEF Maximum
    <3>3. flat' \in [Index -> Path \cup {NoNode}]
      BY <2>1, <3>1 DEF Add, TypeOK
    <3>4. issued \in Nat /\ issued' = issued + 1 /\ issued' \in 0 .. MaxAdds
      BY <3>1, NewListenerType DEF TypeOK
    <3>5. listed' \subseteq 1 .. issued' /\ removed' \subseteq 1 .. issued'
      BY <2>1, <3>4 DEF Add, TypeOK
    <3>6. active' \in Int /\ stack' \in Seq(Frame)
      BY <2>1 DEF Add, TypeOK
    <3> QED
      BY <3>1, <3>2, <3>3, <3>4, <3>5, <3>6, NewIndexType, NewListenerType DEF TypeOK
  <2>2. CASE AddInvalid
    <3>1. NewListener(NoNode) /\ NextCnxn
      BY <2>2 DEF AddInvalid, NewListener
    <3>2. issued \in Nat /\ issued' = issued + 1 /\ issued' \in 0 .. MaxAdds
      BY <3>1, NewListenerType DEF TypeOK
    <3>3. listed' \subseteq 1 .. issued' /\ removed' \subseteq 1 .. issued'
      BY <2>2, <3>2 DEF AddInvalid, TypeOK
    <3>4. UNCHANGED <<nodes, flat, len, active, stack>>
      BY <2>2 DEF AddInvalid
    <3> QED
      BY <3>1, <3>2, <3>3, <3>4, NewIndexType, NewListenerType DEF TypeOK
  <2>3. ASSUME NEW asked \in Listener, Remove(asked) PROVE TypeOK'
    <3>1. PICK l \in listed : Unlink(l)
      BY <2>3 DEF Remove, Matches
    <3> QED
      BY <2>3, <3>1, UnlinkType DEF Remove, objects, TypeOK
  <2>4. ASSUME NEW key \in Path, Notify(key) PROVE TypeOK'
    <3>1. OnTheWay(key) \subseteq Listener
      <4>1. listed \subseteq Listener
        BY DEF TypeOK, Listener
      <4> QED
        BY <4>1 DEF OnTheWay
    <3>2. [held |-> OnTheWay(key), pending |-> OnTheWay(key)] \in Frame
      BY <3>1 DEF Frame
    <3>3. stack' \in Seq(Frame)
      BY <2>4, <3>2, FrameStep DEF Notify
    <3>4. refs' = [l \in Listener |-> IF l \in OnTheWay(key) THEN refs[l] + 1 ELSE refs[l]]
      BY <2>4 DEF Notify
    <3>5. refs' \in [Listener -> Int]
      <4>1. \A l \in Listener : refs[l] \in Int /\ refs[l] + 1 \in Int
        BY DEF TypeOK
      <4> QED
        BY <3>4, <4>1, Zenon
    <3> QED
      BY <2>4, <3>3, <3>5 DEF Notify, table, objects, TypeOK
  <2>5. CASE Callback
    <3>1. Len(stack) \in 1 .. Len(stack) /\ Top \in Frame
      BY <2>5, EmptySeq, ElementOfSeq DEF Callback, Top, TypeOK
    <3>2. PICK l \in Top.pending : stack' = [stack EXCEPT ![Len(stack)].pending = @ \ {l}]
      BY <2>5 DEF Callback
    <3>3. [Top EXCEPT !.pending = @ \ {l}] \in Frame
      BY <3>1 DEF Frame
    <3>4. stack' = [stack EXCEPT ![Len(stack)] = [Top EXCEPT !.pending = @ \ {l}]]
      BY <3>2 DEF Top
    <3>5. stack' \in Seq(Frame)
      BY <3>1, <3>3, <3>4, ExceptSeq DEF TypeOK
    <3> QED
      BY <2>5, <3>5 DEF Callback, table, objects, TypeOK
  <2>6. CASE EndNotify
    <3>1. stack' \in Seq(Frame)
      BY <2>6 DEF EndNotify, TypeOK
    <3>2. refs' \in [Listener -> Int]
      BY <2>6 DEF EndNotify, TypeOK
    <3> QED
      BY <2>6, <3>1, <3>2 DEF EndNotify, table, objects, TypeOK
  <2>7. CASE OtherTableAdd
    BY <2>7 DEF OtherTableAdd, table, objects, TypeOK, Maximum
  <2>8. CASE UNCHANGED vars
    BY <2>8 DEF vars, table, objects, TypeOK
  <2> QED
    BY <2>1, <2>2, <2>3, <2>4, <2>5, <2>6, <2>7, <2>8 DEF Next
<1> QED
  BY <1>1, <1>2, PTL DEF Spec

-----------------------------------------------------------------------------
(***************************************************************************)
(* The flat array.  What makes FlatTableFindsListeners inductive: every     *)
(* index in use or free is below next_cnxn, so that a new index is fresh    *)
(* and an array of next_cnxn slots has room for all of them.  That is so    *)
(* while next_cnxn itself fits in the index field.                          *)
(***************************************************************************)
IndicesBelowNext ==
    /\ \A l \in listed : cnxn[l].index < nextCnxn
    /\ \A i \in DOMAIN removedIndices : removedIndices[i] < nextCnxn

IndexFits == nextCnxn <= MaxIndex

FlatInv == TypeOK /\ IndicesBelowNext /\ FlatTableFindsListeners

LEMMA SmallModulus ==
  ASSUME NEW n \in Nat, NEW m \in Nat \ {0}, n < m
  PROVE  n % m = n
BY SMTT(20)

(***************************************************************************)
(* The index handed out is not in use and not free any more.                *)
(***************************************************************************)
LEMMA NewIndexIsFresh ==
  ASSUME FlatInv, NextCnxn
  PROVE  /\ NewIndex \in Index /\ NewIndex < nextCnxn'
         /\ nextCnxn <= nextCnxn'
         /\ \A l \in listed : cnxn[l].index # NewIndex
         /\ \A i \in DOMAIN removedIndices' : removedIndices'[i] # NewIndex
         /\ \A i \in DOMAIN removedIndices' :
              \E j \in DOMAIN removedIndices : removedIndices'[i] = removedIndices[j]
         /\ \A i, j \in DOMAIN removedIndices' :
              removedIndices'[i] = removedIndices'[j] => i = j
<1> USE DEF FlatInv
<1>0. /\ removedIndices \in Seq(Index) /\ NewIndex \in Index
      /\ nextCnxn \in Nat
      /\ \A l \in listed : cnxn[l].index \in Nat
  <2>1. \A l \in listed : l \in Listener
    BY DEF TypeOK, Listener
  <2> QED
    BY <2>1, NewIndexType DEF TypeOK, Cnxn, Index
<1>1. CASE removedIndices # <<>>
  <2>1. /\ removedIndices' = Tail(removedIndices) /\ nextCnxn' = nextCnxn
        /\ NewIndex = removedIndices[1]
    BY <1>1 DEF NextCnxn, NewIndex
  <2>2. /\ 1 \in DOMAIN removedIndices
        /\ Len(Tail(removedIndices)) = Len(removedIndices) - 1
        /\ \A i \in 1 .. Len(Tail(removedIndices)) :
             Tail(removedIndices)[i] = removedIndices[i + 1]
    BY <1>0, <1>1, HeadTailProperties, EmptySeq, LenProperties
  <2>3. /\ DOMAIN removedIndices' = 1 .. Len(removedIndices) - 1
        /\ DOMAIN removedIndices = 1 .. Len(removedIndices)
        /\ Len(removedIndices) \in Nat
    BY <1>0, <1>1, <2>1, <2>2, HeadTailProperties, LenProperties
  <2>4. \A i \in DOMAIN removedIndices' :
          i + 1 \in DOMAIN removedIndices /\ removedIndices'[i] = removedIndices[i + 1]
    BY <2>1, <2>2, <2>3
  <2>5. \A i \in DOMAIN removedIndices' : removedIndices'[i] # NewIndex
    BY <2>1, <2>2, <2>3, <2>4 DEF FlatTableFindsListeners
  <2>6. \A i, j \in DOMAIN removedIndices' : removedIndices'[i] = removedIndices'[j] => i = j
    BY <2>3, <2>4 DEF FlatTableFindsListeners
  <2> QED
    BY <1>0, <2>1, <2>2, <2>4, <2>5, <2>6 DEF FlatTableFindsListeners, IndicesBelowNext
<1>2. CASE removedIndices = <<>>
  BY <1>0, <1>2, EmptySeq DEF NextCnxn, NewIndex, IndicesBelowNext
<1> QED
  BY <1>1, <1>2

(***************************************************************************)
(* Removing a listener frees an index that no other one has.                *)
(***************************************************************************)
LEMMA UnlinkKeepsFlat ==
  ASSUME FlatInv, NEW l \in listed, Unlink(l),
         UNCHANGED <<len, nextCnxn, where, cnxn>>
  PROVE  (IndicesBelowNext /\ FlatTableFindsListeners)'
<1> USE DEF FlatInv
<1> DEFINE free == cnxn[l].index
<1>1. /\ l \in Listener /\ free \in Index
      /\ listed' = listed \ {l}
      /\ removedIndices' = <<free>> \o removedIndices
      /\ flat' = [flat EXCEPT ![free] = NoNode]
  BY DEF TypeOK, Listener, Cnxn, Unlink
<1>2. /\ \A i \in DOMAIN removedIndices' :
           \/ i = 1 /\ removedIndices'[i] = free
           \/ /\ i # 1 /\ i - 1 \in DOMAIN removedIndices
              /\ removedIndices'[i] = removedIndices[i - 1]
      /\ DOMAIN removedIndices' \subseteq Int
  <2>1. /\ <<free>> \in Seq(Index) /\ removedIndices \in Seq(Index)
        /\ Len(<<free>>) = 1 /\ <<free>>[1] = free
    BY <1>1 DEF TypeOK
  <2>2. /\ DOMAIN removedIndices' = 1 .. 1 + Len(removedIndices)
        /\ DOMAIN removedIndices = 1 .. Len(removedIndices)
        /\ Len(removedIndices) \in Nat
        /\ \A i \in 1 .. 1 + Len(removedIndices) :
             removedIndices'[i] = IF i <= 1 THEN <<free>>[i] ELSE removedIndices[i - 1]
    BY <1>1, <2>1, ConcatProperties, LenProperties
  <2> QED
    BY <2>1, <2>2
<1>3. \A i \in DOMAIN removedIndices : removedIndices[i] # free
  BY DEF FlatTableFindsListeners
<1>4. \A m \in listed' : m \in listed /\ cnxn[m].index # free
  BY <1>1 DEF FlatTableFindsListeners
<1>5. \A m \in listed' : cnxn'[m].index < len' /\ flat'[cnxn'[m].index] = where'[m]
  <2>1. \A m \in listed' : cnxn[m].index \in Index /\ flat'[cnxn[m].index] = flat[cnxn[m].index]
    <3>1. \A m \in listed : cnxn[m].index \in Index
      BY DEF TypeOK, Listener, Cnxn
    <3> QED
      BY <1>1, <1>4, <3>1 DEF TypeOK
  <2> QED
    BY <1>4, <2>1 DEF FlatTableFindsListeners
<1>6. \A i, j \in DOMAIN removedIndices' : removedIndices'[i] = removedIndices'[j] => i = j
  <2> SUFFICES ASSUME NEW i \in DOMAIN removedIndices', NEW j \in DOMAIN removedIndices',
                      removedIndices'[i] = removedIndices'[j]
               PROVE  i = j
    OBVIOUS
  <2>1. i \in Int /\ j \in Int
    BY <1>2
  <2>2. CASE i = 1 \/ j = 1
    BY <1>2, <1>3, <2>2
  <2>3. CASE i # 1 /\ j # 1
    <3>1. i - 1 = j - 1
      BY <1>2, <2>3 DEF FlatTableFindsListeners
    <3> QED
      BY <2>1, <3>1
  <2> QED
    BY <2>2, <2>3
<1>7. \A m \in listed' : \A i \in DOMAIN removedIndices' : cnxn'[m].index # removedIndices'[i]
  BY <1>2, <1>4 DEF FlatTableFindsListeners
<1>8. IndicesBelowNext'
  BY <1>1, <1>2, <1>4 DEF IndicesBelowNext
<1> QED
  BY <1>4, <1>5, <1>6, <1>7, <1>8 DEF FlatTableFindsListeners

(***************************************************************************)
(* The lookups of gconf_listeners_remove never miss: while the ids have not *)
(* used up the index field, every registered listener is where its id       *)
(* leads, and no two of them, nor one of them and a free index, collide.    *)
(***************************************************************************)
THEOREM FlatTable == Spec /\ []IndexFits => []FlatTableFindsListeners
<1>1. Init => FlatInv
  <2> SUFFICES ASSUME Init PROVE FlatInv
    OBVIOUS
  <2>1. TypeOK
    BY DEF Init, TypeOK, Index, Listener, Cnxn, Maximum
  <2>2. listed = {} /\ DOMAIN removedIndices = {}
    BY DEF Init
  <2> QED
    BY <2>1, <2>2 DEF FlatInv, IndicesBelowNext, FlatTableFindsListeners
<1>2. FlatInv /\ [Next]_vars /\ TypeOK' /\ IndexFits' => FlatInv'
  <2> SUFFICES ASSUME FlatInv, [Next]_vars, TypeOK', IndexFits'
               PROVE  IndicesBelowNext' /\ FlatTableFindsListeners'
    BY DEF FlatInv
  <2>0. \A l \in listed : /\ l \in Listener /\ l <= issued /\ l # issued + 1
                          /\ cnxn[l].index \in Index
    BY DEF FlatInv, TypeOK, Listener, Cnxn
  <2>1. ASSUME NEW d \in Path, Add(d)
        PROVE  IndicesBelowNext' /\ FlatTableFindsListeners'
    <3>1. NextCnxn /\ NewListener(d)
      BY <2>1 DEF Add, NewListener
    <3>2. /\ issued + 1 \in Listener
          /\ listed' = listed \cup {issued + 1}
          /\ where'[issued + 1] = d /\ cnxn'[issued + 1].index = NewIndex
          /\ \A l \in listed : where'[l] = where[l] /\ cnxn'[l] = cnxn[l]
      <4>1. /\ issued + 1 \in Listener /\ d \in Path \cup {NoNode}
            /\ where \in [Listener -> Path \cup {NoNode}] /\ cnxn \in [Listener -> Cnxn]
        BY <3>1, NewListenerType DEF FlatInv, TypeOK
      <4>2. listed' = listed \cup {issued + 1}
        BY <2>1 DEF Add
      <4>3. /\ where' = [where EXCEPT ![issued + 1] = d]
            /\ cnxn' = [cnxn EXCEPT ![issued + 1] =
                          [index |-> NewIndex, uniq |-> ticks' % Wrap, tick |-> ticks']]
        BY <3>1 DEF NewListener
      <4> QED
        BY ONLY <2>0, <4>1, <4>2, <4>3
    <3>3. len' = nextCnxn'
      <4>1. nextCnxn' \in 0 .. MaxIndex /\ NewIndex \in Nat /\ NewIndex < nextCnxn'
        <5>1. nextCnxn' \in 1 .. MaxIndex + 1 /\ NewIndex \in Nat /\ NewIndex < nextCnxn'
          BY <3>1, NewIndexType, NewIndexIsFresh DEF FlatInv, Index
        <5>2. nextCnxn' <= MaxIndex
          BY DEF IndexFits
        <5> QED
          BY ONLY <5>1, <5>2, ListenersAssumption
      <4>2. CnxnIdIndex(nextCnxn') = nextCnxn'
        <5>1. MaxIndex + 1 \in Nat \ {0} /\ nextCnxn' \in Nat /\ nextCnxn' < MaxIndex + 1
          BY <4>1
        <5> QED
          BY ONLY <5>1, SmallModulus DEF CnxnIdIndex
      <4> QED
        BY <2>1, <4>1, <4>2 DEF Add, FlatLen, Maximum
    <3>4. \A i \in Index : flat'[i] = IF i >= len' THEN NoNode
                                      ELSE IF i = NewIndex THEN d ELSE flat[i]
      BY <2>1 DEF Add
    <3>5. \A l \in listed' : cnxn'[l].index \in Index /\ cnxn'[l].index < nextCnxn'
      <4>1. /\ NewIndex \in Index /\ NewIndex < nextCnxn' /\ nextCnxn <= nextCnxn'
            /\ nextCnxn \in Nat /\ nextCnxn' \in Nat
        BY <3>1, NewIndexIsFresh DEF FlatInv, TypeOK
      <4>2. \A l \in listed : cnxn[l].index \in Index /\ cnxn[l].index < nextCnxn'
        BY <2>0, <4>1 DEF FlatInv, IndicesBelowNext, Index
      <4> QED
        BY <3>2, <4>1, <4>2
    <3>6. \A l \in listed' : flat'[cnxn'[l].index] = where'[l]
      <4>1. NewIndex \in Index /\ \A l \in listed : cnxn[l].index # NewIndex
        BY <3>1, NewIndexIsFresh
      <4>2. \A l \in listed' : ~(cnxn'[l].index >= len')
        <5>1. nextCnxn' \in Nat
          BY DEF TypeOK
        <5> QED
          BY ONLY <3>3, <3>5, <5>1, ListenersAssumption DEF Index
      <4>3. flat'[NewIndex] = d
        BY <3>2, <3>4, <4>1, <4>2
      <4>4. \A l \in listed : flat'[cnxn[l].index] = where[l]
        BY <2>0, <3>2, <3>4, <4>1, <4>2 DEF FlatInv, FlatTableFindsListeners
      <4> QED
        BY <3>2, <4>3, <4>4
    <3>7. \A l, m \in listed' : cnxn'[l].index = cnxn'[m].index => l = m
      BY <3>1, <3>2, NewIndexIsFresh DEF FlatInv, FlatTableFindsListeners
    <3>8. \A l \in listed' : \A i \in DOMAIN removedIndices' :
            cnxn'[l].index # removedIndices'[i]
      BY <3>1, <3>2, NewIndexIsFresh DEF FlatInv, FlatTableFindsListeners
    <3>9. \A i \in DOMAIN removedIndices' : removedIndices'[i] < nextCnxn'
      <4>1. \A i \in DOMAIN removedIndices : removedIndices[i] \in Nat
        BY RemovedIndexType DEF FlatInv
      <4> QED
        <5>1. /\ nextCnxn <= nextCnxn' /\ nextCnxn \in Nat /\ nextCnxn' \in Nat
              /\ \A i \in DOMAIN removedIndices' :
                   \E j \in DOMAIN removedIndices : removedIndices'[i] = removedIndices[j]
          BY <3>1, NewIndexIsFresh DEF FlatInv, TypeOK
        <5>2. \A j \in DOMAIN removedIndices : removedIndices[j] < nextCnxn
          BY DEF FlatInv, IndicesBelowNext
        <5> QED
          BY ONLY <4>1, <5>1, <5>2
    <3> QED
      BY <3>1, <3>3, <3>5, <3>6, <3>7, <3>8, <3>9, NewIndexIsFresh
      DEF IndicesBelowNext, FlatTableFindsListeners
  <2>2. ASSUME AddInvalid
        PROVE  IndicesBelowNext' /\ FlatTableFindsListeners'
    <3>1. NextCnxn /\ NewListener(NoNode)
      BY <2>2 DEF AddInvalid, NewListener
    <3>2. \A l \in listed : where'[l] = where[l] /\ cnxn'[l] = cnxn[l]
      BY <2>0, <3>1, NewListenerType DEF NewListener, FlatInv, TypeOK
    <3>3. listed' = listed /\ len' = len /\ flat' = flat
      BY <2>2 DEF AddInvalid
    <3>4. \A l \in listed' : cnxn'[l].index < nextCnxn'
      <4>1. nextCnxn <= nextCnxn' /\ nextCnxn \in Nat /\ nextCnxn' \in Nat
        BY <3>1, NewIndexIsFresh DEF FlatInv, TypeOK
      <4>2. \A l \in listed : cnxn[l].index < nextCnxn'
        BY <2>0, <4>1 DEF FlatInv, IndicesBelowNext, Index
      <4> QED
        BY <3>2, <3>3, <4>2
    <3>5. \A i \in DOMAIN removedIndices' : removedIndices'[i] < nextCnxn'
      <4>1. \A i \in DOMAIN removedIndices : removedIndices[i] \in Nat
        BY RemovedIndexType DEF FlatInv
      <4> QED
        <5>1. /\ nextCnxn <= nextCnxn' /\ nextCnxn \in Nat /\ nextCnxn' \in Nat
              /\ \A i \in DOMAIN removedIndices' :
                   \E j \in DOMAIN removedIndices : removedIndices'[i] = removedIndices[j]
          BY <3>1, NewIndexIsFresh DEF FlatInv, TypeOK
        <5>2. \A j \in DOMAIN removedIndices : removedIndices[j] < nextCnxn
          BY DEF FlatInv, IndicesBelowNext
        <5> QED
          BY ONLY <4>1, <5>1, <5>2
    <3>6. \A l \in listed' : \A i \in DOMAIN removedIndices' :
            cnxn'[l].index # removedIndices'[i]
      BY <3>1, <3>2, <3>3, NewIndexIsFresh DEF FlatInv, FlatTableFindsListeners
    <3> QED
      BY <3>1, <3>2, <3>3, <3>4, <3>5, <3>6, NewIndexIsFresh
      DEF FlatInv, IndicesBelowNext, FlatTableFindsListeners
  <2>3. ASSUME NEW asked \in Listener, Remove(asked)
        PROVE  IndicesBelowNext' /\ FlatTableFindsListeners'
    <3>1. PICK l \in listed : Unlink(l)
      BY <2>3 DEF Remove, Matches
    <3>2. UNCHANGED <<len, nextCnxn, where, cnxn>>
      BY <2>3 DEF Remove, objects
    <3> QED
      BY <3>1, <3>2, UnlinkKeepsFlat
  <2>4. ASSUME UNCHANGED <<table, objects>>
        PROVE  IndicesBelowNext' /\ FlatTableFindsListeners'
    BY <2>4 DEF table, objects, FlatInv, IndicesBelowNext, FlatTableFindsListeners
  <2>5. \/ \E d \in Path : Add(d)
        \/ AddInvalid
        \/ \E l \in Listener : Remove(l)
        \/ UNCHANGED <<table, objects>>
    BY DEF Next, vars, Notify, Callback, EndNotify, OtherTableAdd
  <2> QED
    BY <2>1, <2>2, <2>3, <2>4, <2>5
<1>3. FlatInv => FlatTableFindsListeners
  BY DEF FlatInv
<1> QED
  BY <1>1, <1>2, <1>3, TypeCorrect, PTL DEF Spec

-----------------------------------------------------------------------------
(***************************************************************************)
(* The tree.  What is added to TreeLeadsToListeners is that the listeners   *)
(* in it belong to directories.                                             *)
(***************************************************************************)
TreeInv ==
    /\ TypeOK
    /\ \A l \in listed : where[l] \in Path
    /\ TreeLeadsToListeners

LEMMA UnlinkKeepsTree ==
  ASSUME TreeInv, NEW l \in listed, Unlink(l), UNCHANGED where
  PROVE  TreeLeadsToListeners'
<1> DEFINE d == where[l]
           rest == listed \ {l}
<1>1. /\ listed' = rest /\ where' = where
      /\ nodes' = nodes \ UselessNodes(d, rest)
  BY DEF Unlink
<1>2. /\ d \in Path /\ nodes \subseteq Path
      /\ \A m \in listed : where[m] \in Path /\ where[m] \in Up[where[m]]
      /\ \A n : n \in nodes <=> \E m \in listed : n \in Up[where[m]]
  BY DEF TreeInv, TypeOK, TreeLeadsToListeners
<1>3. ASSUME NEW m \in rest, NEW n \in Up[where[m]] PROVE n \in nodes'
  <2>1. n \in nodes /\ where[m] \in nodes
    BY <1>2, <1>3
  <2>2. n \notin UselessNodes(d, rest)
    BY <2>1, <1>3 DEF UselessNodes, KeyIsBelow
  <2> QED
    BY <1>1, <2>1, <2>2
<1>4. ASSUME NEW n \in nodes' PROVE \E m \in rest : n \in Up[where[m]]
  <2>1. n \in nodes /\ n \notin UselessNodes(d, rest)
    BY <1>1, <1>4
  <2>2. CASE n \notin Up[d]
    BY <1>2, <2>1, <2>2
  <2>3. CASE n \in Up[d]
    <3>1. PICK m \in nodes : n \in Up[m] /\ (m \in Up[d] => \E k \in rest : where[k] = m)
      BY <2>1, <2>3 DEF UselessNodes, KeyIsBelow
    <3>2. PICK k \in rest : m \in Up[where[k]]
      BY <1>2, <3>1
    <3>3. Up[m] \subseteq Up[where[k]]
      BY <1>2, <3>2
    <3> QED
      BY <3>1, <3>2, <3>3
  <2> QED
    BY <2>2, <2>3
<1>5. nodes' = UNION {Up[where[m]] : m \in rest}
  BY <1>3, <1>4
<1>6. {Up[where[m]] : m \in rest} = {Up[where'[m]] : m \in listed'}
  BY <1>1
<1> QED
  BY <1>5, <1>6 DEF TreeLeadsToListeners

(***************************************************************************)
(* Notification reaches every listener: the nodes are exactly those on the  *)
(* way to a listener, whatever order listeners come and go in.              *)
(***************************************************************************)
THEOREM Tree == Spec => []TreeLeadsToListeners
<1>1. Init => TreeInv
  <2> SUFFICES ASSUME Init PROVE TreeInv
    OBVIOUS
  <2>1. TypeOK
    BY DEF Init, TypeOK, Index, Listener, Cnxn, Maximum
  <2>2. listed = {} /\ nodes = {}
    BY DEF Init
  <2>3. UNION {Up[where[l]] : l \in {}} = {}
    OBVIOUS
  <2> QED
    BY <2>1, <2>2, <2>3 DEF TreeInv, TreeLeadsToListeners
<1>2. TreeInv /\ [Next]_vars /\ TypeOK' => TreeInv'
  <2> SUFFICES ASSUME TreeInv, [Next]_vars, TypeOK'
               PROVE  (\A l \in listed : where[l] \in Path)' /\ TreeLeadsToListeners'
    BY DEF TreeInv
  <2>0. \A l \in listed : l \in Listener /\ l # issued + 1
    BY DEF TreeInv, TypeOK, Listener
  <2>1. ASSUME NEW d \in Path, Add(d)
        PROVE  (\A l \in listed : where[l] \in Path)' /\ TreeLeadsToListeners'
    <3>1. /\ issued + 1 \in Listener
          /\ listed' = listed \cup {issued + 1}
          /\ nodes' = nodes \cup Up[d]
          /\ where' = [where EXCEPT ![issued + 1] = d]
      BY <2>1, NewListenerType DEF Add, NewListener, TreeInv
    <3>2. where'[issued + 1] = d /\ \A l \in listed : where'[l] = where[l]
      BY <2>0, <3>1 DEF TreeInv, TypeOK
    <3> QED
      BY <3>1, <3>2 DEF TreeInv, TreeLeadsToListeners
  <2>2. ASSUME AddInvalid
        PROVE  (\A l \in listed : where[l] \in Path)' /\ TreeLeadsToListeners'
    <3>1. listed' = listed /\ nodes' = nodes
          /\ where' = [where EXCEPT ![issued + 1] = NoNode]
      BY <2>2 DEF AddInvalid, NewListener
    <3>2. \A l \in listed : where'[l] = where[l]
      BY <2>0, <3>1 DEF TreeInv, TypeOK
    <3> QED
      BY <3>1, <3>2 DEF TreeInv, TreeLeadsToListeners
  <2>3. ASSUME NEW asked \in Listener, Remove(asked)
        PROVE  (\A l \in listed : where[l] \in Path)' /\ TreeLeadsToListeners'
    <3>1. PICK l \in listed : Unlink(l)
      BY <2>3 DEF Remove, Matches
    <3>2. UNCHANGED where /\ listed' \subseteq listed
      BY <2>3, <3>1 DEF Remove, objects, Unlink
    <3> QED
      BY <3>1, <3>2, UnlinkKeepsTree DEF TreeInv
  <2>4. ASSUME UNCHANGED <<table, objects>>
        PROVE  (\A l \in listed : where[l] \in Path)' /\ TreeLeadsToListeners'
    BY <2>4 DEF table, objects, TreeInv, TreeLeadsToListeners
  <2>5. \/ \E d \in Path : Add(d)
        \/ AddInvalid
        \/ \E l \in Listener : Remove(l)
        \/ UNCHANGED <<table, objects>>
    BY DEF Next, vars, Notify, Callback, EndNotify, OtherTableAdd
  <2> QED
    BY <2>1, <2>2, <2>3, <2>4, <2>5
<1>3. TreeInv => TreeLeadsToListeners
  BY DEF TreeInv
<1> QED
  BY <1>1, <1>2, <1>3, TypeCorrect, PTL DEF Spec

-----------------------------------------------------------------------------
(***************************************************************************)
(* The count.  active is kept by arithmetic, and listed by adding and       *)
(* removing one listener that is, respectively is not, new.                 *)
(***************************************************************************)
THEOREM Active == Spec => []ActiveIsExact
<1>1. Init => ActiveIsExact
  BY FS_EmptySet DEF Init, ActiveIsExact
<1>2. TypeOK /\ ActiveIsExact /\ [Next]_vars => ActiveIsExact'
  <2> SUFFICES ASSUME TypeOK, ActiveIsExact, [Next]_vars PROVE ActiveIsExact'
    OBVIOUS
  <2>0. IsFiniteSet(listed) /\ Cardinality(listed) \in Nat /\ issued + 1 \notin listed
    <3>1. issued \in Int /\ listed \subseteq 1 .. issued
      BY DEF TypeOK
    <3>2. IsFiniteSet(1 .. issued)
      BY <3>1, FS_Interval
    <3>3. IsFiniteSet(listed)
      BY <3>1, <3>2, FS_Subset
    <3>4. Cardinality(listed) \in Nat
      BY <3>3, FS_CardinalityType
    <3> QED
      BY <3>1, <3>3, <3>4
  <2>1. ASSUME NEW d \in Path, Add(d) PROVE ActiveIsExact'
    <3>1. listed' = listed \cup {issued + 1} /\ active' = active + 1
      BY <2>1 DEF Add
    <3> QED
      BY <2>0, <3>1, FS_AddElement DEF ActiveIsExact
  <2>2. ASSUME NEW asked \in Listener, Remove(asked) PROVE ActiveIsExact'
    <3>1. PICK l \in listed : Unlink(l)
      BY <2>2 DEF Remove, Matches
    <3>2. listed' = listed \ {l} /\ active' = active - 1
      BY <3>1 DEF Unlink
    <3> QED
      BY <2>0, <3>2, FS_RemoveElement DEF ActiveIsExact
  <2>3. \/ \E d \in Path : Add(d)
        \/ \E l \in Listener : Remove(l)
        \/ UNCHANGED <<listed, active>>
    BY DEF Next, vars, table, AddInvalid, Notify, Callback, EndNotify, OtherTableAdd
  <2> QED
    BY <2>1, <2>2, <2>3 DEF ActiveIsExact
<1> QED
  BY <1>1, <1>2, TypeCorrect, PTL DEF Spec

-----------------------------------------------------------------------------
(***************************************************************************)
(* The reference counts.  RefcountsExact needs that only a listener still   *)
(* in the table can be removed, and that the lists notifications hold name  *)
(* no listener yet to come.                                                 *)
(***************************************************************************)
HoldsKnown ==
    /\ listed \cap removed = {}
    /\ \A f \in DOMAIN stack : stack[f].held \subseteq 1 .. issued

RefInv == TypeOK /\ HoldsKnown /\ RefcountsExact

LEMMA HoldersFinite ==
  ASSUME TypeOK
  PROVE  \A l : IsFiniteSet(Holders(l)) /\ Cardinality(Holders(l)) \in Nat
<1>1. Len(stack) \in Nat /\ DOMAIN stack = 1 .. Len(stack)
  BY LenProperties DEF TypeOK
<1>2. IsFiniteSet(DOMAIN stack)
  BY <1>1, FS_Interval
<1>3. \A l : IsFiniteSet(Holders(l))
  BY <1>2, FS_Subset DEF Holders
<1> QED
  BY <1>3, FS_CardinalityType

(* A listener just added is on no list. *)
LEMMA AddKeepsRefs ==
  ASSUME RefInv, NEW d \in Path \cup {NoNode}, NewListener(d), UNCHANGED <<removed, stack>>,
         listed' \subseteq listed \cup {issued + 1}
  PROVE  HoldsKnown' /\ RefcountsExact'
<1>1. /\ issued \in Nat /\ issued' = issued + 1 /\ issued + 1 \in Listener
      /\ removed \subseteq 1 .. issued
      /\ refs \in [Listener -> Int]
      /\ refs' = [refs EXCEPT ![issued + 1] = 1]
  <2>1. /\ issued' = issued + 1 /\ issued + 1 \in Listener
        /\ refs' = [refs EXCEPT ![issued + 1] = 1]
    BY NewListenerType DEF RefInv, NewListener
  <2> QED
    BY <2>1 DEF RefInv, TypeOK
<1>2. HoldsKnown'
  BY <1>1 DEF RefInv, HoldsKnown
<1>3. \A l : Holders(l)' = Holders(l)
  BY DEF Holders
<1>4. Holders(issued + 1) = {}
  BY <1>1 DEF RefInv, HoldsKnown, Holders
<1>5. ASSUME NEW l \in 1 .. issued'
      PROVE  refs'[l] = (IF l \in removed' THEN 0 ELSE 1) + Cardinality(Holders(l)')
  <2>1. CASE l = issued + 1
    <3>1. refs'[l] = 1 /\ l \notin removed
      BY <1>1, <2>1
    <3>2. Cardinality(Holders(l)') = 0
      BY <1>3, <1>4, <2>1, FS_EmptySet
    <3> QED
      BY <3>1, <3>2
  <2>2. CASE l # issued + 1
    <3>1. l \in 1 .. issued
      BY <1>1, <2>2
    <3>2. refs'[l] = refs[l]
      BY <1>1, <2>2
    <3> QED
      BY <1>3, <3>1, <3>2 DEF RefInv, RefcountsExact
  <2> QED
    BY <2>1, <2>2
<1> QED
  BY <1>2, <1>5 DEF RefcountsExact

(* The table gives up its reference when it unlinks a listener, and only then. *)
LEMMA UnlinkKeepsRefs ==
  ASSUME RefInv, NEW u \in listed, Unlink(u), UNCHANGED <<issued, stack>>
  PROVE  HoldsKnown' /\ RefcountsExact'
<1>1. /\ listed' = listed \ {u} /\ removed' = removed \cup {u}
      /\ refs' = [refs EXCEPT ![u] = @ - 1]
      /\ refs \in [Listener -> Int]
      /\ u \notin removed
      /\ issued \in Nat /\ 1 .. issued \subseteq Listener
  <2>1. /\ listed' = listed \ {u} /\ removed' = removed \cup {u}
        /\ refs' = [refs EXCEPT ![u] = @ - 1]
    BY Zenon DEF Unlink
  <2>2. u \notin removed
    BY DEF RefInv, HoldsKnown
  <2>3. refs \in [Listener -> Int]
    BY DEF RefInv, TypeOK
  <2>4. issued \in Nat /\ 1 .. issued \subseteq Listener
    BY DEF RefInv, TypeOK, Listener
  <2> QED
    BY <2>1, <2>2, <2>3, <2>4
<1>2. HoldsKnown'
  BY <1>1 DEF RefInv, HoldsKnown
<1>3. \A l : Holders(l)' = Holders(l)
  BY DEF Holders
<1>4. ASSUME NEW l \in 1 .. issued'
      PROVE  refs'[l] = (IF l \in removed' THEN 0 ELSE 1) + Cardinality(Holders(l)')
  <2>1. /\ refs[l] = (IF l \in removed THEN 0 ELSE 1) + Cardinality(Holders(l))
        /\ Cardinality(Holders(l)) \in Nat
        /\ Holders(l)' = Holders(l)
    BY <1>3, HoldersFinite DEF RefInv, RefcountsExact
  <2>2. refs'[l] = IF l = u THEN refs[l] - 1 ELSE refs[l]
    BY <1>1
  <2>3. (l \in removed') <=> (l = u \/ l \in removed)
    BY <1>1
  <2> QED
    BY <1>1, <2>1, <2>2, <2>3
<1> QED
  BY <1>2, <1>4 DEF RefcountsExact

(* A notification takes one reference to each listener it copies. *)
LEMMA NotifyKeepsRefs ==
  ASSUME RefInv, NEW key \in Path, Notify(key)
  PROVE  HoldsKnown' /\ RefcountsExact'
<1> DEFINE n == Len(stack)
           on == OnTheWay(key)
           frame == [held |-> on, pending |-> on]
<1>1. /\ stack \in Seq(Frame) /\ n \in Nat /\ DOMAIN stack = 1 .. n
      /\ issued \in Nat /\ listed \subseteq 1 .. issued /\ 1 .. issued \subseteq Listener
  BY LenProperties DEF RefInv, TypeOK, Listener
<1>2. UNCHANGED <<listed, removed, issued>> /\ stack' = Append(stack, frame)
  BY DEF Notify, table, objects
<1>3. on \subseteq 1 .. issued
  BY <1>1 DEF OnTheWay
<1>4. frame \in Frame /\ frame.held = on
  BY <1>1, <1>3 DEF Frame
<1> HIDE DEF frame, on
<1>5. /\ DOMAIN stack' = 1 .. n + 1
      /\ \A f \in 1 .. n : stack'[f] = stack[f]
      /\ stack'[n + 1] = frame
  BY <1>1, <1>2, <1>4, AppendProperties
<1>6. HoldsKnown'
  <2>1. \A f \in 1 .. n : stack[f].held \subseteq 1 .. issued
    BY <1>1 DEF RefInv, HoldsKnown
  <2>2. ASSUME NEW f \in 1 .. n + 1 PROVE stack'[f].held \subseteq 1 .. issued
    <3>1. CASE f \in 1 .. n
      BY <1>5, <2>1, <3>1
    <3>2. CASE f = n + 1
      <4>1. stack'[f].held = on
        BY <1>4, <1>5, <3>2
      <4> QED
        BY <1>3, <4>1
    <3> QED
      BY <1>1, <3>1, <3>2
  <2> QED
    BY <1>2, <1>5, <2>2 DEF RefInv, HoldsKnown
<1>7. \A l : Holders(l)' = IF l \in on THEN Holders(l) \cup {n + 1} ELSE Holders(l)
  BY <1>1, <1>4, <1>5 DEF Holders
<1>8. \A l : n + 1 \notin Holders(l)
  BY <1>1 DEF Holders
<1>9. ASSUME NEW l \in 1 .. issued'
      PROVE  refs'[l] = (IF l \in removed' THEN 0 ELSE 1) + Cardinality(Holders(l)')
  <2>1. /\ refs[l] = (IF l \in removed THEN 0 ELSE 1) + Cardinality(Holders(l))
        /\ l \in Listener
    BY <1>1, <1>2 DEF RefInv, RefcountsExact
  <2>2. IsFiniteSet(Holders(l)) /\ Cardinality(Holders(l)) \in Nat
    BY HoldersFinite DEF RefInv
  <2>3. refs'[l] = IF l \in on THEN refs[l] + 1 ELSE refs[l]
    BY <2>1 DEF Notify, on
  <2>4. Cardinality(Holders(l)') =
          IF l \in on THEN Cardinality(Holders(l)) + 1 ELSE Cardinality(Holders(l))
    BY <1>7, <1>8, <2>2, FS_AddElement
  <2> QED
    BY <1>2, <2>1, <2>2, <2>3, <2>4
<1> QED
  BY <1>6, <1>9 DEF RefcountsExact

(* The end of a notification gives back the references it took. *)
LEMMA EndKeepsRefs ==
  ASSUME RefInv, EndNotify
  PROVE  HoldsKnown' /\ RefcountsExact'
<1> DEFINE n == Len(stack)
<1>1. /\ stack \in Seq(Frame) /\ n \in Nat /\ n # 0 /\ DOMAIN stack = 1 .. n
      /\ issued \in Nat /\ 1 .. issued \subseteq Listener
  BY LenProperties, EmptySeq DEF RefInv, TypeOK, Listener, EndNotify
<1>2. UNCHANGED <<listed, removed, issued>> /\ stack' = SubSeq(stack, 1, n - 1)
  BY DEF EndNotify, table, objects
<1>3. DOMAIN stack' = 1 .. n - 1 /\ \A f \in 1 .. n - 1 : stack'[f] = stack[f]
  BY <1>1, <1>2, SubSeqProperties
<1>4. HoldsKnown'
  BY <1>1, <1>2, <1>3 DEF RefInv, HoldsKnown
<1>5. \A l : Holders(l)' = Holders(l) \ {n}
  BY <1>1, <1>3 DEF Holders
<1>6. \A l : n \in Holders(l) <=> l \in Top.held
  BY <1>1 DEF Holders, Top
<1>7. ASSUME NEW l \in 1 .. issued'
      PROVE  refs'[l] = (IF l \in removed' THEN 0 ELSE 1) + Cardinality(Holders(l)')
  <2>1. /\ refs[l] = (IF l \in removed THEN 0 ELSE 1) + Cardinality(Holders(l))
        /\ l \in Listener
    BY <1>1, <1>2 DEF RefInv, RefcountsExact
  <2>2. IsFiniteSet(Holders(l)) /\ Cardinality(Holders(l)) \in Nat
    BY HoldersFinite DEF RefInv
  <2>3. refs'[l] = IF l \in Top.held THEN refs[l] - 1 ELSE refs[l]
    BY <2>1 DEF EndNotify
  <2>4. Cardinality(Holders(l)') =
          IF n \in Holders(l) THEN Cardinality(Holders(l)) - 1 ELSE Cardinality(Holders(l))
    BY <1>5, <2>2, FS_RemoveElement
  <2> QED
    BY <1>2, <1>6, <2>1, <2>2, <2>3, <2>4
<1> QED
  BY <1>4, <1>7 DEF RefcountsExact

(* A callback does not change what is held. *)
LEMMA CallbackKeepsRefs ==
  ASSUME RefInv, Callback
  PROVE  HoldsKnown' /\ RefcountsExact'
<1>1. stack \in Seq(Frame) /\ Len(stack) \in DOMAIN stack /\ DOMAIN stack = 1 .. Len(stack)
  BY LenProperties, EmptySeq DEF RefInv, TypeOK, Callback
<1>2. UNCHANGED <<listed, removed, issued, refs>>
  BY DEF Callback, table, objects
<1>3. PICK l \in Top.pending : stack' = [stack EXCEPT ![Len(stack)].pending = @ \ {l}]
  BY DEF Callback
<1>4. DOMAIN stack' = DOMAIN stack /\ \A f \in DOMAIN stack : stack'[f].held = stack[f].held
  <2>1. stack[Len(stack)] \in Frame
    BY <1>1, ElementOfSeq
  <2>2. [stack[Len(stack)] EXCEPT !.pending = @ \ {l}].held = stack[Len(stack)].held
    BY <2>1 DEF Frame
  <2> QED
    BY <1>1, <1>3, <2>2
<1>5. \A m : Holders(m)' = Holders(m)
  BY <1>4 DEF Holders
<1>6. HoldsKnown'
  BY <1>2, <1>4 DEF RefInv, HoldsKnown
<1>7. RefcountsExact'
  BY <1>2, <1>5 DEF RefInv, RefcountsExact
<1> QED
  BY <1>6, <1>7

(***************************************************************************)
(* No listener is freed under a notification: whatever callbacks add,       *)
(* remove and notify, at any depth, each count is exactly the table's       *)
(* reference and one for each notification in progress that copied it.      *)
(***************************************************************************)
THEOREM Refcounts == Spec => []RefcountsExact
<1>1. Init => RefInv
  <2> SUFFICES ASSUME Init PROVE RefInv
    OBVIOUS
  <2>1. TypeOK
    BY DEF Init, TypeOK, Index, Listener, Cnxn, Maximum
  <2>2. listed = {} /\ issued = 0 /\ DOMAIN stack = {}
    BY DEF Init
  <2> QED
    BY <2>1, <2>2 DEF RefInv, HoldsKnown, RefcountsExact
<1>2. RefInv /\ [Next]_vars /\ TypeOK' => RefInv'
  <2> SUFFICES ASSUME RefInv, [Next]_vars, TypeOK' PROVE HoldsKnown' /\ RefcountsExact'
    BY DEF RefInv
  <2>1. ASSUME NEW d \in Path, Add(d) PROVE HoldsKnown' /\ RefcountsExact'
    BY <2>1, AddKeepsRefs DEF Add
  <2>2. CASE AddInvalid
    BY <2>2, AddKeepsRefs DEF AddInvalid
  <2>3. ASSUME NEW asked \in Listener, Remove(asked) PROVE HoldsKnown' /\ RefcountsExact'
    <3>1. PICK l \in listed : Unlink(l)
      BY <2>3 DEF Remove, Matches
    <3> QED
      BY <2>3, <3>1, UnlinkKeepsRefs DEF Remove, objects
  <2>4. ASSUME NEW key \in Path, Notify(key) PROVE HoldsKnown' /\ RefcountsExact'
    BY <2>4, NotifyKeepsRefs
  <2>5. CASE Callback
    BY <2>5, CallbackKeepsRefs
  <2>6. CASE EndNotify
    BY <2>6, EndKeepsRefs
  <2>7. CASE UNCHANGED <<table, issued, refs, stack>>
    BY <2>7 DEF table, RefInv, HoldsKnown, RefcountsExact, Holders
  <2> QED
    BY <2>1, <2>2, <2>3, <2>4, <2>5, <2>6, <2>7 DEF Next, vars, objects, OtherTableAdd
<1>3. RefInv => RefcountsExact
  BY DEF RefInv
<1> QED
  BY <1>1, <1>2, <1>3, TypeCorrect, PTL DEF Spec

-----------------------------------------------------------------------------
(***************************************************************************)
(* The uniqueness counter.  Each listener has the number of the tick that   *)
(* made it, modulo Wrap, and later listeners have later ticks.              *)
(***************************************************************************)
TicksInOrder ==
    /\ \A l \in 1 .. issued :
         cnxn[l].tick \in 0 .. ticks /\ cnxn[l].uniq = cnxn[l].tick % Wrap
    /\ \A l, m \in 1 .. issued : l < m => cnxn[l].tick < cnxn[m].tick

LEMMA Division ==
  ASSUME NEW w \in Int, w > 0, NEW a \in Int
  PROVE  a \div w \in Int /\ a = w * (a \div w) + (a % w)
BY Z3T(20)

LEMMA MultiplesApart ==
  ASSUME NEW w \in Nat \ {0}, NEW p \in Int, NEW q \in Int, w * p < w * q
  PROVE  w * q - w * p >= w
<1>1. q > p
  BY SMTT(20)
<1>2. PICK k \in Nat : q = p + 1 + k
  <2>1. q - p - 1 \in Nat
    BY <1>1
  <2> QED
    BY <2>1
<1>3. w * q = w * p + w + w * k
  BY <1>2
<1> QED
  BY <1>3

(* Numbers that are equal modulo w are at least w apart. *)
LEMMA CongruentApart ==
  ASSUME NEW w \in Nat \ {0}, NEW a \in Int, NEW b \in Int, a < b, a % w = b % w
  PROVE  b - a >= w
<1> DEFINE p == a \div w
           q == b \div w
           rest == a % w
<1>1. p \in Int /\ q \in Int /\ rest \in Int /\ a = w * p + rest /\ b = w * q + rest
  BY Division
<1> HIDE DEF p, q, rest
<1>2. w * p < w * q
  BY <1>1
<1> QED
  BY <1>1, <1>2, MultiplesApart

LEMMA NewListenerKeepsTicks ==
  ASSUME TypeOK, TicksInOrder, NEW d \in Path \cup {NoNode}, NewListener(d)
  PROVE  TicksInOrder'
<1>1. /\ issued \in Nat /\ issued' = issued + 1 /\ issued + 1 \in Listener
      /\ ticks \in Nat /\ ticks' = ticks + 1
      /\ cnxn \in [Listener -> Cnxn]
  <2>1. ticks \in Nat /\ issued \in Nat /\ cnxn \in [Listener -> Cnxn]
    BY DEF TypeOK, Maximum
  <2> QED
    BY <2>1, NewListenerType DEF NewListener, NextCnxn
<1>2. /\ cnxn'[issued + 1].tick = ticks'
      /\ cnxn'[issued + 1].uniq = ticks' % Wrap
      /\ \A l \in 1 .. issued : cnxn'[l] = cnxn[l]
  <2>1. cnxn' = [cnxn EXCEPT ![issued + 1] =
                    [index |-> NewIndex, uniq |-> ticks' % Wrap, tick |-> ticks']]
    BY DEF NewListener
  <2>2. 1 .. issued \subseteq Listener \ {issued + 1}
    BY <1>1 DEF Listener
  <2> QED
    BY <1>1, <2>1, <2>2
<1>3. \A l \in 1 .. issued' : l \in 1 .. issued \/ l = issued + 1
  BY <1>1
<1>4. ASSUME NEW l \in 1 .. issued'
      PROVE  cnxn'[l].tick \in 0 .. ticks' /\ cnxn'[l].uniq = cnxn'[l].tick % Wrap
  <2>1. CASE l = issued + 1
    BY <1>1, <1>2, <2>1
  <2>2. CASE l \in 1 .. issued
    BY <1>1, <1>2, <2>2 DEF TicksInOrder
  <2> QED
    BY <1>3, <2>1, <2>2
<1>5. ASSUME NEW l \in 1 .. issued', NEW m \in 1 .. issued', l < m
      PROVE  cnxn'[l].tick < cnxn'[m].tick
  <2>1. l \in 1 .. issued
    BY <1>1, <1>5
  <2>2. cnxn'[l].tick \in 0 .. ticks
    BY <1>2, <2>1 DEF TicksInOrder
  <2>3. CASE m = issued + 1
    BY <1>1, <1>2, <2>2, <2>3
  <2>4. CASE m \in 1 .. issued
    BY <1>2, <1>5, <2>1, <2>4 DEF TicksInOrder
  <2> QED
    BY <1>3, <2>3, <2>4
<1> QED
  BY <1>4, <1>5 DEF TicksInOrder

(***************************************************************************)
(* A stale id is recognised: two listeners have the same id only when the   *)
(* process handed out at least Wrap ids from the one to the other.          *)
(***************************************************************************)
THEOREM StaleIds == Spec => []StaleIdsDiffer
<1>1. Init => TicksInOrder
  BY DEF Init, TicksInOrder
<1>2. TypeOK /\ TicksInOrder /\ [Next]_vars => TicksInOrder'
  <2> SUFFICES ASSUME TypeOK, TicksInOrder, [Next]_vars PROVE TicksInOrder'
    OBVIOUS
  <2>1. ASSUME NEW d \in Path, Add(d) PROVE TicksInOrder'
    BY <2>1, NewListenerKeepsTicks DEF Add
  <2>2. CASE AddInvalid
    BY <2>2, NewListenerKeepsTicks DEF AddInvalid
  <2>3. CASE UNCHANGED objects /\ ticks' \in {ticks, ticks + 1}
    <3>1. ticks \in Nat
      BY DEF TypeOK, Maximum
    <3> QED
      BY <2>3, <3>1 DEF objects, TicksInOrder
  <2>4. \/ \E d \in Path : Add(d)
        \/ AddInvalid
        \/ UNCHANGED objects /\ ticks' \in {ticks, ticks + 1}
    BY DEF Next, vars, Remove, Notify, Callback, EndNotify, OtherTableAdd
  <2> QED
    BY <2>1, <2>2, <2>3, <2>4
<1>3. TypeOK /\ TicksInOrder => StaleIdsDiffer
  <2> SUFFICES ASSUME TypeOK, TicksInOrder, NEW l \in 1 .. issued, NEW m \in 1 .. issued,
                      l < m, Id(l) = Id(m)
               PROVE  cnxn[m].tick - cnxn[l].tick >= Wrap
    BY DEF StaleIdsDiffer
  <2>1. ticks \in Nat /\ cnxn[l].tick \in Int /\ cnxn[m].tick \in Int
    BY DEF TypeOK, TicksInOrder, Maximum
  <2>2. cnxn[l].tick < cnxn[m].tick /\ cnxn[l].tick % Wrap = cnxn[m].tick % Wrap
    BY DEF TicksInOrder, Id
  <2> QED
    BY <2>1, <2>2, CongruentApart
<1> QED
  BY <1>1, <1>2, <1>3, TypeCorrect, PTL DEF Spec
=============================================================================
