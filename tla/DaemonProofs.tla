---------------------------- MODULE DaemonProofs ----------------------------
(***************************************************************************)
(* Proofs about the gconfd process, for any storages, clients, path files    *)
(* and any number of databases, clean-ups and reloads.                      *)
(***************************************************************************)
EXTENDS Daemon, SequenceTheorems, WellFoundedInduction, TLAPS

USE DaemonAssumption

-----------------------------------------------------------------------------
(* Induction over a number: of a set of natural numbers one is the least.    *)
LEMMA NaturalOrder ==
  \E R : /\ IsWellFoundedOn(R, Nat)
         /\ \A x \in Nat, y \in Nat : x < y => <<x, y>> \in R
<1>1. \A x \in Nat, y \in Nat : x < y => <<x, y>> \in OpToRel(<, Nat)
  BY DEF OpToRel
<1> QED
  BY <1>1, NatLessThanWellFounded

LEMMA LeastNatural ==
  ASSUME NEW T \in SUBSET Nat, T # {}
  PROVE  \E x \in T : \A y \in T : x <= y
<1>1. PICK R : /\ IsWellFoundedOn(R, Nat)
               /\ \A x \in Nat, y \in Nat : x < y => <<x, y>> \in R
  BY NaturalOrder
<1>2. PICK x \in T : \A y \in T : ~(<<y, x>> \in R)
  <2>1. T \subseteq Nat /\ T # {} /\ IsWellFoundedOn(R, Nat)
    BY <1>1
  <2> QED
    BY ONLY <2>1, WFMin, Zenon
<1>3. \A y \in T : y \in Nat /\ ~(y < x)
  BY <1>1, <1>2
<1>4. \A y \in T : x <= y
  BY <1>3
<1> QED
  BY <1>4

(* A set that holds 0 and with each number up to n the next holds n.         *)
LEMMA UpTo ==
  ASSUME NEW n \in Nat, NEW G \in SUBSET (0..n), 0 \in G,
         \A i \in 1..n : i - 1 \in G => i \in G
  PROVE  n \in G
<1> SUFFICES ASSUME n \notin G PROVE FALSE
  OBVIOUS
<1>1. PICK T : T = (0..n) \ G
  OBVIOUS
<1>2. T \in SUBSET Nat /\ n \in T
  BY <1>1
<1>3. PICK x \in T : \A y \in T : x <= y
  BY <1>2, LeastNatural
<1>4. x \in 1..n /\ x - 1 \notin T
  BY <1>1, <1>2, <1>3
<1> QED
  BY <1>1, <1>4

-----------------------------------------------------------------------------
(* The sources of an address list that could be opened.                     *)
OpenedOf(s, f, n) ==
  f = [i \in 0..n |-> IF i = 0 THEN <<>>
                      ELSE IF s[i] \in resolvable THEN Append(f[i - 1], s[i]) ELSE f[i - 1]]

LEMMA OpenedExists ==
  ASSUME NEW s \in Seq(Addresses)
  PROVE  \E f : OpenedOf(s, f, Len(s))
<1> PICK n \in Nat : n = Len(s)
  BY LenProperties
<1> PICK G : G = {m \in 0..n : \E f : OpenedOf(s, f, m)}
  OBVIOUS
<1>1. 0 \in G
  <2>1. OpenedOf(s, [i \in 0..0 |-> <<>>], 0)
    BY DEF OpenedOf
  <2> QED
    BY <2>1
<1>2. ASSUME NEW m \in 1..n, m - 1 \in G PROVE m \in G
  <2>1. PICK g : OpenedOf(s, g, m - 1)
    BY <1>2
  <2>2. PICK last : last = IF s[m] \in resolvable THEN Append(g[m - 1], s[m]) ELSE g[m - 1]
    OBVIOUS
  <2>3. PICK f : f = [i \in 0..m |-> IF i = m THEN last ELSE g[i]]
    OBVIOUS
  <2>4. ASSUME NEW i \in 0..m
        PROVE  f[i] = IF i = 0 THEN <<>>
                      ELSE IF s[i] \in resolvable THEN Append(f[i - 1], s[i]) ELSE f[i - 1]
    <3>1. CASE i = m
      BY <2>2, <2>3, <3>1
    <3>2. CASE i # m
      <4>1. i \in 0..(m - 1) /\ f[i] = g[i]
        BY <2>3, <3>2
      <4>2. g[i] = IF i = 0 THEN <<>>
                   ELSE IF s[i] \in resolvable THEN Append(g[i - 1], s[i]) ELSE g[i - 1]
        BY <2>1, <4>1 DEF OpenedOf
      <4>3. i # 0 => i - 1 \in 0..m /\ i - 1 # m /\ f[i - 1] = g[i - 1]
        BY <2>3, <3>2
      <4> QED
        BY <4>1, <4>2, <4>3
    <3> QED
      BY <3>1, <3>2
  <2>5. OpenedOf(s, f, m)
    BY <2>3, <2>4 DEF OpenedOf
  <2> QED
    BY <2>5
<1>3. n \in G
  BY <1>1, <1>2, UpTo
<1> QED
  BY <1>3

LEMMA OpenedIs ==
  ASSUME NEW s \in Seq(Addresses)
  PROVE  \E f : OpenedOf(s, f, Len(s)) /\ Opened(s) = f[Len(s)]
<1> DEFINE g == CHOOSE f : f = [i \in 0..Len(s) |->
                      IF i = 0 THEN <<>>
                      ELSE IF s[i] \in resolvable THEN Append(f[i - 1], s[i]) ELSE f[i - 1]]
<1>1. OpenedOf(s, g, Len(s))
  <2>1. \E f : f = [i \in 0..Len(s) |->
                      IF i = 0 THEN <<>>
                      ELSE IF s[i] \in resolvable THEN Append(f[i - 1], s[i]) ELSE f[i - 1]]
    BY OpenedExists DEF OpenedOf
  <2> HIDE DEF g
  <2>2. g = [i \in 0..Len(s) |->
                      IF i = 0 THEN <<>>
                      ELSE IF s[i] \in resolvable THEN Append(g[i - 1], s[i]) ELSE g[i - 1]]
    BY <2>1, Zenon DEF g
  <2> QED
    BY <2>2 DEF OpenedOf
<1>2. Opened(s) = g[Len(s)]
  BY Zenon DEF Opened
<1> QED
  BY <1>1, <1>2

(* They are addresses of the list.                                          *)
LEMMA OpenedType ==
  ASSUME NEW s \in Seq(Addresses)
  PROVE  Opened(s) \in Seq(Addresses) /\ Range(Opened(s)) \subseteq Range(s)
<1> PICK n \in Nat : n = Len(s)
  BY LenProperties
<1>1. PICK f : OpenedOf(s, f, n) /\ Opened(s) = f[n]
  BY OpenedIs
<1> PICK G : G = {m \in 0..n : f[m] \in Seq(Addresses) /\ Range(f[m]) \subseteq Range(s)}
  OBVIOUS
<1>2. 0 \in G
  BY <1>1 DEF OpenedOf, Range
<1>3. ASSUME NEW m \in 1..n, m - 1 \in G PROVE m \in G
  <2>1. s[m] \in Addresses /\ s[m] \in Range(s)
    BY LenProperties DEF Range
  <2>2. f[m] \in {f[m - 1], Append(f[m - 1], s[m])}
    <3>1. m \in 0..n /\ m # 0
      OBVIOUS
    <3>2. f[m] = IF s[m] \in resolvable THEN Append(f[m - 1], s[m]) ELSE f[m - 1]
      BY <1>1, <3>1 DEF OpenedOf
    <3> QED
      BY <3>2
  <2> PICK prefix \in Seq(Addresses) : prefix = f[m - 1] /\ Range(prefix) \subseteq Range(s)
    BY <1>3
  <2>3. /\ Append(prefix, s[m]) \in Seq(Addresses)
        /\ Range(Append(prefix, s[m])) \subseteq Range(prefix) \cup {s[m]}
    BY <2>1, AppendProperties, LenProperties DEF Range
  <2>4. f[m] \in Seq(Addresses) /\ Range(f[m]) \subseteq Range(s)
    <3>1. f[m] = prefix \/ f[m] = Append(prefix, s[m])
      BY <2>2
    <3>2. f[m] \in Seq(Addresses)
      BY <2>3, <3>1
    <3>3. Range(f[m]) \subseteq Range(s)
      BY <2>1, <2>3, <3>1
    <3> QED
      BY <3>2, <3>3
  <2> QED
    BY <2>4
<1>4. n \in G
  <2>1. G \in SUBSET (0..n) /\ n \in Nat
    OBVIOUS
  <2>2. \A i \in 1..n : i - 1 \in G => i \in G
    BY <1>3
  <2> QED
    BY ONLY <1>2, <2>1, <2>2, UpTo
<1> QED
  BY <1>1, <1>4

-----------------------------------------------------------------------------
(* What a database and the account of the changes are.                      *)
DbOf ==
  [sources : Seq(Addresses) \ {<<>>}, name : Seq(Addresses), listeners : SUBSET Clients,
   idle : 0..(IdleLimit + 1), timer : BOOLEAN]

ChangesOf ==
  [dirty : SUBSET Addresses, failed : SUBSET Addresses, displaced : SUBSET Addresses,
   lost : SUBSET Addresses]

DbsOf(ds) == ds \in [DOMAIN ds -> DbOf]

PlannedIn(ds) ==
  {a \in Addresses : \E d \in DOMAIN ds : ds[d].timer /\ a \in Range(ds[d].sources)}

(* Nothing is lost, and what is dirty is in Q or has its excuse.             *)
KeptBy(ch, Q) ==
  /\ ch \in ChangesOf
  /\ ch.lost = {}
  /\ ch.dirty \subseteq Q \cup ch.failed \cup ch.displaced

LEMMA RangeType ==
  ASSUME NEW q \in Seq(Addresses)
  PROVE  Range(q) \subseteq Addresses
BY DEF Range

LEMMA HeldType ==
  ASSUME NEW ds, DbsOf(ds)
  PROVE  HeldBy(ds) \subseteq Addresses /\ PlannedIn(ds) \subseteq HeldBy(ds)
<1>1. \A d \in DOMAIN ds : Range(ds[d].sources) \subseteq Addresses
  <2> SUFFICES ASSUME NEW d \in DOMAIN ds PROVE Range(ds[d].sources) \subseteq Addresses
    OBVIOUS
  <2>1. ds[d].sources \in Seq(Addresses)
    BY DEF DbsOf, DbOf
  <2> QED
    BY <2>1, RangeType
<1>2. HeldBy(ds) \subseteq Addresses
  BY <1>1 DEF HeldBy
<1>3. PlannedIn(ds) \subseteq HeldBy(ds)
  BY DEF HeldBy, PlannedIn
<1> QED
  BY <1>2, <1>3

(* A save takes the addresses it covers off the plan.                       *)
LEMMA SavedKeeps ==
  ASSUME NEW ch, NEW as \in SUBSET Addresses, NEW bad \in SUBSET Addresses,
         NEW P, NEW Q, KeptBy(ch, P), P \subseteq Q \cup as
  PROVE  KeptBy(Saved(ch, as, bad), Q)
<1> PICK r : r = Saved(ch, as, bad)
  OBVIOUS
<1>1. ch \in ChangesOf /\ ch.lost = {} /\ ch.dirty \subseteq P \cup ch.failed \cup ch.displaced
  BY DEF KeptBy
<1>2. /\ r.dirty = ch.dirty \ (as \ bad)
      /\ r.failed = (ch.failed \ as) \cup (as \cap bad \cap ch.dirty)
      /\ r.displaced = ch.displaced \ (as \ bad)
      /\ r.lost = ch.lost
  BY <1>1 DEF Saved, ChangesOf
<1>3. r \in ChangesOf
  BY <1>1 DEF Saved, ChangesOf
<1>4. r.dirty \subseteq Q \cup r.failed \cup r.displaced
  BY <1>1, <1>2
<1> QED
  BY <1>1, <1>2, <1>3, <1>4 DEF KeptBy

(* Letting go of sources whose changes have an excuse, or that others hold,  *)
(* loses nothing.                                                          *)
LEMMA ReleasedKeeps ==
  ASSUME NEW ch, NEW as \in SUBSET Addresses, NEW others, NEW Q,
         KeptBy(ch, Q), Q \subseteq others
  PROVE  KeptBy(Released(ch, as, others), Q)
<1> PICK r : r = Released(ch, as, others)
  OBVIOUS
<1>1. ch \in ChangesOf /\ ch.lost = {} /\ ch.dirty \subseteq Q \cup ch.failed \cup ch.displaced
  BY DEF KeptBy
<1>2. /\ r.dirty = ch.dirty \ (as \ others)
      /\ r.failed = ch.failed
      /\ r.displaced = ch.displaced
      /\ r.lost = ch.lost \cup ((ch.dirty \cap (as \ others)) \ (ch.failed \cup ch.displaced))
  BY <1>1 DEF Released, ChangesOf
<1>3. r.lost = {}
  BY <1>1, <1>2
<1>4. r.dirty \subseteq Q \cup r.failed \cup r.displaced
  BY <1>1, <1>2
<1>5. r \in ChangesOf
  BY <1>1 DEF Released, ChangesOf
<1> QED
  BY <1>3, <1>4, <1>5 DEF KeptBy

-----------------------------------------------------------------------------
(* A state of the databases and the account in which every change is kept.   *)
Good(s) == DbsOf(s.dbs) /\ KeptBy(s.changes, PlannedIn(s.dbs))

(* gconf_database_set_sources keeps every change and changes nothing but the *)
(* sources of its database.                                                 *)
LEMMA SetSourcesKeeps ==
  ASSUME NEW s, Good(s), NEW d \in DOMAIN s.dbs, NEW new \in Seq(Addresses) \ {<<>>},
         NEW bad \in SUBSET Addresses
  PROVE  /\ Good(SetSources(s, d, new, bad))
         /\ SetSources(s, d, new, bad).dbs = [s.dbs EXCEPT ![d].sources = new]
<1> PICK ds : ds = [s.dbs EXCEPT ![d].sources = new]
  OBVIOUS
<1> PICK old : old = Range(s.dbs[d].sources)
  OBVIOUS
<1> PICK cleared : cleared = Saved(s.changes, old \cap Markup, bad)
  OBVIOUS
<1> PICK left : left = cleared.dirty \cap (old \ Range(new))
  OBVIOUS
<1> PICK taken : taken = [cleared EXCEPT !.displaced = @ \cup left]
  OBVIOUS
<1>1. SetSources(s, d, new, bad) = [dbs |-> ds, changes |-> Released(taken, old, HeldBy(ds))]
  BY DEF SetSources
<1>2. DbsOf(ds) /\ DOMAIN ds = DOMAIN s.dbs
  BY DEF Good, DbsOf, DbOf
<1>3. /\ \A e \in DOMAIN s.dbs : ds[e].timer = s.dbs[e].timer
      /\ \A e \in DOMAIN s.dbs : e # d => ds[e].sources = s.dbs[e].sources
      /\ ds[d].sources = new
  BY DEF Good, DbsOf, DbOf
<1>4. old \subseteq Addresses
  <2>1. s.dbs[d].sources \in Seq(Addresses)
    BY DEF Good, DbsOf, DbOf
  <2> QED
    BY <2>1, RangeType
<1>5. KeptBy(cleared, PlannedIn(s.dbs))
  BY <1>4, SavedKeeps DEF Good
<1>6. KeptBy(taken, PlannedIn(ds))
  <2>1. PlannedIn(s.dbs) \subseteq PlannedIn(ds) \cup (old \ Range(new))
    BY <1>2, <1>3 DEF PlannedIn
  <2>2. /\ cleared \in ChangesOf /\ cleared.lost = {}
        /\ cleared.dirty \subseteq PlannedIn(s.dbs) \cup cleared.failed \cup cleared.displaced
    BY <1>5 DEF KeptBy
  <2>3. left \subseteq Addresses
    BY <1>4
  <2>4. /\ taken \in ChangesOf /\ taken.lost = {}
        /\ taken.dirty = cleared.dirty /\ taken.failed = cleared.failed
        /\ taken.displaced = cleared.displaced \cup left
    BY <2>2, <2>3 DEF ChangesOf
  <2>5. taken.dirty \subseteq PlannedIn(ds) \cup taken.failed \cup taken.displaced
    BY <2>1, <2>2, <2>4
  <2> QED
    BY <2>4, <2>5 DEF KeptBy
<1>7. KeptBy(Released(taken, old, HeldBy(ds)), PlannedIn(ds))
  BY <1>2, <1>4, <1>6, HeldType, ReleasedKeeps
<1> QED
  BY <1>1, <1>2, <1>7 DEF Good

(* gconf_database_free keeps every change too, and leaves the others alone.  *)
LEMMA FreedKeeps ==
  ASSUME NEW s, Good(s), NEW dead \in SUBSET DOMAIN s.dbs, NEW bad \in SUBSET Addresses
  PROVE  /\ Good(Freed(s, dead, bad))
         /\ Freed(s, dead, bad).dbs = [d \in DOMAIN s.dbs \ dead |-> s.dbs[d]]
<1> PICK saving : saving = {d \in dead : s.dbs[d].timer}
  OBVIOUS
<1> PICK sds : sds = Only(s.dbs, saving)
  OBVIOUS
<1> PICK dds : dds = Only(s.dbs, dead)
  OBVIOUS
<1> PICK left : left = Only(s.dbs, DOMAIN s.dbs \ dead)
  OBVIOUS
<1> PICK saved : saved = Saved(s.changes, HeldBy(sds), bad)
  OBVIOUS
<1>1. Freed(s, dead, bad) = [dbs |-> left, changes |-> Released(saved, HeldBy(dds), HeldBy(left))]
  BY DEF Freed
<1>2. DbsOf(sds) /\ DbsOf(dds) /\ DbsOf(left)
  BY DEF Good, DbsOf, Only
<1>3. left = [d \in DOMAIN s.dbs \ dead |-> s.dbs[d]]
  BY DEF Only
<1>4. PlannedIn(s.dbs) \subseteq PlannedIn(left) \cup HeldBy(sds)
  BY <1>3 DEF PlannedIn, HeldBy, Only
<1>5. KeptBy(saved, PlannedIn(left))
  <2>1. HeldBy(sds) \in SUBSET Addresses
    BY <1>2, HeldType
  <2>2. KeptBy(s.changes, PlannedIn(s.dbs))
    BY DEF Good
  <2> QED
    BY <1>4, <2>1, <2>2, SavedKeeps
<1>6. KeptBy(Released(saved, HeldBy(dds), HeldBy(left)), PlannedIn(left))
  BY <1>2, <1>5, HeldType, ReleasedKeeps
<1>7. /\ Freed(s, dead, bad).dbs = left
      /\ Freed(s, dead, bad).changes = Released(saved, HeldBy(dds), HeldBy(left))
  BY <1>1
<1>8. Good(Freed(s, dead, bad))
  BY <1>2, <1>6, <1>7 DEF Good
<1> QED
  BY <1>3, <1>7, <1>8

-----------------------------------------------------------------------------
(* A reload, one database after the other.                                  *)
ReloadsOf(s, bad, f, n) ==
  f = [i \in 0..n |-> IF i = 0 THEN s ELSE ReloadNext(f[i - 1], Turn(i), bad)]

LEMMA ReloadsExist ==
  ASSUME NEW s, NEW bad, made \in Nat
  PROVE  \E f : ReloadsOf(s, bad, f, made)
<1> PICK n \in Nat : n = made
  OBVIOUS
<1> PICK G : G = {m \in 0..n : \E f : ReloadsOf(s, bad, f, m)}
  OBVIOUS
<1>1. 0 \in G
  <2>1. ReloadsOf(s, bad, [i \in 0..0 |-> s], 0)
    BY DEF ReloadsOf
  <2> QED
    BY <2>1
<1>2. ASSUME NEW m \in 1..n, m - 1 \in G PROVE m \in G
  <2>1. PICK g : ReloadsOf(s, bad, g, m - 1)
    BY <1>2
  <2>2. PICK last : last = ReloadNext(g[m - 1], Turn(m), bad)
    OBVIOUS
  <2>3. PICK f : f = [i \in 0..m |-> IF i = m THEN last ELSE g[i]]
    OBVIOUS
  <2>4. ASSUME NEW i \in 0..m
        PROVE  f[i] = IF i = 0 THEN s ELSE ReloadNext(f[i - 1], Turn(i), bad)
    <3>1. CASE i = m
      <4>1. m # 0 /\ m - 1 \in 0..m /\ m - 1 # m
        OBVIOUS
      <4> QED
        BY <2>2, <2>3, <3>1, <4>1
    <3>2. CASE i # m
      <4>1. i \in 0..(m - 1) /\ f[i] = g[i]
        BY <2>3, <3>2
      <4>2. g[i] = IF i = 0 THEN s ELSE ReloadNext(g[i - 1], Turn(i), bad)
        BY <2>1, <4>1 DEF ReloadsOf
      <4>3. i # 0 => i - 1 \in 0..m /\ i - 1 # m /\ f[i - 1] = g[i - 1]
        BY <2>3, <3>2
      <4> QED
        BY <4>1, <4>2, <4>3
    <3> QED
      BY <3>1, <3>2
  <2>5. ReloadsOf(s, bad, f, m)
    BY <2>3, <2>4 DEF ReloadsOf
  <2> QED
    BY <2>5
<1>3. n \in G
  <2>1. G \in SUBSET (0..n) /\ n \in Nat
    OBVIOUS
  <2>2. \A i \in 1..n : i - 1 \in G => i \in G
    BY <1>2
  <2> QED
    BY ONLY <1>1, <2>1, <2>2, UpTo
<1> QED
  BY <1>3

LEMMA ReloadedIs ==
  ASSUME NEW s, NEW bad, made \in Nat
  PROVE  \E f : ReloadsOf(s, bad, f, made) /\ Reloaded(s, bad) = f[made]
<1> DEFINE g == CHOOSE f : f = [i \in 0..made |->
                      IF i = 0 THEN s ELSE ReloadNext(f[i - 1], Turn(i), bad)]
<1>1. ReloadsOf(s, bad, g, made)
  <2>1. \E f : f = [i \in 0..made |-> IF i = 0 THEN s ELSE ReloadNext(f[i - 1], Turn(i), bad)]
    <3>1. \E f : ReloadsOf(s, bad, f, made)
      BY ReloadsExist
    <3> QED
      BY <3>1, Zenon DEF ReloadsOf
  <2> HIDE DEF g
  <2>2. g = [i \in 0..made |-> IF i = 0 THEN s ELSE ReloadNext(g[i - 1], Turn(i), bad)]
    BY <2>1, Zenon DEF g
  <2> QED
    BY <2>2 DEF ReloadsOf
<1>2. Reloaded(s, bad) = g[made]
  BY Zenon DEF Reloaded, Reloads
<1> QED
  BY <1>1, <1>2

(* The databases of ds are those there are, with no sources but their own;   *)
(* only the default database may have others.                               *)
SameDbs(ds) ==
  /\ DOMAIN ds = DOMAIN dbs
  /\ \A d \in DOMAIN dbs : ds[d].name = dbs[d].name
  /\ \A d \in DOMAIN dbs \ {DefaultDb} : Range(ds[d].sources) \subseteq Range(dbs[d].sources)

LEMMA ReloadNextKeeps ==
  ASSUME NEW s, Good(s), SameDbs(s.dbs), NEW bad \in SUBSET Addresses, NEW d,
         DbsOf(dbs), path \in PathLists
  PROVE  Good(ReloadNext(s, d, bad)) /\ SameDbs(ReloadNext(s, d, bad).dbs)
<1>1. CASE ~(d \in DOMAIN s.dbs /\ Reopened(d) # <<>>)
  BY <1>1 DEF ReloadNext
<1>2. CASE d \in DOMAIN s.dbs /\ Reopened(d) # <<>>
  <2> PICK new : new = Reopened(d)
    OBVIOUS
  <2>1. d \in DOMAIN dbs /\ dbs[d].sources \in Seq(Addresses)
    BY <1>2 DEF SameDbs, DbsOf, DbOf
  <2>2. new \in Seq(Addresses) /\ (d # DefaultDb => Range(new) \subseteq Range(dbs[d].sources))
    <3>1. CASE d = DefaultDb
      BY <3>1, OpenedType DEF Reopened
    <3>2. CASE d # DefaultDb
      BY <2>1, <3>2, OpenedType DEF Reopened
    <3> QED
      BY <3>1, <3>2
  <2>3. new \in Seq(Addresses) \ {<<>>} /\ d \in DOMAIN s.dbs
    BY <1>2, <2>2
  <2>4. PICK r : r = SetSources(s, d, new, bad)
    OBVIOUS
  <2>5. ReloadNext(s, d, bad) = r
    BY <1>2, <2>4 DEF ReloadNext
  <2>6. Good(r) /\ r.dbs = [s.dbs EXCEPT ![d].sources = new]
    BY <2>3, <2>4, SetSourcesKeeps
  <2>7. /\ DOMAIN r.dbs = DOMAIN s.dbs
        /\ \A e \in DOMAIN s.dbs : r.dbs[e].name = s.dbs[e].name
        /\ \A e \in DOMAIN s.dbs : e # d => r.dbs[e].sources = s.dbs[e].sources
        /\ r.dbs[d].sources = new
    <3>1. s.dbs[d] = [s.dbs[d] EXCEPT !.sources = @]
      BY <2>3 DEF Good, DbsOf, DbOf
    <3> QED
      BY ONLY <2>3, <2>6, <3>1
  <2>8. SameDbs(r.dbs)
    BY <2>2, <2>7 DEF SameDbs
  <2> QED
    BY <2>5, <2>6, <2>8
<1> QED
  BY <1>1, <1>2

LEMMA ReloadedKeeps ==
  ASSUME NEW s, Good(s), SameDbs(s.dbs), NEW bad \in SUBSET Addresses,
         DbsOf(dbs), path \in PathLists, made \in Nat
  PROVE  Good(Reloaded(s, bad)) /\ SameDbs(Reloaded(s, bad).dbs)
<1> PICK n \in Nat : n = made
  OBVIOUS
<1>1. PICK f : ReloadsOf(s, bad, f, n) /\ Reloaded(s, bad) = f[n]
  BY ReloadedIs
<1> PICK G : G = {m \in 0..n : Good(f[m]) /\ SameDbs(f[m].dbs)}
  OBVIOUS
<1>2. 0 \in G
  <2>1. f[0] = s
    BY <1>1 DEF ReloadsOf
  <2> QED
    BY <2>1
<1>3. ASSUME NEW m \in 1..n, m - 1 \in G PROVE m \in G
  <2>1. m \in 0..n /\ m # 0
    OBVIOUS
  <2>2. f[m] = ReloadNext(f[m - 1], Turn(m), bad)
    BY <1>1, <2>1 DEF ReloadsOf
  <2>3. Good(f[m - 1]) /\ SameDbs(f[m - 1].dbs)
    BY <1>3
  <2>4. Good(f[m]) /\ SameDbs(f[m].dbs)
    BY <2>2, <2>3, ReloadNextKeeps
  <2> QED
    BY <2>1, <2>4
<1>4. n \in G
  <2>1. G \in SUBSET (0..n) /\ n \in Nat
    OBVIOUS
  <2>2. \A i \in 1..n : i - 1 \in G => i \in G
    BY <1>3
  <2> QED
    BY ONLY <1>2, <2>1, <2>2, UpTo
<1> QED
  BY <1>1, <1>4

-----------------------------------------------------------------------------
(* The inductive invariant.                                                 *)
PlainInv ==
  /\ pc \in {"starting", "loaded", "entering", "running", "ended", "exited", "aborted"}
  /\ quit \in BOOLEAN /\ inShutdown \in BOOLEAN /\ needReload \in BOOLEAN /\ early \in BOOLEAN
  /\ connections \in 0..1
  /\ made \in 0..MaxDbs
  /\ path \in PathLists
  /\ resolvable \subseteq Addresses
  /\ outside \in 0..MaxOutside

DbsInv ==
  /\ DbsOf(dbs)
  /\ DOMAIN dbs \subseteq 1..made
  /\ pc = "starting" => DOMAIN dbs = {}

KeptInv == KeptBy(changes, PlannedIn(dbs))

(* The table leads to the database by its name, and only the default         *)
(* database has sources its name does not have.                             *)
NamedInv ==
  /\ \A n \in DOMAIN table : table[n] \in DOMAIN dbs /\ dbs[table[n]].name = n
  /\ \A d \in DOMAIN dbs \ {DefaultDb} : Range(dbs[d].sources) \subseteq Range(dbs[d].name)

IInv == PlainInv /\ DbsInv /\ KeptInv /\ NamedInv

LEMMA InitIInv == Init => IInv
<1> SUFFICES ASSUME Init PROVE IInv
  OBVIOUS
<1>1. PlainInv
  <2>1. /\ pc = "starting" /\ quit = FALSE /\ inShutdown = FALSE /\ needReload = FALSE
        /\ early = FALSE /\ path \in PathLists /\ resolvable \subseteq Addresses
    BY DEF Init
  <2>2. connections \in 0..1 /\ made \in 0..MaxDbs /\ outside \in 0..MaxOutside
    BY DEF Init
  <2> QED
    BY <2>1, <2>2 DEF PlainInv
<1>2. DOMAIN dbs = {} /\ DOMAIN table = {}
  BY DEF Init
<1>3. DbsInv
  <2>1. dbs = [d \in {} |-> dbs[d]]
    BY <1>2 DEF Init
  <2>2. DbsOf(dbs)
    BY <1>2, <2>1 DEF DbsOf
  <2> QED
    BY <1>2, <2>2 DEF DbsInv
<1>4. KeptInv
  BY DEF Init, KeptInv, KeptBy, ChangesOf
<1>5. NamedInv
  BY <1>2 DEF NamedInv
<1> QED
  BY <1>1, <1>3, <1>4, <1>5 DEF IInv

(* What a request to a database, its timer and the end of a client leave    *)
(* alone: which databases there are, their names and their sources.         *)
SourcesStay ==
  /\ DbsOf(dbs')
  /\ DOMAIN dbs' = DOMAIN dbs
  /\ \A d \in DOMAIN dbs : dbs'[d].name = dbs[d].name /\ dbs'[d].sources = dbs[d].sources
  /\ table' = table /\ made' = made /\ pc' = pc

LEMMA StayKeeps ==
  ASSUME DbsInv, NamedInv, SourcesStay
  PROVE  DbsInv' /\ NamedInv'
<1>1. DbsInv'
  BY DEF DbsInv, SourcesStay
<1>2. NamedInv'
  <2>1. \A n \in DOMAIN table : table[n] \in DOMAIN dbs /\ dbs[table[n]].name = n
    BY DEF NamedInv
  <2>2. \A n \in DOMAIN table' : table'[n] \in DOMAIN dbs' /\ dbs'[table'[n]].name = n
    BY <2>1 DEF SourcesStay
  <2>3. \A d \in DOMAIN dbs' \ {DefaultDb} : Range(dbs'[d].sources) \subseteq Range(dbs'[d].name)
    BY DEF NamedInv, SourcesStay
  <2> QED
    BY <2>2, <2>3 DEF NamedInv
<1> QED
  BY <1>1, <1>2

(* If besides no timer stopped and the account is the same, all changes are  *)
(* kept.                                                                   *)
LEMMA StayKept ==
  ASSUME KeptInv, SourcesStay, changes' = changes,
         \A d \in DOMAIN dbs : dbs[d].timer => dbs'[d].timer
  PROVE  KeptInv'
<1>1. PlannedIn(dbs) \subseteq PlannedIn(dbs')
  BY DEF SourcesStay, PlannedIn
<1> QED
  BY <1>1 DEF KeptInv, KeptBy

(* Steps of main() and of signals leave the databases alone.                *)
LEMMA IdleKeeps ==
  ASSUME DbsInv, KeptInv, NamedInv,
         dbs' = dbs, table' = table, made' = made, changes' = changes,
         pc' = "starting" => pc = "starting"
  PROVE  DbsInv' /\ KeptInv' /\ NamedInv'
<1>1. DbsInv'
  BY DEF DbsInv
<1>2. KeptInv'
  BY DEF KeptInv
<1>3. NamedInv'
  BY DEF NamedInv
<1> QED
  BY <1>1, <1>2, <1>3

(* An access to a database, with changes to its listeners and its timer.     *)
LEMMA AccessStays ==
  ASSUME DbsOf(dbs), NEW d \in DOMAIN dbs, NEW L \in SUBSET Clients, NEW t \in BOOLEAN,
         dbs' = [dbs EXCEPT ![d] = [dbs[d] EXCEPT !.idle = 0, !.listeners = L, !.timer = t]],
         table' = table, made' = made, pc' = pc
  PROVE  /\ SourcesStay
         /\ dbs'[d].timer = t
         /\ \A e \in DOMAIN dbs : e # d => dbs'[e].timer = dbs[e].timer
<1> PICK r : r = [dbs[d] EXCEPT !.idle = 0, !.listeners = L, !.timer = t]
  OBVIOUS
<1>1. r \in DbOf /\ r.sources = dbs[d].sources /\ r.name = dbs[d].name /\ r.timer = t
  <2>1. dbs[d] \in DbOf /\ 0 \in 0..(IdleLimit + 1)
    BY DEF DbsOf
  <2> QED
    BY <2>1 DEF DbOf
<1>2. dbs' = [dbs EXCEPT ![d] = r]
  OBVIOUS
<1>3. DbsOf(dbs') /\ DOMAIN dbs' = DOMAIN dbs
  BY <1>1, <1>2 DEF DbsOf
<1>4. dbs'[d] = r /\ \A e \in DOMAIN dbs : e # d => dbs'[e] = dbs[e]
  BY <1>2 DEF DbsOf
<1> QED
  BY <1>1, <1>3, <1>4 DEF SourcesStay

-----------------------------------------------------------------------------
(* One lemma for each action that touches the databases.                    *)
LEMMA LoadSourcesKeeps ==
  ASSUME IInv, LoadSources
  PROVE  DbsInv' /\ KeptInv' /\ NamedInv'
<1> PICK q \in Seq(Addresses) \ {<<>>} : q = Opened(path)
  <2>1. path \in Seq(Addresses)
    BY DEF IInv, PlainInv
  <2> QED
    BY <2>1, OpenedType DEF LoadSources
<1>1. /\ pc = "starting" /\ pc' = "loaded" /\ made' = 1 /\ changes' = changes
      /\ dbs' = [d \in {DefaultDb} |-> NewDatabase(q)]
      /\ table' = [n \in {q} |-> DefaultDb]
  BY DEF LoadSources
<1>2. NewDatabase(q) \in DbOf /\ NewDatabase(q).name = q
  BY DEF NewDatabase, DbOf
<1>3. DbsInv'
  BY <1>1, <1>2 DEF DbsInv, DbsOf, DefaultDb
<1>4. KeptInv'
  <2>1. PlannedIn(dbs) = {}
    BY <1>1 DEF IInv, DbsInv, PlannedIn
  <2> QED
    BY <1>1, <2>1 DEF IInv, KeptInv, KeptBy
<1>5. NamedInv'
  BY <1>1, <1>2 DEF NamedInv
<1> QED
  BY <1>3, <1>4, <1>5

LEMMA LoadAbortsKeeps ==
  ASSUME IInv, LoadAborts
  PROVE  DbsInv' /\ KeptInv' /\ NamedInv'
<1>1. pc' = "aborted" /\ made' = made /\ DOMAIN dbs' = {} /\ DOMAIN table' = {} /\ dbs' = <<>>
  BY DEF LoadAborts
<1>2. DbsOf(dbs')
  <2>1. dbs' = [d \in {} |-> dbs'[d]]
    BY <1>1
  <2> QED
    BY <1>1, <2>1 DEF DbsOf
<1>3. KeptInv'
  BY DEF LoadAborts, IInv, KeptInv, KeptBy, ChangesOf
<1> QED
  BY <1>1, <1>2, <1>3 DEF DbsInv, NamedInv

LEMMA ShutdownDatabasesKeeps ==
  ASSUME IInv, ShutdownDatabases
  PROVE  DbsInv' /\ KeptInv' /\ NamedInv'
<1>1. pc' = "exited" /\ made' = made /\ DOMAIN dbs' = {} /\ DOMAIN table' = {} /\ dbs' = <<>>
  BY DEF ShutdownDatabases
<1>2. DbsOf(dbs')
  <2>1. dbs' = [d \in {} |-> dbs'[d]]
    BY <1>1
  <2> QED
    BY <1>1, <2>1 DEF DbsOf
<1> PICK now : now = [dbs |-> dbs, changes |-> changes]
  OBVIOUS
<1>3. PICK bad \in SUBSET Addresses : changes' = Freed(now, DOMAIN dbs, bad).changes
  BY DEF ShutdownDatabases, Failures
<1>4. Good(now) /\ DOMAIN dbs \in SUBSET DOMAIN now.dbs
  BY DEF IInv, DbsInv, KeptInv, Good
<1> PICK left : left = Freed(now, DOMAIN dbs, bad)
  OBVIOUS
<1>5. Good(left) /\ left.dbs = [d \in DOMAIN now.dbs \ DOMAIN dbs |-> now.dbs[d]]
  <2> PICK dead : dead = DOMAIN dbs
    OBVIOUS
  <2>1. left = Freed(now, dead, bad) /\ Good(now) /\ dead \in SUBSET DOMAIN now.dbs
    BY <1>4
  <2>2. bad \in SUBSET Addresses
    OBVIOUS
  <2>3. /\ Good(Freed(now, dead, bad))
        /\ Freed(now, dead, bad).dbs = [d \in DOMAIN now.dbs \ dead |-> now.dbs[d]]
    BY ONLY <2>1, <2>2, FreedKeeps, DaemonAssumption
  <2> QED
    BY <2>1, <2>3
<1>6. PlannedIn(left.dbs) = {} /\ PlannedIn(dbs') = {}
  BY <1>1, <1>5 DEF PlannedIn
<1>7. KeptInv'
  BY <1>3, <1>5, <1>6 DEF KeptInv, Good
<1> QED
  BY <1>1, <1>2, <1>7 DEF DbsInv, NamedInv

LEMMA GetDatabaseKeeps ==
  ASSUME IInv, GetDatabase
  PROVE  DbsInv' /\ KeptInv' /\ NamedInv'
<1>1. PICK name \in Requests :
        /\ Opened(name) # <<>>
        /\ dbs' = Entered(dbs, made + 1, NewDatabase(Opened(name)))
        /\ table' = Entered(table, Opened(name), made + 1)
  BY DEF GetDatabase
<1> PICK q \in Seq(Addresses) \ {<<>>} : q = Opened(name)
  <2>1. name \in Seq(Addresses)
    OBVIOUS
  <2> QED
    BY <1>1, <2>1, OpenedType
<1> PICK k : k = made + 1
  OBVIOUS
<1> PICK db : db = NewDatabase(q)
  OBVIOUS
<1>2. /\ pc = "running" /\ pc' = pc /\ made' = k /\ changes' = changes
      /\ dbs' = Entered(dbs, k, db) /\ table' = Entered(table, q, k)
  BY <1>1 DEF GetDatabase, Serving, process
<1>3. db \in DbOf /\ db.name = q /\ db.sources = q /\ db.timer = FALSE
  BY DEF NewDatabase, DbOf
<1>4. made \in Nat /\ DOMAIN dbs \subseteq 1..made /\ DbsOf(dbs) /\ k \notin DOMAIN dbs
  BY DEF IInv, PlainInv, DbsInv
<1>5. /\ DOMAIN dbs' = DOMAIN dbs \cup {k} /\ dbs'[k] = db
      /\ \A d \in DOMAIN dbs : dbs'[d] = dbs[d]
  BY <1>2, <1>4 DEF Entered
<1>6. DbsOf(dbs')
  BY <1>2, <1>3, <1>4 DEF DbsOf, Entered
<1>7. DbsInv'
  BY <1>2, <1>4, <1>5, <1>6 DEF DbsInv
<1>8. KeptInv'
  <2>1. PlannedIn(dbs) \subseteq PlannedIn(dbs')
    BY <1>5 DEF PlannedIn
  <2> QED
    BY <1>2, <2>1 DEF IInv, KeptInv, KeptBy
<1>9. NamedInv'
  <2>1. \A n \in DOMAIN table : table[n] \in DOMAIN dbs /\ dbs[table[n]].name = n
    BY DEF IInv, NamedInv
  <2>2. ASSUME NEW n \in DOMAIN table'
        PROVE  table'[n] \in DOMAIN dbs' /\ dbs'[table'[n]].name = n
    <3>1. CASE n = q
      BY <1>2, <1>3, <1>5, <3>1 DEF Entered
    <3>2. CASE n # q
      <4>1. n \in DOMAIN table /\ table'[n] = table[n]
        BY <1>2, <3>2 DEF Entered
      <4> QED
        BY <1>5, <2>1, <4>1
    <3> QED
      BY <3>1, <3>2
  <2>3. \A d \in DOMAIN dbs' \ {DefaultDb} : Range(dbs'[d].sources) \subseteq Range(dbs'[d].name)
    BY <1>3, <1>5 DEF IInv, NamedInv
  <2> QED
    BY <2>2, <2>3 DEF NamedInv
<1> QED
  BY <1>7, <1>8, <1>9

(* A database that is used.                                                 *)
LEMMA QueryKeeps ==
  ASSUME IInv, Query
  PROVE  DbsInv' /\ KeptInv' /\ NamedInv'
<1>1. PICK d \in DOMAIN dbs : dbs' = [dbs EXCEPT ![d].idle = 0]
  BY DEF Query, Access
<1>2. table' = table /\ made' = made /\ pc' = pc /\ changes' = changes
  BY DEF Query, process
<1>3. DbsOf(dbs) /\ dbs[d] \in DbOf
  BY DEF IInv, DbsInv, DbsOf
<1>4. /\ dbs[d].listeners \in SUBSET Clients /\ dbs[d].timer \in BOOLEAN
      /\ dbs' = [dbs EXCEPT ![d] = [dbs[d] EXCEPT !.idle = 0, !.listeners = dbs[d].listeners,
                                                  !.timer = dbs[d].timer]]
  BY <1>1, <1>3 DEF DbOf
<1>5. SourcesStay /\ \A e \in DOMAIN dbs : dbs'[e].timer = dbs[e].timer
  BY <1>2, <1>3, <1>4, AccessStays
<1> QED
  BY <1>2, <1>5, StayKeeps, StayKept DEF IInv

LEMMA AddNotifyKeeps ==
  ASSUME IInv, AddNotify
  PROVE  DbsInv' /\ KeptInv' /\ NamedInv'
<1>1. PICK d \in DOMAIN dbs, c \in Clients : dbs' = [Access(d) EXCEPT ![d].listeners = @ \cup {c}]
  BY DEF AddNotify
<1>2. table' = table /\ made' = made /\ pc' = pc /\ changes' = changes
  BY DEF AddNotify, process
<1>3. DbsOf(dbs) /\ dbs[d] \in DbOf
  BY DEF IInv, DbsInv, DbsOf
<1>4. /\ dbs[d].listeners \cup {c} \in SUBSET Clients /\ dbs[d].timer \in BOOLEAN
      /\ dbs' = [dbs EXCEPT ![d] = [dbs[d] EXCEPT !.idle = 0,
                                                  !.listeners = dbs[d].listeners \cup {c},
                                                  !.timer = dbs[d].timer]]
  BY <1>1, <1>3 DEF DbOf, DbsOf, Access
<1>5. SourcesStay /\ \A e \in DOMAIN dbs : dbs'[e].timer = dbs[e].timer
  BY <1>2, <1>3, <1>4, AccessStays
<1> QED
  BY <1>2, <1>5, StayKeeps, StayKept DEF IInv

LEMMA RemoveNotifyKeeps ==
  ASSUME IInv, RemoveNotify
  PROVE  DbsInv' /\ KeptInv' /\ NamedInv'
<1>1. PICK d \in DOMAIN dbs : \E c \in dbs[d].listeners :
        dbs' = [Access(d) EXCEPT ![d].listeners = @ \ {c}]
  BY DEF RemoveNotify
<1>2. PICK c : dbs' = [Access(d) EXCEPT ![d].listeners = @ \ {c}]
  BY <1>1
<1>3. table' = table /\ made' = made /\ pc' = pc /\ changes' = changes
  BY DEF RemoveNotify, process
<1>4. DbsOf(dbs) /\ dbs[d] \in DbOf
  BY DEF IInv, DbsInv, DbsOf
<1>5. /\ dbs[d].listeners \ {c} \in SUBSET Clients /\ dbs[d].timer \in BOOLEAN
      /\ dbs' = [dbs EXCEPT ![d] = [dbs[d] EXCEPT !.idle = 0,
                                                  !.listeners = dbs[d].listeners \ {c},
                                                  !.timer = dbs[d].timer]]
  BY <1>2, <1>4 DEF DbOf, DbsOf, Access
<1>6. SourcesStay /\ \A e \in DOMAIN dbs : dbs'[e].timer = dbs[e].timer
  BY <1>3, <1>4, <1>5, AccessStays
<1> QED
  BY <1>3, <1>6, StayKeeps, StayKept DEF IInv

LEMMA ClientEndsKeeps ==
  ASSUME IInv, ClientEnds
  PROVE  DbsInv' /\ KeptInv' /\ NamedInv'
<1>1. PICK c : dbs' = [d \in DOMAIN dbs |-> [dbs[d] EXCEPT !.listeners = @ \ {c}]]
  BY DEF ClientEnds
<1>2. table' = table /\ made' = made /\ pc' = pc /\ changes' = changes
  BY DEF ClientEnds, process
<1>3. \A d \in DOMAIN dbs : dbs[d] \in DbOf
  BY DEF IInv, DbsInv, DbsOf
<1>4. DOMAIN dbs' = DOMAIN dbs /\ \A d \in DOMAIN dbs :
        /\ dbs'[d] \in DbOf /\ dbs'[d].timer = dbs[d].timer
        /\ dbs'[d].name = dbs[d].name /\ dbs'[d].sources = dbs[d].sources
  BY <1>1, <1>3 DEF DbOf
<1>5. DbsOf(dbs')
  BY <1>1, <1>4 DEF DbsOf
<1>6. SourcesStay
  BY <1>2, <1>4, <1>5 DEF SourcesStay
<1> QED
  BY <1>2, <1>4, <1>6, StayKeeps, StayKept DEF IInv

LEMMA ChangeKeeps ==
  ASSUME IInv, Change
  PROVE  DbsInv' /\ KeptInv' /\ NamedInv'
<1>1. PICK d \in DOMAIN dbs : \E i \in DOMAIN dbs[d].sources :
        /\ changes' = [changes EXCEPT !.dirty = @ \cup {dbs[d].sources[i]},
                                      !.failed = @ \ {dbs[d].sources[i]},
                                      !.displaced = @ \ {dbs[d].sources[i]}]
        /\ dbs' = [Access(d) EXCEPT ![d].timer = TRUE]
  BY DEF Change
<1>2. PICK i \in DOMAIN dbs[d].sources :
        /\ changes' = [changes EXCEPT !.dirty = @ \cup {dbs[d].sources[i]},
                                      !.failed = @ \ {dbs[d].sources[i]},
                                      !.displaced = @ \ {dbs[d].sources[i]}]
        /\ dbs' = [Access(d) EXCEPT ![d].timer = TRUE]
  BY <1>1
<1> PICK a : a = dbs[d].sources[i]
  OBVIOUS
<1>3. table' = table /\ made' = made /\ pc' = pc
  BY DEF Change, process
<1>4. DbsOf(dbs) /\ dbs[d] \in DbOf
  BY DEF IInv, DbsInv, DbsOf
<1>5. a \in Range(dbs[d].sources) /\ a \in Addresses
  <2>1. dbs[d].sources \in Seq(Addresses)
    BY <1>4 DEF DbOf
  <2>2. a \in Range(dbs[d].sources)
    BY DEF Range
  <2> QED
    BY <2>1, <2>2, RangeType
<1>6. /\ dbs[d].listeners \in SUBSET Clients
      /\ dbs' = [dbs EXCEPT ![d] = [dbs[d] EXCEPT !.idle = 0, !.listeners = dbs[d].listeners,
                                                  !.timer = TRUE]]
  BY <1>2, <1>4 DEF DbOf, DbsOf, Access
<1>7. SourcesStay /\ dbs'[d].timer = TRUE /\ \A e \in DOMAIN dbs : e # d => dbs'[e].timer = dbs[e].timer
  BY <1>3, <1>4, <1>6, AccessStays
<1>8. KeptInv'
  <2>1. PlannedIn(dbs) \cup {a} \subseteq PlannedIn(dbs')
    BY <1>5, <1>7 DEF SourcesStay, PlannedIn
  <2>2. /\ changes \in ChangesOf /\ changes.lost = {}
        /\ changes.dirty \subseteq PlannedIn(dbs) \cup changes.failed \cup changes.displaced
    BY DEF IInv, KeptInv, KeptBy
  <2>3. /\ changes' \in ChangesOf /\ changes'.lost = changes.lost
        /\ changes'.dirty = changes.dirty \cup {a}
        /\ changes'.failed = changes.failed \ {a}
        /\ changes'.displaced = changes.displaced \ {a}
    BY <1>2, <1>5, <2>2 DEF ChangesOf
  <2>4. changes'.dirty \subseteq PlannedIn(dbs') \cup changes'.failed \cup changes'.displaced
    BY <2>1, <2>2, <2>3
  <2> QED
    BY <2>2, <2>3, <2>4 DEF KeptInv, KeptBy
<1> QED
  BY <1>7, <1>8, StayKeeps DEF IInv

LEMMA SyncTimerKeeps ==
  ASSUME IInv, NEW d, SyncTimer(d)
  PROVE  DbsInv' /\ KeptInv' /\ NamedInv'
<1>1. PICK bad \in SUBSET Addresses : changes' = Saved(changes, Range(dbs[d].sources), bad)
  BY DEF SyncTimer, Failures
<1>2. table' = table /\ made' = made /\ pc' = pc /\ d \in DOMAIN dbs
  BY DEF SyncTimer, process
<1>3. DbsOf(dbs) /\ dbs[d] \in DbOf
  BY <1>2 DEF IInv, DbsInv, DbsOf
<1>4. /\ dbs[d].listeners \in SUBSET Clients
      /\ dbs' = [dbs EXCEPT ![d] = [dbs[d] EXCEPT !.idle = 0, !.listeners = dbs[d].listeners,
                                                  !.timer = FALSE]]
  BY <1>2, <1>3 DEF SyncTimer, DbOf, DbsOf, Access
<1>5. SourcesStay /\ \A e \in DOMAIN dbs : e # d => dbs'[e].timer = dbs[e].timer
  BY <1>2, <1>3, <1>4, AccessStays
<1>6. KeptInv'
  <2>1. PlannedIn(dbs) \subseteq PlannedIn(dbs') \cup Range(dbs[d].sources)
    BY <1>5 DEF SourcesStay, PlannedIn
  <2>2. Range(dbs[d].sources) \in SUBSET Addresses
    <3>1. dbs[d].sources \in Seq(Addresses)
      BY <1>3 DEF DbOf
    <3> QED
      BY <3>1, RangeType
  <2>3. KeptBy(changes, PlannedIn(dbs))
    BY DEF IInv, KeptInv
  <2>4. KeptBy(changes', PlannedIn(dbs'))
    BY <1>1, <2>1, <2>2, <2>3, SavedKeeps
  <2> QED
    BY <2>4 DEF KeptInv
<1> QED
  BY <1>5, <1>6, StayKeeps DEF IInv

(* The clean-up: the databases age, are reloaded, and some are dropped.      *)
LEMMA AgedSame ==
  ASSUME IInv
  PROVE  /\ Good([dbs |-> Aged, changes |-> changes])
         /\ SameDbs(Aged)
<1>1. \A d \in DOMAIN dbs : dbs[d] \in DbOf
  BY DEF IInv, DbsInv, DbsOf
<1>2. DOMAIN Aged = DOMAIN dbs
  BY DEF Aged
<1>3. ASSUME NEW d \in DOMAIN dbs
      PROVE  /\ Aged[d] \in DbOf /\ Aged[d].timer = dbs[d].timer
             /\ Aged[d].name = dbs[d].name /\ Aged[d].sources = dbs[d].sources
  <2> PICK idle : idle = IF dbs[d].idle > IdleLimit THEN dbs[d].idle ELSE dbs[d].idle + 1
    OBVIOUS
  <2>1. dbs[d] \in DbOf
    BY <1>1
  <2>2. idle \in 0..(IdleLimit + 1)
    BY <2>1 DEF DbOf
  <2>3. Aged[d] = [dbs[d] EXCEPT !.idle = idle]
    BY DEF Aged
  <2> QED
    BY <2>1, <2>2, <2>3 DEF DbOf
<1>4. DbsOf(Aged)
  <2>1. Aged = [d \in DOMAIN dbs |-> Aged[d]]
    BY DEF Aged
  <2> QED
    BY <1>2, <1>3, <2>1 DEF DbsOf
<1>5. SameDbs(Aged)
  BY <1>2, <1>3 DEF SameDbs
<1>6. PlannedIn(Aged) = PlannedIn(dbs)
  BY <1>2, <1>3 DEF PlannedIn
<1>7. Good([dbs |-> Aged, changes |-> changes])
  BY <1>4, <1>6 DEF Good, IInv, KeptInv
<1> QED
  BY <1>5, <1>7

LEMMA CleanupKeeps ==
  ASSUME IInv, Cleanup
  PROVE  DbsInv' /\ KeptInv' /\ NamedInv'
<1> PICK now : now = [dbs |-> Aged, changes |-> changes]
  OBVIOUS
<1>1. PICK bad \in SUBSET Addresses :
        /\ dbs' = Freed(IF needReload THEN Reloaded(now, bad) ELSE now,
                        Unused((IF needReload THEN Reloaded(now, bad) ELSE now).dbs), bad).dbs
        /\ changes' = Freed(IF needReload THEN Reloaded(now, bad) ELSE now,
                        Unused((IF needReload THEN Reloaded(now, bad) ELSE now).dbs), bad).changes
        /\ table' = Unlisted(Unused((IF needReload THEN Reloaded(now, bad) ELSE now).dbs))
  BY DEF Cleanup, Failures
<1> PICK s : s = IF needReload THEN Reloaded(now, bad) ELSE now
  OBVIOUS
<1> PICK dead : dead = Unused(s.dbs)
  OBVIOUS
<1> PICK left : left = Freed(s, dead, bad)
  OBVIOUS
<1>2. dbs' = left.dbs /\ changes' = left.changes /\ table' = Unlisted(dead)
  BY <1>1
<1>3. made' = made /\ pc' = pc /\ pc = "running"
  BY DEF Cleanup
<1>4. Good(now) /\ SameDbs(now.dbs)
  BY AgedSame
<1>5. Good(s) /\ SameDbs(s.dbs)
  <2>1. DbsOf(dbs) /\ path \in PathLists /\ made \in Nat
    BY DEF IInv, PlainInv, DbsInv
  <2>2. Good(Reloaded(now, bad)) /\ SameDbs(Reloaded(now, bad).dbs)
    BY <1>4, <2>1, ReloadedKeeps
  <2> QED
    BY <1>4, <2>2
<1>6. dead \in SUBSET DOMAIN s.dbs
  BY DEF Unused
<1>7. Good(left) /\ left.dbs = [d \in DOMAIN s.dbs \ dead |-> s.dbs[d]]
  <2>1. bad \in SUBSET Addresses /\ left = Freed(s, dead, bad)
    OBVIOUS
  <2>2. Good(Freed(s, dead, bad)) /\ Freed(s, dead, bad).dbs = [d \in DOMAIN s.dbs \ dead |-> s.dbs[d]]
    BY ONLY <1>5, <1>6, <2>1, FreedKeeps, DaemonAssumption
  <2> QED
    BY <2>1, <2>2
<1>8. DOMAIN dbs' = DOMAIN dbs \ dead /\ \A d \in DOMAIN dbs \ dead : dbs'[d] = s.dbs[d]
  BY <1>2, <1>5, <1>7 DEF SameDbs
<1>9. DbsInv'
  BY <1>2, <1>3, <1>7, <1>8 DEF IInv, DbsInv, Good
<1>10. KeptInv'
  BY <1>2, <1>7 DEF KeptInv, Good
<1>11. NamedInv'
  <2>1. \A n \in DOMAIN table : table[n] \in DOMAIN dbs /\ dbs[table[n]].name = n
    BY DEF IInv, NamedInv
  <2>2. ASSUME NEW n \in DOMAIN table'
        PROVE  table'[n] \in DOMAIN dbs' /\ dbs'[table'[n]].name = n
    <3>1. n \in DOMAIN table /\ table'[n] = table[n] /\ n \notin {dbs[d].name : d \in dead}
      BY <1>2 DEF Unlisted
    <3>2. table[n] \notin dead
      BY <2>1, <3>1
    <3> QED
      BY <1>5, <1>8, <2>1, <3>1, <3>2 DEF SameDbs
  <2>3. \A d \in DOMAIN dbs \ {DefaultDb} : Range(dbs[d].sources) \subseteq Range(dbs[d].name)
    BY DEF IInv, NamedInv
  <2>4. \A d \in DOMAIN dbs' \ {DefaultDb} : Range(dbs'[d].sources) \subseteq Range(dbs'[d].name)
    BY <1>5, <1>8, <2>3 DEF SameDbs
  <2> QED
    BY <2>2, <2>4 DEF NamedInv
<1> QED
  BY <1>9, <1>10, <1>11

-----------------------------------------------------------------------------
LEMMA PlainStep ==
  ASSUME IInv, Next
  PROVE  PlainInv'
<1> USE DEF PlainInv, IInv, process, environment
<1>1. MaxDbs \in Nat \ {0} /\ 1 \in 0..MaxDbs
  OBVIOUS
<1>2. CASE LoadSources
  BY <1>1, <1>2 DEF LoadSources
<1>3. CASE LoadAborts
  BY <1>3 DEF LoadAborts
<1>4. CASE EnterLoop \/ RunLoop \/ LoopReturns
  BY <1>4 DEF EnterLoop, RunLoop, LoopReturns
<1>5. CASE ShutdownDatabases
  BY <1>5 DEF ShutdownDatabases
<1>6. CASE Sigterm \/ Sighup
  BY <1>6 DEF Sigterm, Sighup
<1>7. CASE Disconnected \/ HandleShutdown
  <2>1. CASE Disconnected
    BY <2>1 DEF Disconnected
  <2>2. CASE HandleShutdown
    <3>1. connections' \in 0..1 /\ quit' \in BOOLEAN
      BY <2>2 DEF HandleShutdown
    <3> QED
      BY <2>2, <3>1 DEF HandleShutdown
  <2> QED
    BY <1>7, <2>1, <2>2
<1>8. CASE GetDatabase
  BY <1>1, <1>8 DEF GetDatabase
<1>9. CASE Query \/ Change \/ AddNotify \/ RemoveNotify \/ ClientEnds
  BY <1>9 DEF Query, Change, AddNotify, RemoveNotify, ClientEnds
<1>10. CASE \E d \in 1..MaxDbs : SyncTimer(d)
  BY <1>10 DEF SyncTimer
<1>11. CASE Cleanup
  <2>1. PICK b \in BOOLEAN : quit' = (quit \/ b)
    <3>1. PICK bad \in Failures :
            quit' = (quit \/ (NoneInUse(Freed(IF needReload THEN Reloaded([dbs |-> Aged, changes |-> changes], bad)
                                              ELSE [dbs |-> Aged, changes |-> changes],
                              Unused((IF needReload THEN Reloaded([dbs |-> Aged, changes |-> changes], bad)
                                      ELSE [dbs |-> Aged, changes |-> changes]).dbs), bad).dbs)
                              /\ connections = 0))
      BY <1>11 DEF Cleanup
    <3> QED
      BY <3>1
  <2>2. quit' \in BOOLEAN
    BY <2>1
  <2> QED
    BY <1>11, <2>2 DEF Cleanup
<1>12. CASE EditPath
  BY <1>12 DEF EditPath, Outside
<1>13. CASE StorageChanges
  <2>1. outside \in Nat /\ outside' = outside + 1 /\ outside' \in 0..MaxOutside
    BY <1>13 DEF StorageChanges, Outside
  <2>2. resolvable' \subseteq Addresses
    BY <1>13 DEF StorageChanges, Outside
  <2> QED
    BY <1>13, <2>1, <2>2 DEF StorageChanges, Outside
<1> QED
  BY <1>2, <1>3, <1>4, <1>5, <1>6, <1>7, <1>8, <1>9, <1>10, <1>11, <1>12, <1>13 DEF Next

LEMMA Inductive == IInv /\ [Next]_vars => IInv'
<1> SUFFICES ASSUME IInv, [Next]_vars PROVE IInv'
  OBVIOUS
<1>1. CASE Next
  <2>1. DbsInv' /\ KeptInv' /\ NamedInv'
    <3>1. CASE LoadSources
      BY <3>1, LoadSourcesKeeps
    <3>2. CASE LoadAborts
      BY <3>2, LoadAbortsKeeps
    <3>3. CASE ShutdownDatabases
      BY <3>3, ShutdownDatabasesKeeps
    <3>4. CASE GetDatabase
      BY <3>4, GetDatabaseKeeps
    <3>5. CASE Query
      BY <3>5, QueryKeeps
    <3>6. CASE Change
      BY <3>6, ChangeKeeps
    <3>7. CASE AddNotify
      BY <3>7, AddNotifyKeeps
    <3>8. CASE RemoveNotify
      BY <3>8, RemoveNotifyKeeps
    <3>9. CASE ClientEnds
      BY <3>9, ClientEndsKeeps
    <3>10. CASE \E d \in 1..MaxDbs : SyncTimer(d)
      BY <3>10, SyncTimerKeeps
    <3>11. CASE Cleanup
      BY <3>11, CleanupKeeps
    <3>12. CASE EnterLoop \/ RunLoop \/ LoopReturns
      <4>1. /\ dbs' = dbs /\ table' = table /\ made' = made /\ changes' = changes
            /\ pc' # "starting"
        BY <3>12 DEF EnterLoop, RunLoop, LoopReturns
      <4> QED
        BY <4>1, IdleKeeps DEF IInv
    <3>13. CASE Sigterm \/ Sighup \/ Disconnected \/ HandleShutdown
      <4>1. /\ dbs' = dbs /\ table' = table /\ made' = made /\ changes' = changes /\ pc' = pc
        BY <3>13 DEF Sigterm, Sighup, Disconnected, HandleShutdown
      <4> QED
        BY <4>1, IdleKeeps DEF IInv
    <3>14. CASE EditPath \/ StorageChanges
      <4>1. /\ dbs' = dbs /\ table' = table /\ made' = made /\ changes' = changes /\ pc' = pc
        BY <3>14 DEF EditPath, StorageChanges, Outside, process
      <4> QED
        BY <4>1, IdleKeeps DEF IInv
    <3> QED
      BY <1>1, <3>1, <3>2, <3>3, <3>4, <3>5, <3>6, <3>7, <3>8, <3>9, <3>10, <3>11, <3>12,
         <3>13, <3>14 DEF Next
  <2> QED
    BY <1>1, <2>1, PlainStep DEF IInv
<1>2. CASE UNCHANGED vars
  <2>1. DbsInv' /\ KeptInv' /\ NamedInv'
    BY <1>2, IdleKeeps DEF IInv, vars
  <2>2. PlainInv'
    BY <1>2 DEF IInv, PlainInv, vars
  <2> QED
    BY <2>1, <2>2 DEF IInv
<1> QED
  BY <1>1, <1>2

(* IInv holds in every state of the specification.                          *)
LEMMA Invariance == Spec => []IInv
<1> QED
  BY InitIInv, Inductive, PTL DEF Spec

-----------------------------------------------------------------------------
(* The databases of gconfd, the account of their changes and the state of    *)
(* main() are always well formed (gconfd.c, gconf_database_new).            *)
THEOREM TypeCorrect == Spec => []TypeOK
<1>1. IInv => TypeOK
  <2> SUFFICES ASSUME IInv PROVE TypeOK
    OBVIOUS
  <2>1. \A d \in DOMAIN dbs : dbs[d] \in DbOf
    BY DEF IInv, DbsInv, DbsOf
  <2>2. \A d \in DOMAIN dbs :
          /\ dbs[d].sources \in Seq(Addresses) /\ dbs[d].sources # <<>>
          /\ dbs[d].name \in Seq(Addresses)
          /\ dbs[d].listeners \subseteq Clients
          /\ dbs[d].idle \in 0..(IdleLimit + 1)
          /\ dbs[d].timer \in BOOLEAN
    BY <2>1 DEF DbOf
  <2>3. changes \in [{"dirty", "failed", "displaced", "lost"} -> SUBSET Addresses]
    BY DEF IInv, KeptInv, KeptBy, ChangesOf
  <2> QED
    BY <2>2, <2>3 DEF IInv, PlainInv, DbsInv, TypeOK
<1> QED
  BY <1>1, Invariance, PTL

(* A change gconfd acknowledged is on disk, or in a cache that a database    *)
(* with a planned save holds, unless a save of it failed or a reload took    *)
(* its storage out of the database: for any number of databases and any      *)
(* order of clean-ups, reloads, drops and the end (gconf_database_free,      *)
(* gconf_database_set_sources).                                             *)
THEOREM ChangesKept == Spec => []ChangesAreKept
<1>1. IInv => ChangesAreKept
  BY DEF IInv, KeptInv, KeptBy, PlannedIn, Planned, ChangesAreKept
<1> QED
  BY <1>1, Invariance, PTL

(* The table of databases leads to none that was freed, and from a name to   *)
(* no other storages than the name's, whatever was opened, reloaded and      *)
(* dropped (register_database, unregister_database).                        *)
THEOREM TableTrue == Spec => []TableIsTrue
<1>1. IInv => TableIsTrue
  BY DEF IInv, NamedInv, TableIsTrue
<1> QED
  BY <1>1, Invariance, PTL
=============================================================================
