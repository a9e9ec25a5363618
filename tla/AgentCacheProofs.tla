-------------------------- MODULE AgentCacheProofs --------------------------
(* What AgentCache promises for any number of sessions, slots and keys: an  *)
(* item in use stays as it is, and its lock count is the number of its      *)
(* users.  The two need each other: housekeeping spares the items with a    *)
(* lock count, which is why those in use stay; and because those in use     *)
(* stay in the list, each is found and unlocked when its user is done.      *)
(* From both follows how long the list gets, what is handed out, and where  *)
(* a passphrase that was replaced can still be.                             *)
EXTENDS AgentCacheLast, FiniteSetTheorems, TLAPS

IInv == TypeOK /\ HeldStays /\ LockcountExact

\* What an action that stores nothing and hands out nothing does.
Swept ==
  /\ used' = Remaining
  /\ before' = Without(used \ Remaining)
  /\ UNCHANGED <<held, sent, now>>

-----------------------------------------------------------------------------
\* The updates that more than one of the operations make.
LEMMA Wiped ==
  ASSUME NEW r \in Item, NEW a \in Nat
  PROVE  /\ [r EXCEPT !.pw = NoData, !.accessed = a] \in Item
         /\ [r EXCEPT !.pw = NoData, !.accessed = a].lockcount = r.lockcount
<1>1. [r EXCEPT !.pw = NoData, !.accessed = a] \in Item
  BY DEF Item
<1>2. [r EXCEPT !.pw = NoData, !.accessed = a].lockcount = r.lockcount
  BY DEF Item
<1> QED
  BY <1>1, <1>2

LEMMA Touched ==
  ASSUME NEW r \in Item, NEW a \in Nat, NEW n \in Nat
  PROVE  /\ [r EXCEPT !.accessed = a, !.lockcount = @ + n] \in Item
         /\ [r EXCEPT !.accessed = a, !.lockcount = @ + n].lockcount
               = r.lockcount + n
         /\ [r EXCEPT !.accessed = a, !.lockcount = @ + n].pw = r.pw
<1>1. [r EXCEPT !.accessed = a, !.lockcount = @ + n] \in Item
  <2> DEFINE x == [r EXCEPT !.accessed = a]
  <2>1. x \in Item
    BY DEF Item
  <2> HIDE DEF x
  <2>2. x.lockcount + n \in Nat
    BY <2>1 DEF Item
  <2>3. [x EXCEPT !.lockcount = x.lockcount + n] \in Item
    BY <2>1, <2>2 DEF Item
  <2> QED BY <2>3 DEF x
<1>2. [r EXCEPT !.accessed = a, !.lockcount = @ + n].lockcount = r.lockcount + n
  BY DEF Item
<1>3. [r EXCEPT !.accessed = a, !.lockcount = @ + n].pw = r.pw
  BY DEF Item
<1> QED
  BY <1>1, <1>2, <1>3

\* The sessions that use an item are finitely many.
LEMMA HoldersFinite ==
  ASSUME NEW s PROVE IsFiniteSet(Holders(s)) /\ Cardinality(Holders(s)) \in Nat
  BY CacheAssumption, FS_Subset, FS_CardinalityType DEF Holders, CacheAssumption

\* An item in use has a positive lock count.
LEMMA HeldIsLocked ==
  ASSUME IInv, NEW t \in Thread, held[t] # NoSlot
  PROVE  /\ held[t] \in used /\ held[t] \in Slot
         /\ item[held[t]].lockcount > 0
         /\ item[held[t]].pw = sent[t] /\ sent[t] # NoData
<1> DEFINE s == held[t]
<1>1. s \in used /\ s \in Slot
  BY DEF IInv, TypeOK, HeldStays
<1>2. t \in Holders(s)
  BY DEF Holders
<1>3. Cardinality(Holders(s)) \in Nat /\ Cardinality(Holders(s)) # 0
  BY <1>2, HoldersFinite, FS_EmptySet
<1>4. item[s].lockcount = Cardinality(Holders(s))
  BY <1>1 DEF IInv, LockcountExact
<1> QED
  BY <1>1, <1>3, <1>4 DEF IInv, HeldStays

\* An item that is not in the list is not locked.
LEMMA OutsideUnlocked ==
  ASSUME IInv, NEW s \in Slot, s \notin used PROVE item[s].lockcount = 0
<1>1. Holders(s) = {}
  BY CacheAssumption DEF IInv, HeldStays, Holders, CacheAssumption
<1> QED
  BY <1>1, FS_EmptySet DEF IInv, LockcountExact

\* A record for a slot that is not in use is an item.
LEMMA AnyItemType == AnyItem \in Item /\ AnyItem.lockcount = 0
  BY CacheAssumption DEF AnyItem, Item, Mode, CacheAssumption

\* Housekeeping keeps every lock count, and the passphrase of a locked item.
LEMMA Housekeeping ==
  ASSUME IInv, NEW s \in Slot
  PROVE  /\ Kept(s) \in Item
         /\ Kept(s).lockcount = item[s].lockcount
         /\ Remaining \subseteq used
         /\ item[s].lockcount > 0 => s \in Remaining /\ Kept(s).pw = item[s].pw
<1> USE DEF IInv, TypeOK
<1>1. item[s] \in Item /\ now \in Nat /\ Delay \in Nat /\ SlotAge \in Nat
  BY CacheAssumption DEF CacheAssumption
<1>2. Remaining \subseteq used
  BY DEF Remaining
<1>3. ASSUME NEW r \in Item
      PROVE  /\ Expire(r) \in Item /\ Expire(r).lockcount = r.lockcount
             /\ r.lockcount > 0 => Expire(r) = r
  <2>1. CASE r.lockcount = 0 /\ r.pw # NoData /\ (Unused(r) \/ TooOld(r))
    <3>1. Expire(r) = [r EXCEPT !.pw = NoData, !.accessed = now]
      BY <2>1 DEF Expire
    <3> DEFINE w == [r EXCEPT !.pw = NoData, !.accessed = now]
    <3>3. w \in Item /\ w.lockcount = r.lockcount
      BY <1>1, Wiped
    <3> HIDE DEF w
    <3>2. Expire(r) \in Item /\ Expire(r).lockcount = r.lockcount
      BY <3>1, <3>3 DEF w
    <3> QED BY <2>1, <3>2
  <2>2. CASE ~ (r.lockcount = 0 /\ r.pw # NoData /\ (Unused(r) \/ TooOld(r)))
    BY <2>2 DEF Expire
  <2> QED BY <2>1, <2>2
<1> DEFINE e == Expire(item[s])
<1>4. /\ Postpone(e) \in Item
      /\ Postpone(e).lockcount = e.lockcount /\ Postpone(e).pw = e.pw
  <2>1. e \in Item
    BY <1>1, <1>3
  <2> HIDE DEF e
  <2> QED BY ONLY <1>1, <2>1 DEF Postpone, Item
<1>5. s \notin Remaining => item[s].lockcount = 0
  BY OutsideUnlocked DEF Remaining
<1>6. CASE s \in Remaining
  BY <1>1, <1>2, <1>3, <1>4, <1>6 DEF Kept, Item
<1>7. CASE s \notin Remaining
  BY <1>1, <1>2, <1>5, <1>7, AnyItemType DEF Kept, Item
<1> QED
  BY <1>6, <1>7

\* What agent_get_cache makes of the items.
LEMMA AccessedItem ==
  ASSUME IInv, NEW r \in Slot, NEW n \in Nat
  PROVE  /\ Accessed(r, n) \in [Slot -> Item]
         /\ Accessed(r, n)[r].lockcount = item[r].lockcount + n
         /\ Accessed(r, n)[r].pw = Kept(r).pw
         /\ \A s \in Slot : s # r => Accessed(r, n)[s] = Kept(s)
<1> DEFINE new == [Kept(r) EXCEPT !.accessed = now, !.lockcount = @ + n]
<1>1. Kept(r) \in Item /\ now \in Nat /\ n \in Nat
  BY Housekeeping DEF IInv, TypeOK
<1>2. new \in Item /\ new.lockcount = Kept(r).lockcount + n /\ new.pw = Kept(r).pw
  <2>1. \A x \in Item, a \in Nat, m \in Nat :
          /\ [x EXCEPT !.accessed = a, !.lockcount = @ + m] \in Item
          /\ [x EXCEPT !.accessed = a, !.lockcount = @ + m].lockcount = x.lockcount + m
          /\ [x EXCEPT !.accessed = a, !.lockcount = @ + m].pw = x.pw
    BY ONLY Touched
  <2> QED
    BY ONLY <1>1, <2>1
<1>3. Accessed(r, n) = [s \in Slot |-> IF s = r THEN new ELSE Kept(s)]
  BY DEF Accessed
<1> HIDE DEF new
<1> QED
  BY <1>2, <1>3, Housekeeping

\* The list stays a list when items are removed from it.
LEMMA ListAfter ==
  ASSUME IInv
  PROVE  /\ Remaining \subseteq Slot
         /\ Without(used \ Remaining) \subseteq Remaining \X Remaining
         /\ \A r, s \in Remaining : r # s =>
              (<<r, s>> \in Without(used \ Remaining)
                 <=> <<s, r>> \notin Without(used \ Remaining))
<1>1. Remaining \subseteq used /\ used \subseteq Slot
  BY DEF Remaining, IInv, TypeOK
<1>2. Without(used \ Remaining) \subseteq Remaining \X Remaining
  BY <1>1 DEF Without, IInv, TypeOK
<1>3. ASSUME NEW r \in Remaining, NEW s \in Remaining
      PROVE  <<r, s>> \in Without(used \ Remaining) <=> <<r, s>> \in before
  BY <1>1 DEF Without
<1> QED
  BY <1>1, <1>2, <1>3 DEF IInv, TypeOK

\* What housekeeping and an action on items that nobody uses preserve.
LEMMA SweptKeeps ==
  ASSUME IInv, Swept,
         item' \in [Slot -> Item],
         \A s \in Slot : item'[s].lockcount = item[s].lockcount,
         \A s \in Slot : item[s].lockcount > 0 => item'[s].pw = Kept(s).pw
  PROVE  IInv'
<1>1. TypeOK'
  BY ListAfter DEF Swept, IInv, TypeOK
<1>2. HeldStays'
  BY HeldIsLocked, Housekeeping DEF Swept, HeldStays
<1>3. LockcountExact'
  BY DEF Swept, IInv, LockcountExact, Holders
<1> QED
  BY <1>1, <1>2, <1>3 DEF IInv

-----------------------------------------------------------------------------
LEMMA InitIInv == Init => IInv
<1> SUFFICES ASSUME Init PROVE IInv
  OBVIOUS
<1>1. TypeOK
  BY AnyItemType, CacheAssumption DEF Init, TypeOK, CacheAssumption
<1>2. \A s \in Slot : Holders(s) = {}
  BY CacheAssumption DEF Init, Holders, CacheAssumption
<1>3. LockcountExact
  BY <1>2, FS_EmptySet, AnyItemType DEF Init, LockcountExact
<1> QED
  BY <1>1, <1>3 DEF Init, IInv, HeldStays

\* housekeeping alone, in agent_put_cache and in agent_get_cache
LEMMA SweepOnly ==
  ASSUME IInv, Swept, item' = [s \in Slot |-> Kept(s)] PROVE IInv'
  BY Housekeeping, SweptKeeps

LEMMA PutReplaceKeeps ==
  ASSUME IInv, NEW k \in Key, NEW mode \in Mode, NEW ttl \in Nat \cup {-1},
         NEW data \in Data \cup {NoData}, NEW fits \in BOOLEAN,
         PutReplace(k, mode, ttl, data, fits)
  PROVE  IInv'
<1>1. PICK r \in Replaceable(k) :
        item' = [s \in Slot |->
             IF s # r THEN Kept(s)
             ELSE IF data = NoData THEN [Kept(r) EXCEPT !.pw = NoData]
             ELSE Stored(Kept(r), mode, Lifetime(mode, ttl), data, fits)]
  BY DEF PutReplace
<1>2. r \in Slot /\ item[r].lockcount = 0
  BY ListAfter DEF Replaceable, Unlocked
<1>3. Lifetime(mode, ttl) \in Nat \cup {-1} /\ now \in Nat
  BY CacheAssumption DEF Lifetime, CacheAssumption, IInv, TypeOK
<1>4. Kept(r) \in Item /\ Kept(r).lockcount = item[r].lockcount
  BY <1>2, Housekeeping
<1>5. item' \in [Slot -> Item] /\ item'[r].lockcount = item[r].lockcount
  BY <1>1, <1>2, <1>3, <1>4, Housekeeping DEF Stored, Item
<1>6. \A s \in Slot : s # r => item'[s] = Kept(s)
  BY <1>1
<1>7. Swept
  BY DEF PutReplace, Swept
<1> QED
  BY <1>2, <1>5, <1>6, <1>7, Housekeeping, SweptKeeps

LEMMA PutInsertKeeps ==
  ASSUME IInv, NEW k \in Key, NEW mode \in Mode, NEW ttl \in Nat \cup {-1},
         NEW data \in Data \cup {NoData}, PutInsert(k, mode, ttl, data)
  PROVE  IInv'
<1> DEFINE new == [key |-> k, pw |-> data, created |-> now, accessed |-> now,
                   ttl |-> Lifetime(mode, ttl), lockcount |-> 0, mode |-> mode]
<1>1. PICK r \in Slot \ Remaining :
        /\ used' = Remaining \cup {r}
        /\ before' = Without(used \ Remaining) \cup ({r} \X Remaining)
        /\ item' = [s \in Slot |-> IF s # r THEN Kept(s) ELSE new]
  BY DEF PutInsert
<1>2. UNCHANGED <<held, sent, now>>
  BY DEF PutInsert
<1>3. Lifetime(mode, ttl) \in Nat \cup {-1} /\ now \in Nat
  BY CacheAssumption DEF Lifetime, CacheAssumption, IInv, TypeOK
<1>4. new \in Item /\ new.lockcount = 0
  BY <1>3 DEF Item
<1>5. item[r].lockcount = 0
  <2>1. ~ (item[r].lockcount > 0)
    BY <1>1, Housekeeping
  <2> QED BY <2>1, <1>1 DEF IInv, TypeOK, Item
<1>6. item' \in [Slot -> Item] /\ item'[r] = new
      /\ \A s \in Slot : s # r => item'[s] = Kept(s)
  <2> HIDE DEF new
  <2> QED BY <1>1, <1>4, Housekeeping
<1>7. before' \subseteq used' \X used'
      /\ \A x, y \in used' : x # y => (<<x, y>> \in before' <=> <<y, x>> \notin before')
  <2> DEFINE w == Without(used \ Remaining)
  <2>1. w \subseteq Remaining \X Remaining
        /\ \A x, y \in Remaining : x # y => (<<x, y>> \in w <=> <<y, x>> \notin w)
    BY ListAfter
  <2> HIDE DEF w
  <2>2. before' = w \cup ({r} \X Remaining) /\ used' = Remaining \cup {r}
        /\ r \notin Remaining
    BY <1>1 DEF w
  <2>3. before' \subseteq used' \X used'
    BY <2>1, <2>2
  <2>4. ASSUME NEW x \in Remaining, NEW y \in Remaining
        PROVE  <<x, y>> \in before' <=> <<x, y>> \in w
    BY <2>2
  <2>5. ASSUME NEW x \in Remaining
        PROVE  <<r, x>> \in before' /\ <<x, r>> \notin before'
    BY <2>1, <2>2
  <2>6. ASSUME NEW x \in used', NEW y \in used', x # y
        PROVE  <<x, y>> \in before' <=> <<y, x>> \notin before'
    <3>1. CASE x \in Remaining /\ y \in Remaining
      BY <3>1, <2>1, <2>4, <2>6
    <3>2. CASE x = r /\ y \in Remaining
      BY <3>2, <2>5
    <3>3. CASE x \in Remaining /\ y = r
      BY <3>3, <2>5
    <3> QED BY <3>1, <3>2, <3>3, <2>2, <2>6
  <2> QED BY <2>3, <2>6
<1>8. TypeOK'
  <2>1. used' \subseteq Slot
    BY <1>1, ListAfter
  <2>2. TypeOK
    BY DEF IInv
  <2> QED BY <2>1, <2>2, <1>2, <1>6, <1>7 DEF TypeOK
<1>9. HeldStays'
  BY <1>1, <1>2, <1>6, HeldIsLocked, Housekeeping DEF HeldStays
<1>10. LockcountExact'
  <2>1. ASSUME NEW s \in Slot PROVE item'[s].lockcount = item[s].lockcount
    BY <1>4, <1>5, <1>6, Housekeeping
  <2> QED BY <2>1, <1>2 DEF IInv, LockcountExact, Holders
<1> QED
  BY <1>8, <1>9, <1>10 DEF IInv

LEMMA GetKeeps ==
  ASSUME IInv, NEW t \in Thread, NEW k \in Key, Get(t, k)
  PROVE  IInv'
<1>1. PICK r \in Slot :
        /\ Hit(k, r)
        /\ item' = Accessed(r, 1)
        /\ held' = [held EXCEPT ![t] = r]
        /\ sent' = [sent EXCEPT ![t] = Kept(r).pw]
  BY DEF Get
<1>2. r \in Remaining /\ Kept(r).pw # NoData /\ r # NoSlot
  BY <1>1, CacheAssumption DEF Hit, First, Free, WithData, CacheAssumption
<1>3. held[t] = NoSlot /\ used' = Remaining /\ now' = now
      /\ before' = Without(used \ Remaining)
  BY DEF Get
<1>4. /\ item' \in [Slot -> Item]
      /\ item'[r].lockcount = item[r].lockcount + 1 /\ item'[r].pw = Kept(r).pw
      /\ \A s \in Slot : s # r => item'[s] = Kept(s)
  BY <1>1, AccessedItem
<1>5. TypeOK'
  BY <1>1, <1>3, <1>4, ListAfter, Housekeeping DEF IInv, TypeOK, Item
<1>6. HeldStays'
  <2> SUFFICES ASSUME NEW u \in Thread, held'[u] # NoSlot
               PROVE  held'[u] \in used' /\ sent'[u] # NoData
                      /\ item'[held'[u]].pw = sent'[u]
    BY DEF HeldStays
  <2>1. CASE u = t
    BY <2>1, <1>1, <1>2, <1>3, <1>4 DEF IInv, TypeOK
  <2>2. CASE u # t
    <3>1. held'[u] = held[u] /\ sent'[u] = sent[u]
      BY <2>2, <1>1 DEF IInv, TypeOK
    <3>2. item'[held[u]].pw = Kept(held[u]).pw
      BY <3>1, <1>4, HeldIsLocked
    <3> QED BY <3>1, <3>2, <1>3, HeldIsLocked, Housekeeping
  <2> QED BY <2>1, <2>2
<1>7. LockcountExact'
  <2> SUFFICES ASSUME NEW s \in Slot
               PROVE  item'[s].lockcount = Cardinality(Holders(s)')
    BY DEF LockcountExact, Holders
  <2>1. CASE s = r
    <3>1. Holders(s)' = Holders(s) \cup {t} /\ t \notin Holders(s)
      BY <2>1, <1>1, <1>2, <1>3 DEF Holders, IInv, TypeOK
    <3>2. Cardinality(Holders(s)') = Cardinality(Holders(s)) + 1
      BY <3>1, HoldersFinite, FS_AddElement
    <3> QED BY <2>1, <3>2, <1>4 DEF IInv, LockcountExact
  <2>2. CASE s # r
    <3>1. Holders(s)' = Holders(s)
      BY <2>2, <1>1, <1>3, CacheAssumption DEF Holders, IInv, TypeOK, CacheAssumption
    <3> QED BY <2>2, <3>1, <1>4, Housekeeping DEF IInv, LockcountExact
  <2> QED BY <2>1, <2>2
<1> QED
  BY <1>5, <1>6, <1>7 DEF IInv

LEMMA UseOnceKeeps ==
  ASSUME IInv, NEW k \in Key, UseOnce(k) PROVE IInv'
<1>1. PICK r \in Slot : item' = Accessed(r, 0)
  BY DEF UseOnce
<1>2. /\ item' \in [Slot -> Item]
      /\ \A s \in Slot : /\ item'[s].lockcount = item[s].lockcount
                         /\ item'[s].pw = Kept(s).pw
  <2>1. item[r].lockcount \in Nat
    BY DEF IInv, TypeOK, Item
  <2> QED BY <1>1, <2>1, AccessedItem, Housekeeping
<1> QED
  BY <1>2, SweptKeeps DEF UseOnce, Swept

LEMMA UnlockEntryKeeps ==
  ASSUME IInv, NEW t \in Thread, UnlockEntry(t) PROVE IInv'
<1> DEFINE r == held[t]
<1>1. r \in used /\ r \in Slot /\ r # NoSlot /\ item[r].lockcount > 0
  BY HeldIsLocked DEF UnlockEntry
<1>2. /\ item' = [item EXCEPT ![r].lockcount = @ - 1]
      /\ held' = [held EXCEPT ![t] = NoSlot]
      /\ sent' = [sent EXCEPT ![t] = NoData]
      /\ UNCHANGED <<used, before, now>>
  BY <1>1 DEF UnlockEntry
<1>3. /\ item' \in [Slot -> Item]
      /\ item'[r].lockcount = item[r].lockcount - 1
      /\ \A s \in Slot : item'[s].pw = item[s].pw
      /\ \A s \in Slot : s # r => item'[s] = item[s]
  BY <1>1, <1>2 DEF IInv, TypeOK, Item
<1>4. TypeOK'
  BY <1>2, <1>3 DEF IInv, TypeOK
<1>5. HeldStays'
  BY <1>2, <1>3 DEF IInv, TypeOK, HeldStays
<1>6. LockcountExact'
  <2> SUFFICES ASSUME NEW s \in Slot
               PROVE  item'[s].lockcount = Cardinality(Holders(s)')
    BY DEF LockcountExact, Holders
  <2>1. CASE s = r
    <3>1. Holders(s)' = Holders(s) \ {t} /\ t \in Holders(s)
      BY <2>1, <1>1, <1>2 DEF Holders, IInv, TypeOK
    <3>2. Cardinality(Holders(s)') = Cardinality(Holders(s)) - 1
      BY <3>1, HoldersFinite, FS_RemoveElement
    <3> QED BY <2>1, <3>2, <1>3 DEF IInv, LockcountExact
  <2>2. CASE s # r
    <3>1. Holders(s)' = Holders(s)
      BY <2>2, <1>2, CacheAssumption DEF Holders, IInv, TypeOK, CacheAssumption
    <3> QED BY <2>2, <3>1, <1>3 DEF IInv, LockcountExact
  <2> QED BY <2>1, <2>2
<1> QED
  BY <1>4, <1>5, <1>6 DEF IInv

LEMMA FlushKeeps == ASSUME IInv, Flush PROVE IInv'
<1>1. ASSUME NEW r \in Item
      PROVE  /\ Flushed(r) \in Item
             /\ Flushed(r).lockcount = r.lockcount
             /\ r.lockcount > 0 => Flushed(r).pw = r.pw
  <2>1. CASE r.pw = NoData
    BY <2>1 DEF Flushed
  <2>2. CASE r.pw # NoData /\ r.lockcount = 0
    <3>1. Flushed(r) = [r EXCEPT !.pw = NoData, !.accessed = 0]
      BY <2>2 DEF Flushed
    <3> DEFINE w == [r EXCEPT !.pw = NoData, !.accessed = 0]
    <3>3. w \in Item /\ w.lockcount = r.lockcount
      BY Wiped
    <3> HIDE DEF w
    <3>2. Flushed(r) \in Item /\ Flushed(r).lockcount = r.lockcount
      BY <3>1, <3>3 DEF w
    <3> QED BY <2>2, <3>2
  <2>3. CASE r.pw # NoData /\ r.lockcount # 0
    BY <2>3 DEF Flushed, Item
  <2> QED BY <2>1, <2>2, <2>3
<1>2. /\ item' \in [Slot -> Item]
      /\ \A s \in Slot : /\ item'[s].lockcount = item[s].lockcount
                         /\ item[s].lockcount > 0 => item'[s].pw = item[s].pw
  BY <1>1 DEF Flush, IInv, TypeOK
<1>3. TypeOK'
  BY <1>2 DEF Flush, IInv, TypeOK
<1>4. HeldStays'
  BY <1>2, HeldIsLocked DEF Flush, HeldStays
<1>5. LockcountExact'
  BY <1>2 DEF Flush, IInv, LockcountExact, Holders
<1> QED
  BY <1>3, <1>4, <1>5 DEF IInv

LEMMA PutKeeps == ASSUME IInv, Put PROVE IInv'
<1>1. PICK req \in Request :
        \/ PutNothing(req[1], req[2])
        \/ \E k \in Key, data \in Data \cup {NoData} :
             \/ PutInsert(k, req[1], req[2], data)
             \/ \E fits \in BOOLEAN : PutReplace(k, req[1], req[2], data, fits)
                                      \/ PutMisses(k, req[1], req[2], data, fits)
  BY DEF Put
<1>2. req[1] \in Mode /\ req[2] \in Nat \cup {-1}
  BY CacheAssumption DEF CacheAssumption
<1>3. CASE PutNothing(req[1], req[2])
  BY <1>3, SweepOnly DEF PutNothing, Swept
<1>4. ASSUME NEW k \in Key, NEW data \in Data \cup {NoData},
             PutInsert(k, req[1], req[2], data)
      PROVE  IInv'
  BY <1>2, <1>4, PutInsertKeeps
<1>5. ASSUME NEW k \in Key, NEW data \in Data \cup {NoData}, NEW fits \in BOOLEAN,
             PutReplace(k, req[1], req[2], data, fits)
      PROVE  IInv'
  BY <1>2, <1>5, PutReplaceKeeps
<1>6. ASSUME NEW k \in Key, NEW data \in Data \cup {NoData}, NEW fits \in BOOLEAN,
             PutMisses(k, req[1], req[2], data, fits)
      PROVE  IInv'
  BY <1>6, SweepOnly DEF PutMisses, Swept
<1> QED
  BY <1>1, <1>3, <1>4, <1>5, <1>6

LEMMA NextKeeps == IInv /\ [Next]_vars => IInv'
<1> SUFFICES ASSUME IInv, [Next]_vars PROVE IInv'
  OBVIOUS
<1>1. CASE Put
  BY <1>1, PutKeeps
<1>2. CASE Use
  <2>1. ASSUME NEW k \in Key, Miss(k) PROVE IInv'
    BY <2>1, SweepOnly DEF Miss, Swept
  <2> QED BY <1>2, <2>1, UseOnceKeeps, GetKeeps, UnlockEntryKeeps DEF Use
<1>3. CASE Flush
  BY <1>3, FlushKeeps
<1>4. CASE Tick
  BY <1>4 DEF Tick, IInv, TypeOK, HeldStays, LockcountExact, Holders
<1>5. CASE UNCHANGED vars
  BY <1>5 DEF vars, IInv, TypeOK, HeldStays, LockcountExact, Holders
<1> QED
  BY <1>1, <1>2, <1>3, <1>4, <1>5 DEF Next

-----------------------------------------------------------------------------
\* The invariant of the passphrase cache.
THEOREM CacheInvariant == Spec => []IInv
<1>1. Init => IInv
  BY InitIInv
<1>2. IInv /\ [Next]_vars => IInv'
  BY NextKeeps
<1> QED
  BY <1>1, <1>2, PTL DEF Spec

\* The variables keep their types, and thecache stays a list: removing and
\* inserting items never leaves two of them without an order.
THEOREM TypeCorrect == Spec => []TypeOK
  BY CacheInvariant, PTL DEF IInv

\* What agent_get_cache has handed out stays valid until
\* agent_unlock_cache_entry, for any number of sessions.
THEOREM HeldCorrect == Spec => []HeldStays
  BY CacheInvariant, PTL DEF IInv

\* An item is locked as many times as there are sessions that use it.
THEOREM LockcountCorrect == Spec => []LockcountExact
  BY CacheInvariant, PTL DEF IInv

-----------------------------------------------------------------------------
\* The items of one key
Of(k) == {s \in used : item[s].key = k}
FewInv ==
  \A k \in Key : IsFiniteSet(Of(k)) /\ Cardinality(Of(k)) <= Cardinality(Thread) + 1

\* Housekeeping changes no key and brings no passphrase back; it spares those
\* of the items that are in use or not too old.
LEMMA KeptKey ==
  ASSUME IInv, NEW s \in Remaining
  PROVE  /\ Kept(s).key = item[s].key
         /\ Kept(s).pw # NoData => item[s].lockcount > 0 \/ Within(item[s])
<1> DEFINE r == item[s]
           e == Expire(r)
<1>1. s \in Slot /\ r \in Item /\ now \in Nat /\ SlotAge \in Nat /\ Delay \in Nat
  BY CacheAssumption DEF Remaining, IInv, TypeOK, CacheAssumption
<1>2. Kept(s) = Postpone(e)
  BY DEF Kept
<1>3. CASE e = r
  <2>1. Kept(s).key = r.key /\ Kept(s).pw = r.pw
    BY <1>1, <1>2, <1>3 DEF Postpone, Item
  <2>2. ASSUME r.pw # NoData, r.lockcount = 0 PROVE Within(r)
    <3>1. ~ (Unused(r) \/ TooOld(r)) \/ [r EXCEPT !.pw = NoData, !.accessed = now] = r
      BY <1>3, <2>2 DEF Expire
    <3>2. [r EXCEPT !.pw = NoData, !.accessed = now].pw = NoData
      BY <1>1 DEF Item
    <3>3. ~ Unused(r) /\ ~ TooOld(r)
      BY <2>2, <3>1, <3>2
    <3>4. /\ r.created + MaxTtl[r.mode] \in Int /\ r.accessed + r.ttl \in Int
          /\ r.ttl \in Int
      BY <1>1, CacheAssumption DEF Item, CacheAssumption
    <3> HIDE DEF r
    <3> QED
      BY <1>1, <3>3, <3>4 DEF Unused, TooOld, Within
  <2>3. r.lockcount \in Nat
    BY <1>1 DEF Item
  <2> QED
    BY <2>1, <2>2, <2>3
<1>4. CASE e # r
  <2>1. e = [r EXCEPT !.pw = NoData, !.accessed = now]
    BY <1>4 DEF Expire
  <2>2. e.key = r.key /\ e.pw = NoData /\ e \in Item
    BY <1>1, <2>1 DEF Item
  <2>3. Postpone(e).key = e.key /\ Postpone(e).pw = e.pw
    BY <2>2, <1>1 DEF Postpone, Item
  <2> QED
    BY <1>2, <2>2, <2>3
<1> QED
  BY <1>3, <1>4

\* What leaves every item its key and adds none
Fewer == used' \subseteq used /\ \A s \in used' : item'[s].key = item[s].key

LEMMA FewerKeeps == ASSUME FewInv, Fewer PROVE FewInv'
<1> SUFFICES ASSUME NEW k \in Key
             PROVE  /\ IsFiniteSet(Of(k)') /\ Cardinality(Of(k)') <= Cardinality(Thread) + 1
  BY DEF FewInv
<1>1. Of(k)' \subseteq Of(k)
  BY DEF Of, Fewer
<1>2. IsFiniteSet(Of(k)) /\ Cardinality(Of(k)) <= Cardinality(Thread) + 1
  BY DEF FewInv
<1>3. IsFiniteSet(Of(k)') /\ Cardinality(Of(k)') <= Cardinality(Of(k))
  BY <1>1, <1>2, FS_Subset
<1>4. /\ Cardinality(Of(k)) \in Nat /\ Cardinality(Of(k)') \in Nat
      /\ Cardinality(Thread) \in Nat
  BY <1>2, <1>3, FS_CardinalityType, CacheAssumption DEF CacheAssumption
<1> HIDE DEF Of
<1> QED
  BY <1>2, <1>3, <1>4

\* Items that are all in use are not more than the sessions.
LEMMA LockedFew ==
  ASSUME IInv, NEW S, S \subseteq Slot, \A s \in S : item[s].lockcount > 0
  PROVE  IsFiniteSet(S) /\ Cardinality(S) <= Cardinality(Thread)
<1> DEFINE f == [s \in S |-> CHOOSE t \in Thread : held[t] = s]
<1>1. ASSUME NEW s \in S PROVE \E t \in Thread : held[t] = s
  <2>1. Cardinality(Holders(s)) # 0
    BY DEF IInv, LockcountExact
  <2>2. Holders(s) # {}
    BY <2>1, FS_EmptySet
  <2> QED
    BY <2>2 DEF Holders
<1>2. \A s \in S : f[s] \in Thread /\ held[f[s]] = s
  BY <1>1
<1>3. f \in [S -> Thread]
  BY <1>1
<1> HIDE DEF f
<1>4. f \in Injection(S, Thread)
  BY <1>2, <1>3 DEF Injection, IsInjective
<1> QED
  BY <1>4, FS_Injection, CacheAssumption DEF CacheAssumption

LEMMA InsertKeepsFew ==
  ASSUME IInv, FewInv, NEW k \in Key, NEW mode \in Mode, NEW ttl, NEW data,
         PutInsert(k, mode, ttl, data)
  PROVE  FewInv'
<1>1. PICK r \in Slot \ Remaining :
        /\ used' = Remaining \cup {r}
        /\ item'[r].key = k
        /\ \A s \in Remaining : item'[s] = Kept(s)
  BY DEF PutInsert, Remaining, IInv, TypeOK
<1>2. Remaining \subseteq used /\ used \subseteq Slot
  BY DEF Remaining, IInv, TypeOK
<1> SUFFICES ASSUME NEW j \in Key
             PROVE  /\ IsFiniteSet(Of(j)') /\ Cardinality(Of(j)') <= Cardinality(Thread) + 1
  BY DEF FewInv
<1>3. Cardinality(Thread) \in Nat
  BY FS_CardinalityType, CacheAssumption DEF CacheAssumption
<1>4. CASE j = k
  <2> DEFINE S == {s \in Remaining : item[s].key = k}
  <2>1. \A s \in S : item[s].lockcount > 0
    BY <1>2 DEF PutInsert, Replaceable, Unlocked, IInv, TypeOK, Item
  <2>2. IsFiniteSet(S) /\ Cardinality(S) <= Cardinality(Thread)
    BY <1>2, <2>1, LockedFew
  <2>3. Of(j)' = S \cup {r}
    BY <1>1, <1>4, KeptKey DEF Of
  <2> HIDE DEF S, Of
  <2>4. IsFiniteSet(S \cup {r}) /\ Cardinality(S) \in Nat
        /\ Cardinality(S \cup {r}) \in {Cardinality(S), Cardinality(S) + 1}
    BY <2>2, FS_AddElement, FS_CardinalityType
  <2> QED
    BY <1>3, <2>2, <2>3, <2>4
<1>5. CASE j # k
  <2>1. Of(j)' \subseteq Of(j)
    BY <1>1, <1>2, <1>5, KeptKey DEF Of
  <2>2. IsFiniteSet(Of(j)) /\ Cardinality(Of(j)) <= Cardinality(Thread) + 1
    BY DEF FewInv
  <2>3. IsFiniteSet(Of(j)') /\ Cardinality(Of(j)') <= Cardinality(Of(j))
    BY <2>1, <2>2, FS_Subset
  <2>4. Cardinality(Of(j)) \in Nat /\ Cardinality(Of(j)') \in Nat
    BY <2>2, <2>3, FS_CardinalityType
  <2> HIDE DEF Of
  <2> QED
    BY <1>3, <2>2, <2>3, <2>4
<1> QED
  BY <1>4, <1>5

LEMMA SweptFewer ==
  ASSUME IInv, used' = Remaining, NEW r \in Slot,
         \A s \in Slot : s # r => item'[s] = Kept(s), item'[r].key = Kept(r).key
  PROVE  Fewer
BY KeptKey DEF Fewer, Remaining, IInv, TypeOK

LEMMA StepFew == ASSUME IInv, FewInv, [Next]_vars PROVE FewInv'
<1>0. used \subseteq Slot /\ item \in [Slot -> Item]
  BY DEF IInv, TypeOK
<1>1. ASSUME item' = [s \in Slot |-> Kept(s)], used' = Remaining PROVE Fewer
  BY <1>1, KeptKey DEF Fewer, Remaining, IInv, TypeOK
<1>2. CASE Put
  <2>1. PICK req \in Request :
          \/ PutNothing(req[1], req[2])
          \/ \E k \in Key, data \in Data \cup {NoData} :
               \/ PutInsert(k, req[1], req[2], data)
               \/ \E fits \in BOOLEAN : PutReplace(k, req[1], req[2], data, fits)
                                        \/ PutMisses(k, req[1], req[2], data, fits)
    BY <1>2 DEF Put
  <2>2. req[1] \in Mode
    BY CacheAssumption DEF CacheAssumption
  <2>3. ASSUME NEW k \in Key, NEW data \in Data \cup {NoData}, NEW fits \in BOOLEAN,
               PutReplace(k, req[1], req[2], data, fits)
        PROVE  Fewer
    <3>1. PICK r \in Slot :
            item' = [s \in Slot |->
                 IF s # r THEN Kept(s)
                 ELSE IF data = NoData THEN [Kept(r) EXCEPT !.pw = NoData]
                 ELSE Stored(Kept(r), req[1], Lifetime(req[1], req[2]), data, fits)]
      BY <2>3, <1>0 DEF PutReplace, Replaceable, Remaining
    <3>2. Kept(r) \in Item
      BY Housekeeping
    <3>3. item'[r].key = Kept(r).key
      BY <3>1, <3>2 DEF Stored, Item
    <3>4. used' = Remaining
      BY <2>3 DEF PutReplace
    <3> QED
      BY <3>1, <3>3, <3>4, SweptFewer
  <2>4. ASSUME NEW k \in Key, NEW data \in Data \cup {NoData},
               PutInsert(k, req[1], req[2], data)
        PROVE  FewInv'
    BY <2>2, <2>4, InsertKeepsFew
  <2> QED
    BY <2>1, <2>3, <2>4, <1>1, FewerKeeps DEF PutNothing, PutMisses
<1>3. ASSUME NEW r \in Slot, NEW n \in Nat, item' = Accessed(r, n), used' = Remaining
      PROVE  Fewer
  <2>1. Kept(r) \in Item
    BY Housekeeping
  <2>2. item'[r].key = Kept(r).key
    BY <1>3, <2>1 DEF Accessed, Item
  <2> QED
    BY <1>3, <2>2, SweptFewer, AccessedItem
<1>4. CASE Use
  <2>1. ASSUME NEW k \in Key, UseOnce(k) \/ Miss(k) PROVE Fewer
    BY <2>1, <1>1, <1>3 DEF UseOnce, Miss
  <2>2. ASSUME NEW t \in Thread, NEW k \in Key, Get(t, k) PROVE Fewer
    BY <2>2, <1>3 DEF Get
  <2>3. ASSUME NEW t \in Thread, UnlockEntry(t) PROVE Fewer
    BY <1>0, <2>3 DEF UnlockEntry, Fewer, Item
  <2> QED
    BY <1>4, <2>1, <2>2, <2>3, FewerKeeps DEF Use
<1>5. CASE Flush
  <2>1. ASSUME NEW s \in used PROVE item'[s].key = item[s].key
    <3>1. item'[s] = Flushed(item[s]) /\ item[s] \in Item
      BY <1>0, <1>5 DEF Flush
    <3> QED
      BY <3>1 DEF Flushed, Item
  <2> QED
    BY <1>5, <2>1, FewerKeeps DEF Flush, Fewer
<1>6. CASE Tick \/ UNCHANGED vars
  BY <1>6, FewerKeeps DEF Tick, vars, Fewer
<1> QED
  BY <1>2, <1>4, <1>5, <1>6 DEF Next

\* However many passphrases are stored for a key, it has one item more than
\* there are sessions, at most.
THEOREM FewCorrect == Spec => []FewDuplicates
<1>1. Init => FewInv
  <2> SUFFICES ASSUME Init, NEW k \in Key
               PROVE  IsFiniteSet(Of(k)) /\ Cardinality(Of(k)) <= Cardinality(Thread) + 1
    BY DEF FewInv
  <2>1. Of(k) = {}
    BY DEF Init, Of
  <2>2. Cardinality(Thread) \in Nat
    BY FS_CardinalityType, CacheAssumption DEF CacheAssumption
  <2> QED
    BY <2>1, <2>2, FS_EmptySet
<1>2. IInv /\ FewInv /\ [Next]_vars => FewInv'
  BY StepFew
<1>3. FewInv => FewDuplicates
  BY DEF FewInv, FewDuplicates, Of
<1> QED
  BY <1>1, <1>2, <1>3, CacheInvariant, PTL DEF Spec

\* What a session gets is not too old, unless another one has it in use.
THEOREM ServedCorrect == Spec => ServedInTime
<1>1. ASSUME IInv, Next, NEW t \in Thread, held[t] = NoSlot, held'[t] # NoSlot
      PROVE  Within(item[held'[t]]) \/ item[held'[t]].lockcount > 0
  <2>1. PICK u \in Thread, k \in Key : Get(u, k)
    <3>1. CASE Put
      BY <1>1, <3>1 DEF Put, PutNothing, PutInsert, PutReplace, PutMisses
    <3>2. CASE Flush \/ Tick
      BY <1>1, <3>2 DEF Flush, Tick
    <3>3. CASE Use
      <4>1. ASSUME NEW u \in Thread, UnlockEntry(u) PROVE FALSE
        BY <1>1, <4>1 DEF UnlockEntry, IInv, TypeOK
      <4>2. ASSUME NEW k \in Key, UseOnce(k) \/ Miss(k) PROVE FALSE
        BY <1>1, <4>2 DEF UseOnce, Miss
      <4> QED
        BY <3>3, <4>1, <4>2 DEF Use
    <3> QED
      BY <1>1, <3>1, <3>2, <3>3 DEF Next
  <2>2. PICK r \in Slot : Hit(k, r) /\ held' = [held EXCEPT ![u] = r]
    BY <2>1 DEF Get
  <2>3. r \in WithData(k) /\ held'[t] = r
    BY <1>1, <2>2 DEF Hit, First, Free, IInv, TypeOK
  <2> QED
    BY <1>1, <2>3, KeptKey DEF WithData
<1>2. IInv /\ [Next]_vars
        => [\A t \in Thread :
              (held[t] = NoSlot /\ held'[t] # NoSlot)
                => Within(item[held'[t]]) \/ item[held'[t]].lockcount > 0]_vars
  BY <1>1
<1> QED
  BY <1>2, CacheInvariant, PTL DEF Spec, ServedInTime

-----------------------------------------------------------------------------
\* The history takes no part in what the cache does.
LEMMA LastSteps == LastNext => Next
BY DEF LastNext, LastPut, Next, Put

THEOREM LastIsSpec == LastSpec => Spec
<1>1. LastInit => Init
  BY DEF LastInit
<1>2. [LastNext]_<<vars, history>> => [Next]_vars
  BY LastSteps
<1> QED
  BY <1>1, <1>2, PTL DEF LastSpec, Spec

\* A key that was never stored for while an item of it was in use has one item
\* at most, with what was stored last or empty.
LastOf(k) ==
  k \notin met => \A s \in Of(k) : /\ item[s].pw \in {last[k], NoData}
                                   /\ \A r \in Of(k) : r = s
LastInv == last \in [Key -> Data \cup {NoData}] /\ \A k \in Key : LastOf(k)

\* It stays so when items lose their passphrases or are removed, and nothing is
\* stored for the key.
LEMMA LastStays ==
  ASSUME NEW k \in Key, LastOf(k),
         Of(k)' \subseteq Of(k), \A s \in Of(k)' : item'[s].pw \in {item[s].pw, NoData},
         last'[k] = last[k],
         k \in met /\ Listed(k)' => k \in met'
  PROVE  LastOf(k)'
<1> SUFFICES ASSUME k \notin met', NEW s \in Of(k)'
             PROVE  item'[s].pw \in {last'[k], NoData} /\ \A r \in Of(k)' : r = s
  BY DEF LastOf, Of
<1>1. Listed(k)'
  BY DEF Listed, Of
<1>2. k \notin met
  BY <1>1
<1> QED
  BY <1>2 DEF LastOf

\* What a step does that only removes items and passphrases.
Loses ==
  /\ used' \subseteq used
  /\ \A s \in used' : item'[s].key = item[s].key /\ item'[s].pw \in {item[s].pw, NoData}

LEMMA LosesKeeps == ASSUME LastInv, Loses, NoteNothing PROVE LastInv'
<1> SUFFICES ASSUME NEW k \in Key PROVE LastOf(k)'
  BY DEF LastInv, NoteNothing
<1>1. Of(k)' \subseteq Of(k) /\ \A s \in Of(k)' : item'[s].pw \in {item[s].pw, NoData}
  BY DEF Loses, Of
<1>2. last'[k] = last[k] /\ (k \in met /\ Listed(k)' => k \in met')
  BY DEF NoteNothing
<1> QED
  BY <1>1, <1>2, LastStays DEF LastInv

\* Housekeeping is such a step.
LEMMA KeptLoses ==
  ASSUME IInv, NEW s \in Remaining
  PROVE  Kept(s).key = item[s].key /\ Kept(s).pw \in {item[s].pw, NoData}
<1> DEFINE r == item[s]
           e == Expire(r)
<1>1. s \in Slot /\ r \in Item /\ now \in Nat /\ Delay \in Nat
  BY CacheAssumption DEF Remaining, IInv, TypeOK, CacheAssumption
<1>2. e \in Item /\ e.pw \in {r.pw, NoData}
  BY <1>1 DEF Expire, Item
<1>3. Postpone(e).pw = e.pw
  <2> HIDE DEF e
  <2> QED BY <1>1, <1>2 DEF Postpone, Item
<1> QED
  BY <1>2, <1>3, KeptKey DEF Kept

\* A key that something is stored for: when one of its items was in use it is
\* remembered, else there is one item with that.
LEMMA NoteKeeps ==
  ASSUME LastInv, NEW k \in Key, NEW d \in Data \cup {NoData}, Note({k}, d),
         Of(k)' = {} \/ InUse(k) \/ (\E r : Of(k)' \subseteq {r} /\ item'[r].pw \in {d, NoData})
           \/ k \in met,
         \A j \in Key \ {k} :
           /\ Of(j)' \subseteq Of(j)
           /\ \A s \in Of(j)' : item'[s].pw \in {item[s].pw, NoData}
  PROVE  LastInv'
<1>1. last' \in [Key -> Data \cup {NoData}] /\ last'[k] = d
      /\ \A j \in Key \ {k} : last'[j] = last[j]
  BY DEF Note, LastInv
<1>2. LastOf(k)'
  <2> SUFFICES ASSUME k \notin met', NEW s \in Of(k)'
               PROVE  item'[s].pw \in {d, NoData} /\ \A r \in Of(k)' : r = s
    BY <1>1 DEF LastOf, Of
  <2>1. Listed(k)'
    BY DEF Listed, Of
  <2>2. ~ InUse(k) /\ k \notin met
    BY <2>1 DEF Note
  <2> QED
    BY <2>2
<1>3. ASSUME NEW j \in Key \ {k} PROVE LastOf(j)'
  <2>1. j \in met /\ Listed(j)' => j \in met'
    BY DEF Note
  <2> QED
    BY <1>1, <2>1, LastStays DEF LastInv
<1> QED
  BY <1>1, <1>2, <1>3 DEF LastInv

\* An item that is in use is in the list.
LEMMA InUseListed ==
  ASSUME IInv, NEW k \in Key, NEW s \in Remaining, item[s].key = k, ~ Unlocked(s)
  PROVE  InUse(k)
BY DEF InUse, Remaining

LEMMA ReplaceLast ==
  ASSUME IInv, LastInv, NEW k \in Key, NEW mode \in Mode, NEW ttl,
         NEW data \in Data \cup {NoData}, NEW fits \in BOOLEAN,
         PutReplace(k, mode, ttl, data, fits),
         Note({k}, IF fits THEN data ELSE NoData)
  PROVE  LastInv'
<1> DEFINE d == IF fits THEN data ELSE NoData
<1>1. PICK r \in Replaceable(k) :
        item' = [s \in Slot |->
             IF s # r THEN Kept(s)
             ELSE IF data = NoData THEN [Kept(r) EXCEPT !.pw = NoData]
             ELSE Stored(Kept(r), mode, Lifetime(mode, ttl), data, fits)]
  BY DEF PutReplace
<1>2. r \in Remaining /\ r \in Slot /\ item[r].key = k /\ Kept(r) \in Item
      /\ Kept(r).key = k
  BY ListAfter, Housekeeping, KeptKey DEF Replaceable
<1>3. used' = Remaining /\ Remaining \subseteq used /\ used \subseteq Slot
  BY DEF PutReplace, Remaining, IInv, TypeOK
<1>4. item'[r].key = k /\ item'[r].pw \in {d, NoData}
  <2> HIDE DEF Lifetime
  <2> QED BY <1>1, <1>2 DEF Stored, Item
<1>5. \A s \in Remaining \ {r} : item'[s].key = item[s].key /\ item'[s].pw \in {item[s].pw, NoData}
  BY <1>1, <1>3, KeptLoses
<1>6. ASSUME NEW j \in Key \ {k}
      PROVE  /\ Of(j)' \subseteq Of(j)
             /\ \A s \in Of(j)' : item'[s].pw \in {item[s].pw, NoData}
  BY <1>3, <1>4, <1>5 DEF Of
<1>7. CASE k \in met
  BY <1>6, <1>7, NoteKeeps
<1>8. CASE k \notin met
  <2>1. Of(k)' \subseteq {r}
    BY <1>2, <1>3, <1>5, <1>8 DEF LastInv, LastOf, Of
  <2> QED
    BY <1>4, <1>6, <2>1, NoteKeeps
<1> QED
  BY <1>7, <1>8

LEMMA InsertLast ==
  ASSUME IInv, LastInv, NEW k \in Key, NEW mode \in Mode, NEW ttl,
         NEW data \in Data \cup {NoData}, PutInsert(k, mode, ttl, data), Note({k}, data)
  PROVE  LastInv'
<1>1. PICK r \in Slot \ Remaining :
        /\ used' = Remaining \cup {r}
        /\ item'[r].key = k /\ item'[r].pw = data
        /\ \A s \in Remaining : item'[s] = Kept(s)
  BY ListAfter DEF PutInsert
<1>2. \A s \in Remaining : item'[s].key = item[s].key /\ item'[s].pw \in {item[s].pw, NoData}
  BY <1>1, KeptLoses
<1>3. ASSUME NEW j \in Key \ {k}
      PROVE  /\ Of(j)' \subseteq Of(j)
             /\ \A s \in Of(j)' : item'[s].pw \in {item[s].pw, NoData}
  BY <1>1, <1>2 DEF Of, Remaining
<1>4. CASE InUse(k)
  BY <1>3, <1>4, NoteKeeps
<1>5. CASE ~ InUse(k)
  <2>1. \A s \in Remaining : item[s].key # k
    BY <1>5, InUseListed DEF PutInsert, Replaceable
  <2>2. Of(k)' \subseteq {r}
    BY <1>1, <1>2, <2>1 DEF Of
  <2> QED
    BY <1>1, <1>3, <2>2, NoteKeeps
<1> QED
  BY <1>4, <1>5

LEMMA MissesLast ==
  ASSUME IInv, LastInv, NEW k \in Key, NEW mode, NEW ttl, NEW data, NEW fits,
         PutMisses(k, mode, ttl, data, fits), Note({k}, NoData)
  PROVE  LastInv'
<1>1. used' = Remaining /\ used \subseteq Slot /\ Remaining \subseteq used
      /\ \A s \in Remaining : item'[s] = Kept(s)
  BY DEF PutMisses, Remaining, IInv, TypeOK
<1>2. \A s \in Remaining : item'[s].key = item[s].key /\ item'[s].pw \in {item[s].pw, NoData}
  BY <1>1, KeptLoses
<1>3. ASSUME NEW j \in Key
      PROVE  /\ Of(j)' \subseteq Of(j)
             /\ \A s \in Of(j)' : item'[s].pw \in {item[s].pw, NoData}
  BY <1>1, <1>2 DEF Of
<1>4. CASE InUse(k)
  BY <1>3, <1>4, NoteKeeps
<1>5. CASE ~ InUse(k)
  <2>1. \A s \in Remaining : item[s].key # k
    BY <1>5, InUseListed DEF PutMisses, Replaceable
  <2>2. Of(k)' = {}
    BY <1>1, <1>2, <2>1 DEF Of
  <2> QED
    BY <1>3, <2>2, NoteKeeps
<1> QED
  BY <1>4, <1>5

LEMMA FlushLast == ASSUME IInv, LastInv, Flush, Note(Key, NoData) PROVE LastInv'
<1>1. \A k \in Key : last'[k] = NoData
  BY DEF Note
<1>2. ASSUME NEW s \in used
      PROVE  item'[s].key = item[s].key /\ (Unlocked(s) => item'[s].pw = NoData)
  <2>1. item'[s] = Flushed(item[s]) /\ item[s] \in Item
    BY DEF Flush, IInv, TypeOK
  <2> QED
    BY <2>1 DEF Flushed, Unlocked, Item
<1>3. ASSUME NEW k \in Key, k \notin met', NEW s \in Of(k)'
      PROVE  item'[s].pw = NoData /\ \A r \in Of(k)' : r = s
  <2>1. used' = used /\ Of(k)' = Of(k)
    BY <1>2 DEF Flush, Of
  <2>2. Listed(k)'
    BY <1>3 DEF Listed, Of
  <2>3. ~ InUse(k) /\ k \notin met
    BY <1>3, <2>2 DEF Note
  <2> QED
    BY <1>2, <1>3, <2>1, <2>3 DEF InUse, Of, LastInv, LastOf
<1>4. last' \in [Key -> Data \cup {NoData}]
  BY DEF Note, LastInv
<1> QED
  BY <1>1, <1>3, <1>4 DEF LastInv, LastOf, Of

LEMMA LastStep == ASSUME IInv, LastInv, [LastNext]_<<vars, history>> PROVE LastInv'
<1>1. ASSUME used' = Remaining, item' = [s \in Slot |-> Kept(s)] PROVE Loses
  BY <1>1, KeptLoses DEF Loses, Remaining, IInv, TypeOK
<1>2. ASSUME NEW r \in Slot, NEW n \in Nat, used' = Remaining, item' = Accessed(r, n)
      PROVE  Loses
  <2>1. item'[r].key = Kept(r).key /\ item'[r].pw = Kept(r).pw
    BY <1>2, Housekeeping DEF Accessed, Item
  <2>2. \A s \in Slot \ {r} : item'[s] = Kept(s)
    BY <1>2, AccessedItem
  <2> QED
    BY <1>2, <2>1, <2>2, KeptLoses, ListAfter DEF Loses, Remaining
<1>3. CASE LastPut
  <2>1. PICK req \in Request :
          \/ PutNothing(req[1], req[2]) /\ NoteNothing
          \/ \E k \in Key, data \in Data \cup {NoData} :
               \/ PutInsert(k, req[1], req[2], data) /\ Note({k}, data)
               \/ \E fits \in BOOLEAN :
                    \/ /\ PutReplace(k, req[1], req[2], data, fits)
                       /\ Note({k}, IF fits THEN data ELSE NoData)
                    \/ PutMisses(k, req[1], req[2], data, fits) /\ Note({k}, NoData)
    BY <1>3 DEF LastPut
  <2>2. req[1] \in Mode
    BY CacheAssumption DEF CacheAssumption
  <2>3. CASE PutNothing(req[1], req[2]) /\ NoteNothing
    BY <1>1, <2>3, LosesKeeps DEF PutNothing
  <2>4. ASSUME NEW k \in Key, NEW data \in Data \cup {NoData},
               PutInsert(k, req[1], req[2], data) /\ Note({k}, data)
        PROVE  LastInv'
    BY <2>2, <2>4, InsertLast
  <2>5. ASSUME NEW k \in Key, NEW data \in Data \cup {NoData}, NEW fits \in BOOLEAN,
               /\ PutReplace(k, req[1], req[2], data, fits)
               /\ Note({k}, IF fits THEN data ELSE NoData)
        PROVE  LastInv'
    BY <2>2, <2>5, ReplaceLast
  <2>6. ASSUME NEW k \in Key, NEW data \in Data \cup {NoData}, NEW fits \in BOOLEAN,
               PutMisses(k, req[1], req[2], data, fits) /\ Note({k}, NoData)
        PROVE  LastInv'
    BY <2>6, MissesLast
  <2> QED
    BY <2>1, <2>3, <2>4, <2>5, <2>6
<1>4. CASE Use /\ NoteNothing
  <2>1. ASSUME NEW k \in Key, UseOnce(k) \/ Miss(k) PROVE Loses
    BY <1>1, <1>2, <2>1 DEF UseOnce, Miss
  <2>2. ASSUME NEW t \in Thread, NEW k \in Key, Get(t, k) PROVE Loses
    BY <1>2, <2>2 DEF Get
  <2>3. ASSUME NEW t \in Thread, UnlockEntry(t) PROVE Loses
    BY <2>3 DEF UnlockEntry, Loses, IInv, TypeOK, Item
  <2> QED
    BY <1>4, <2>1, <2>2, <2>3, LosesKeeps DEF Use
<1>5. CASE Flush /\ Note(Key, NoData)
  BY <1>5, FlushLast
<1>6. CASE Tick /\ NoteNothing
  BY <1>6, LosesKeeps DEF Tick, Loses
<1>7. CASE UNCHANGED <<vars, history>>
  BY <1>7 DEF vars, history, LastInv, LastOf, Of
<1> QED
  BY <1>3, <1>4, <1>5, <1>6, <1>7 DEF LastNext

\* For any sessions, keys and passphrases: what was replaced, cleared or
\* flushed is not in the cache, unless an item of its key was in use then.
THEOREM LastCorrect == LastSpec => []OnlyLast
<1>1. LastInit => IInv /\ LastInv
  <2>1. LastInit => LastInv
    BY DEF LastInit, Init, LastInv, LastOf, Of
  <2> QED
    BY <2>1, InitIInv DEF LastInit
<1>2. IInv /\ LastInv /\ [LastNext]_<<vars, history>> => IInv' /\ LastInv'
  <2>1. [LastNext]_<<vars, history>> => [Next]_vars
    BY LastSteps
  <2> QED
    BY <2>1, NextKeeps, LastStep
<1>3. IInv /\ LastInv => OnlyLast
  BY DEF IInv, TypeOK, Item, LastInv, LastOf, Of, OnlyLast
<1> QED
  BY <1>1, <1>2, <1>3, PTL DEF LastSpec
=============================================================================
