----------------------------- MODULE AgentCache -----------------------------
(***************************************************************************)
(* The passphrase cache of gpg-agent (agent/cache.c).                      *)
(*                                                                         *)
(* The threads of gpg-agent are those of GNU Pth: another one runs only    *)
(* when the current one blocks.  No function of cache.c does, so each is   *)
(* one step.  A passphrase is handed out as a pointer into the cache, and  *)
(* the lock count keeps it there until agent_unlock_cache_entry; in        *)
(* between GET_PASSPHRASE sends it to the client, which may block.  Who    *)
(* decrypts a key with it does not block (UseOnce).                        *)
(*                                                                         *)
(* Item is the memory of the items of the list thecache.  The list order   *)
(* is the relation before.  Times are in seconds, and so small that the    *)
(* half hour a slot is kept is SlotAge.                                    *)
(*                                                                         *)
(* Op_Slip is Op with a plausible slip in it, to show that the properties  *)
(* notice; no other definition uses it.                                    *)
(***************************************************************************)
EXTENDS Integers, FiniteSets

CONSTANTS
  Thread,    \* the sessions of the agent
  Slot,      \* the memory for items, when it is used up xtrycalloc fails
  NoSlot,    \* a null pointer
  Key,       \* cache ids and keygrips
  Data,      \* passphrases
  NoData,    \* a null pointer
  Start,     \* the time when the agent starts, large
  MaxTime,   \* bound: the last time of a run
  DefTtl,    \* [Mode -> Nat], opt.def_cache_ttl and opt.def_cache_ttl_ssh
  MaxTtl,    \* [Mode -> Nat], opt.max_cache_ttl and opt.max_cache_ttl_ssh
  Request,   \* the <<mode, ttl>> that callers give, with -1 for PRESET_PASSPHRASE
  SlotAge,   \* how long an item without a passphrase is kept
  Delay      \* by how much that grows for an item in use

Mode == {"ssh", "other"}

ASSUME CacheAssumption ==
  /\ NoSlot \notin Slot /\ NoData \notin Data
  /\ Start \in Nat /\ MaxTime \in Nat /\ SlotAge \in Nat /\ Delay \in Nat
  /\ DefTtl \in [Mode -> Nat] /\ MaxTtl \in [Mode -> Nat]
  /\ Request \subseteq Mode \X (Nat \cup {-1})
  /\ IsFiniteSet(Thread) /\ Key # {}

VARIABLES
  used,    \* the slots that are items of thecache
  before,  \* <<r, s>> when r is nearer to the head of thecache than s
  item,    \* their content
  held,    \* the item that a session sends the passphrase of
  sent,    \* that passphrase as it was when the session got it
  now      \* gnupg_get_time ()

vars == <<used, before, item, held, sent, now>>

Item == [key : Key, pw : Data \cup {NoData}, created : Nat, accessed : Nat,
         ttl : Nat \cup {-1}, lockcount : Nat, mode : Mode]

\* The types, and thecache is a list: before puts its items into one order.
TypeOK ==
  /\ used \subseteq Slot
  /\ before \subseteq used \X used
  /\ \A r, s \in used : r # s => (<<r, s>> \in before <=> <<s, r>> \notin before)
  /\ item \in [Slot -> Item]
  /\ held \in [Thread -> Slot \cup {NoSlot}]
  /\ sent \in [Thread -> Data \cup {NoData}]
  /\ now \in Nat

AnyItem == [key |-> CHOOSE k \in Key : TRUE, pw |-> NoData, created |-> 0,
            accessed |-> 0, ttl |-> 0, lockcount |-> 0, mode |-> "other"]

Init ==
  /\ used = {}
  /\ before = {}
  /\ item = [s \in Slot |-> AnyItem]
  /\ held = [t \in Thread |-> NoSlot]
  /\ sent = [t \in Thread |-> NoData]
  /\ now = Start

-----------------------------------------------------------------------------
\* The first two loops of housekeeping: too long since the last access, too
\* long since the passphrase was stored.
Unused(r) == r.ttl >= 0 /\ r.accessed + r.ttl < now
TooOld(r) == r.created + MaxTtl[r.mode] < now

\* Slip: does not look at the lock count.
Expire_Slip(r) ==
  IF r.pw # NoData /\ (Unused(r) \/ TooOld(r))
    THEN [r EXCEPT !.pw = NoData, !.accessed = now] ELSE r

Expire(r) ==
  IF r.lockcount = 0 /\ r.pw # NoData /\ (Unused(r) \/ TooOld(r))
    THEN [r EXCEPT !.pw = NoData, !.accessed = now] ELSE r

\* The third loop: an item that has had no passphrase for half an hour.
Idle(r) == r.pw = NoData /\ r.ttl >= 0 /\ r.accessed + SlotAge < now

Postpone(r) ==
  IF Idle(r) /\ r.lockcount > 0 THEN [r EXCEPT !.accessed = @ + Delay] ELSE r

\* The items that housekeeping leaves in the list, and what it makes of them.
Remaining ==
  {s \in used : ~ (Idle(Expire(item[s])) /\ item[s].lockcount = 0)}

\* Slip: removes items only.
Kept_Slip(s) == IF s \in Remaining THEN item[s] ELSE AnyItem

Kept(s) == IF s \in Remaining THEN Postpone(Expire(item[s])) ELSE AnyItem

\* Slip: the removed items stay linked.
Without_Slip(gone) == before

Without(gone) == {x \in before : x[1] \notin gone /\ x[2] \notin gone}

\* r is the first item of the list that is in S.
First(S, r) == r \in S /\ \A s \in S \ {r} : <<r, s>> \in before

Unlocked(s) == item[s].lockcount = 0

-----------------------------------------------------------------------------
\* agent_put_cache.  data is NoData for CLEAR_PASSPHRASE; fits is FALSE when
\* the secure memory is used up.
Lifetime(mode, ttl) == IF ttl = 0 THEN DefTtl[mode] ELSE ttl

\* Slip: makes the new passphrase first and leaves the old one if it cannot.
Stored_Slip(r, mode, ttl, data, fits) ==
  [r EXCEPT !.pw = IF fits THEN data ELSE @,
            !.created = now, !.accessed = now, !.ttl = ttl, !.mode = mode]

Stored(r, mode, ttl, data, fits) ==
  [r EXCEPT !.pw = IF fits THEN data ELSE NoData,
            !.created = now, !.accessed = now, !.ttl = ttl, !.mode = mode]

\* Slip: an item whose passphrase has expired is not used again.
Replaceable_Slip(k) ==
  {s \in Remaining : item[s].key = k /\ Unlocked(s) /\ Kept(s).pw # NoData}

Replaceable(k) == {s \in Remaining : item[s].key = k /\ Unlocked(s)}

\* The ttl is 0 or the mode is CACHE_MODE_IGNORE: housekeeping is all.
PutNothing(mode, ttl) ==
  /\ Lifetime(mode, ttl) = 0
  /\ used' = Remaining
  /\ before' = Without(used \ Remaining)
  /\ item' = [s \in Slot |-> Kept(s)]
  /\ UNCHANGED <<held, sent, now>>

\* Slip: takes the first item of the key, in use or not.
PutReplace_Slip(k, mode, ttl, data, fits) ==
  /\ Lifetime(mode, ttl) # 0
  /\ \E r \in Remaining :
       /\ item[r].key = k
       /\ item' = [s \in Slot |->
             IF s # r THEN Kept(s)
             ELSE IF data = NoData THEN [Kept(r) EXCEPT !.pw = NoData]
             ELSE Stored(Kept(r), mode, Lifetime(mode, ttl), data, fits)]
  /\ used' = Remaining
  /\ before' = Without(used \ Remaining)
  /\ UNCHANGED <<held, sent, now>>

PutReplace(k, mode, ttl, data, fits) ==
  /\ Lifetime(mode, ttl) # 0
  /\ \E r \in Replaceable(k) :
       /\ First(Replaceable(k), r)
       /\ item' = [s \in Slot |->
             IF s # r THEN Kept(s)
             ELSE IF data = NoData THEN [Kept(r) EXCEPT !.pw = NoData]
             ELSE Stored(Kept(r), mode, Lifetime(mode, ttl), data, fits)]
  /\ used' = Remaining
  /\ before' = Without(used \ Remaining)
  /\ UNCHANGED <<held, sent, now>>

\* "simply insert", at the head of the list
PutInsert(k, mode, ttl, data) ==
  /\ Lifetime(mode, ttl) # 0
  /\ data # NoData
  /\ Replaceable(k) = {}
  /\ \E r \in Slot \ Remaining :
       /\ used' = Remaining \cup {r}
       /\ before' = Without(used \ Remaining) \cup ({r} \X Remaining)
       /\ item' = [s \in Slot |->
             IF s # r THEN Kept(s)
             ELSE [key |-> k, pw |-> data, created |-> now, accessed |-> now,
                   ttl |-> Lifetime(mode, ttl), lockcount |-> 0, mode |-> mode]]
  /\ UNCHANGED <<held, sent, now>>

\* Nothing to delete, or no memory for a new item.
PutMisses(k, mode, ttl, data, fits) ==
  /\ Lifetime(mode, ttl) # 0
  /\ Replaceable(k) = {}
  /\ data = NoData \/ ~ fits \/ Slot \ Remaining = {}
  /\ used' = Remaining
  /\ before' = Without(used \ Remaining)
  /\ item' = [s \in Slot |-> Kept(s)]
  /\ UNCHANGED <<held, sent, now>>

-----------------------------------------------------------------------------
\* agent_get_cache: an unlocked item first, else a locked one.
WithData(k) == {s \in Remaining : item[s].key = k /\ Kept(s).pw # NoData}
Free(k) == {s \in WithData(k) : Unlocked(s)}

Hit(k, r) == IF Free(k) # {} THEN First(Free(k), r) ELSE First(WithData(k), r)

\* The item that is handed out, locked once more by n.
Accessed(r, n) ==
  [s \in Slot |->
     IF s = r THEN [Kept(r) EXCEPT !.accessed = now, !.lockcount = @ + n]
     ELSE Kept(s)]

\* GET_PASSPHRASE, up to where it sends the passphrase.
Get(t, k) ==
  /\ held[t] = NoSlot
  /\ \E r \in Slot :
       /\ Hit(k, r)
       /\ item' = Accessed(r, 1)
       /\ held' = [held EXCEPT ![t] = r]
       /\ sent' = [sent EXCEPT ![t] = Kept(r).pw]
  /\ used' = Remaining
  /\ before' = Without(used \ Remaining)
  /\ UNCHANGED now

\* unprotect: agent_get_cache, agent_unprotect and agent_unlock_cache_entry
UseOnce(k) ==
  /\ \E r \in Slot : Hit(k, r) /\ item' = Accessed(r, 0)
  /\ used' = Remaining
  /\ before' = Without(used \ Remaining)
  /\ UNCHANGED <<held, sent, now>>

Miss(k) ==
  /\ WithData(k) = {}
  /\ used' = Remaining
  /\ before' = Without(used \ Remaining)
  /\ item' = [s \in Slot |-> Kept(s)]
  /\ UNCHANGED <<held, sent, now>>

\* Slip: unlocks the item only if its passphrase has not expired.
UnlockEntry_Slip(t) ==
  /\ held[t] # NoSlot
  /\ item' = IF ~ Unused(item[held[t]])
               THEN [item EXCEPT ![held[t]].lockcount = @ - 1] ELSE item
  /\ held' = [held EXCEPT ![t] = NoSlot]
  /\ sent' = [sent EXCEPT ![t] = NoData]
  /\ UNCHANGED <<used, before, now>>

\* agent_unlock_cache_entry: nothing if the item is not in the list.
UnlockEntry(t) ==
  /\ held[t] # NoSlot
  /\ item' = IF held[t] \in used /\ item[held[t]].lockcount > 0
               THEN [item EXCEPT ![held[t]].lockcount = @ - 1] ELSE item
  /\ held' = [held EXCEPT ![t] = NoSlot]
  /\ sent' = [sent EXCEPT ![t] = NoData]
  /\ UNCHANGED <<used, before, now>>

\* agent_flush_cache (SIGHUP): an item in use is marked only.
Flushed(r) ==
  IF r.pw = NoData THEN r
  ELSE IF r.lockcount = 0 THEN [r EXCEPT !.pw = NoData, !.accessed = 0]
  ELSE [r EXCEPT !.accessed = 0, !.ttl = 0]

Flush ==
  /\ item' = [s \in Slot |-> IF s \in used THEN Flushed(item[s]) ELSE item[s]]
  /\ UNCHANGED <<used, before, held, sent, now>>

Tick ==
  /\ now < MaxTime
  /\ now' = now + 1
  /\ UNCHANGED <<used, before, item, held, sent>>

Put ==
  \E req \in Request :
    \/ PutNothing(req[1], req[2])
    \/ \E k \in Key, data \in Data \cup {NoData} :
         \/ PutInsert(k, req[1], req[2], data)
         \/ \E fits \in BOOLEAN : PutReplace(k, req[1], req[2], data, fits)
                                  \/ PutMisses(k, req[1], req[2], data, fits)

Use ==
  \/ \E k \in Key : UseOnce(k) \/ Miss(k)
  \/ \E t \in Thread : UnlockEntry(t) \/ \E k \in Key : Get(t, k)

Next == Put \/ Use \/ Flush \/ Tick

Spec == Init /\ [][Next]_vars

-----------------------------------------------------------------------------
\* While a session sends a passphrase it stays where it is, whatever the
\* other sessions, the clock and SIGHUP do: the item is neither freed nor
\* used for another key, its passphrase neither released nor replaced.
HeldStays ==
  \A t \in Thread : held[t] # NoSlot =>
    held[t] \in used /\ sent[t] # NoData /\ item[held[t]].pw = sent[t]

\* The lock count of an item is the number of sessions that use it: no item
\* is locked for ever, none is unlocked while in use.
Holders(s) == {t \in Thread : held[t] = s}
LockcountExact ==
  \A s \in Slot : item[s].lockcount = Cardinality(Holders(s))

\* The items of one key are at most one more than the sessions that can lock
\* one: the list does not grow with the number of passphrases stored.
FewDuplicates ==
  \A k \in Key :
    Cardinality({s \in used : item[s].key = k}) <= Cardinality(Thread) + 1

\* No session gets a passphrase that has outlived --max-cache-ttl, or was not
\* used for its ttl, unless another session was using it all the time.
Within(r) == now <= r.created + MaxTtl[r.mode]
             /\ (r.ttl >= 0 => now <= r.accessed + r.ttl)

ServedInTime ==
  [][\A t \in Thread :
       (held[t] = NoSlot /\ held'[t] # NoSlot)
         => Within(item[held'[t]]) \/ item[held'[t]].lockcount > 0]_vars
=============================================================================
