------------------------------ MODULE TrustDb ------------------------------
(***************************************************************************)
(* The trust database of gpg (g10/tdbio.c, with its callers in             *)
(* g10/trustdb.c and g10/tdbdump.c): a file of records, the cache through  *)
(* which a process writes them, and the hash table that finds the trust    *)
(* record of a key.  One process at a time uses it, and may be killed, or  *)
(* end because a write has failed, at any step.                            *)
(*                                                                         *)
(* An operation is a step that reads and finds the records to write (the   *)
(* process sees what it has written, and nobody else writes), one step for *)
(* each of them that goes to the cache, and one for each that goes from    *)
(* there to the file.                                                      *)
(*                                                                         *)
(* Left out: what no program here does (deleting a record and so the list  *)
(* of free ones, transactions, tables below the table); the validity       *)
(* records and the dates; a record written in part.  The order of the      *)
(* cache list, newest first but for the entries that are used again, is    *)
(* any order.                                                              *)
(*                                                                         *)
(* Op_Slip is Op with a plausible slip in it, to show that the properties  *)
(* notice; no other definition uses it.                                    *)
(***************************************************************************)
EXTENDS Naturals, Sequences, FiniteSets

CONSTANTS
  Key, Trust,  \* primary keys and their ownertrusts
  Bucket,      \* items of the hash table
  BucketOf,    \* [Key -> Bucket], the first byte of the fingerprint
  NoTrust,     \* there is no record for the key
  Failed,      \* looking for it has failed
  MaxRec,      \* bound: the largest record number
  Soft,        \* MAX_CACHE_ENTRIES_SOFT
  MaxPending,  \* bound: how many keys an unsynced change may concern
  Slots        \* ITEMS_PER_HLST_RECORD

ASSUME TrustAssumption ==
  /\ BucketOf \in [Key -> Bucket]
  /\ NoTrust \notin Trust /\ Failed \notin Trust \cup {NoTrust} \cup Nat
  /\ MaxRec \in Nat /\ MaxPending \in Nat /\ Soft \in 1 .. 5 /\ Slots \in Nat \ {0, 1}

VARIABLES
  exists,   \* there is a file
  file,     \* its records
  cache,    \* cache_list: the records in it,
  dirty,    \* and which of them are dirty
  isDirty,  \* cache_is_dirty
  todo,     \* the records that the current operation still has to write
  pc,       \* "down": no process runs; "run", "put" or "sync"
  \* What has been asked for: the trust of a key, and all it was since the
  \* last complete sync; buckets where a record was inserted since that,
  \* whether any record was written since, and buckets where that was cut off
  map, asked, touched, torn, damaged

memory == <<cache, dirty, isDirty>>
history == <<map, asked, touched, torn, damaged>>
vars == <<exists, file, memory, todo, pc, history>>

\* Record numbers, of which 0 is also no record, and records
Rec == 0 .. MaxRec
Missing == [type |-> "missing"]
Unused == [type |-> "unused"]
Version(n) == [type |-> "ver", table |-> n]
Table(f) == [type |-> "htbl", item |-> f]
List(s, n) == [type |-> "hlst", rnum |-> s, next |-> n]
TrustRec(k, v) == [type |-> "trust", key |-> k, ownertrust |-> v]
Record ==
  {Unused} \cup {Version(n) : n \in Rec} \cup {Table(f) : f \in [Bucket -> Rec]}
    \cup {List(s, n) : s \in SUBSET Rec, n \in Rec}
    \cup {TrustRec(k, v) : k \in Key, v \in Trust}

\* The types; what is dirty is in the cache, and an operation is at work as long
\* as there is something to put there.
TypeOK ==
  /\ exists \in BOOLEAN /\ isDirty \in BOOLEAN /\ torn \in BOOLEAN
  /\ file \in [Rec -> Record \cup {Missing}] /\ cache \in [Rec -> Record \cup {Missing}]
  /\ dirty \subseteq {n \in Rec : cache[n] # Missing}
  /\ todo \in Seq(Rec \X Record)
  /\ pc \in {"down", "run", "put", "sync"} /\ (pc = "put" <=> todo # <<>>)
  /\ map \in [Key -> Trust \cup {NoTrust}] /\ asked \in [Key -> SUBSET (Trust \cup {NoTrust})]
  /\ touched \subseteq Bucket /\ damaged \subseteq Bucket

Init ==
  /\ exists = FALSE
  /\ file = [n \in Rec |-> Missing]
  /\ cache = [n \in Rec |-> Missing] /\ dirty = {} /\ isDirty = FALSE
  /\ todo = <<>> /\ pc = "down"
  /\ map = [k \in Key |-> NoTrust] /\ asked = [k \in Key |-> {NoTrust}]
  /\ touched = {} /\ torn = FALSE /\ damaged = {}

-----------------------------------------------------------------------------
\* What tdbio_read_record finds.
View == [n \in Rec |-> IF cache[n] # Missing THEN cache[n] ELSE file[n]]

TableOf(db) == IF db[0].type = "ver" THEN db[0].table ELSE 0
HasTable(db) == db[TableOf(db)].type = "htbl"
Item(db, b) == db[TableOf(db)].item[b]

\* From the record n of a list on, the trust record of k, 0 if there is none
Listed(db, k) ==
  LET of == {m \in Rec : db[m].type = "trust" /\ db[m].key = k}
      walk[n \in Rec] ==
        IF db[n].type # "hlst" THEN Failed
        ELSE IF db[n].rnum \cap of # {} THEN CHOOSE m \in db[n].rnum \cap of : TRUE
        ELSE IF db[n].next # 0 THEN walk[db[n].next] ELSE 0
  IN walk

\* lookup_hashtable; its -1 for "not found" is also what reading past the end
\* of the file returns.  A new table would be empty.
Find(db, k) ==
  LET item == Item(db, BucketOf[k])
  IN CASE TableOf(db) = 0 \/ db[TableOf(db)] = Missing -> 0
       [] TableOf(db) # 0 /\ db[TableOf(db)] # Missing /\ ~ HasTable(db) -> Failed
       [] HasTable(db) /\ db[item].type = "hlst" -> Listed(db, k)[item]
       [] HasTable(db) /\ db[item].type = "trust" -> IF db[item].key = k THEN item ELSE 0
       [] OTHER -> 0

Lookup(db, k) ==
  LET n == Find(db, k)
  IN CASE n = 0 -> NoTrust
       [] n = Failed -> Failed
       [] OTHER -> db[n].ownertrust

\* From the record n of a list on, the last one; or no record of a list, if the
\* list is broken.
Lists(db) == {n \in Rec : db[n].type = "hlst"}
Last(db) ==
  LET walk[n \in Rec] ==
        IF n \in Lists(db) /\ db[n].next # 0 THEN walk[db[n].next] ELSE n
  IN walk

SetItem(db, b, n) ==
  <<TableOf(db), Table([db[TableOf(db)].item EXCEPT ![b] = n])>>

\* upd_hashtable, for a record n that is not in the table yet: what it writes,
\* nothing if it fails; new is the number of the list record it may need.
Inserts(db, b, n, new) ==
  LET item == Item(db, b)
      last == Last(db)[item]
  IN IF ~ HasTable(db) THEN <<>>
     ELSE IF item = 0 THEN <<SetItem(db, b, n)>>
     ELSE IF db[item].type = "trust"
       THEN <<<<new, List({item, n}, 0)>>, SetItem(db, b, new)>>
     ELSE IF ~ {item, last} \subseteq Lists(db) THEN <<>>
     ELSE IF Cardinality(db[last].rnum) < Slots
       THEN <<<<last, List(db[last].rnum \cup {n}, db[last].next)>>>>
       ELSE <<<<last, List(db[last].rnum, new)>>, <<new, List({n}, 0)>>>>

-----------------------------------------------------------------------------
\* tdbio_set_dbname makes a new file and its version record; if it finds one,
\* open_db wants that record.
Create ==
  /\ pc = "down" /\ ~ exists
  /\ exists' = TRUE
  /\ todo' = <<<<0, Version(0)>>>> /\ pc' = "put"
  /\ UNCHANGED <<file, memory, history>>

OpenDb ==
  /\ pc = "down" /\ exists
  /\ file[0].type = "ver"
  /\ pc' = "run"
  /\ UNCHANGED <<exists, file, memory, todo, history>>

\* The file's number of records (the offset of its end)
Size == Cardinality({n \in Rec : file[n] # Missing})

\* create_hashtable, by the first search
CreateTable ==
  /\ pc = "run" /\ TableOf(View) = 0
  /\ Size <= MaxRec
  /\ todo' = <<<<Size, Table([b \in Bucket |-> 0])>>, <<0, Version(Size)>>>>
  /\ pc' = "put"
  /\ touched' = Bucket
  /\ UNCHANGED <<exists, file, memory, map, asked, torn, damaged>>

Searches == pc = "run" /\ TableOf(View) # 0

\* Bounds: the keys whose change is not synced; the processes that are cut off
\* while they insert
May(k) == Cardinality({j \in Key : asked[j] # {map[j]}} \cup {k}) <= MaxPending
OneCut == torn /\ touched # {} => damaged = {}

\* The process ends and what is in its cache is lost.
Stop ==
  /\ pc' = "down"
  /\ cache' = [n \in Rec |-> Missing] /\ dirty' = {} /\ isDirty' = FALSE /\ todo' = <<>>
  /\ map' = [k \in Key |-> IF Lookup(file, k) \in asked[k] THEN Lookup(file, k) ELSE map[k]]
  /\ asked' = [k \in Key |-> IF Lookup(file, k) \in asked[k] THEN {map'[k]} ELSE asked[k]]
  /\ damaged' = IF torn THEN damaged \cup touched ELSE damaged
  /\ touched' = {} /\ torn' = FALSE
  /\ UNCHANGED exists

Ask(k, v) ==
  /\ map' = [map EXCEPT ![k] = v]
  /\ asked' = [asked EXCEPT ![k] = @ \cup {v}]

\* A new ownertrust for a key that has a record, and for one that has none.
\* tdbio_new_recnum appends an empty record at once.
Change(k, v) ==
  /\ Searches /\ May(k)
  /\ \E n \in Rec :
       /\ n = Find(View, k) /\ View[n].type = "trust" /\ View[n].ownertrust # v
       /\ todo' = <<<<n, TrustRec(k, v)>>>>
  /\ pc' = "put"
  /\ Ask(k, v)
  /\ UNCHANGED <<exists, file, memory, touched, torn, damaged>>

Appended(ns) == [n \in Rec |-> IF n \in ns THEN Unused ELSE file[n]]

Insertion(k) == Inserts(View, BucketOf[k], Size, Size + 1)

Insert(k, v) ==
  /\ Searches /\ Size < MaxRec
  /\ Lookup(View, k) = NoTrust /\ May(k)
  /\ Insertion(k) # <<>>
  /\ todo' = <<<<Size, TrustRec(k, v)>>>> \o Insertion(k)
  /\ file' = Appended({Size} \cup {n \in {Size + 1} : \E i \in DOMAIN todo' : todo'[i][1] = n})
  /\ pc' = "put"
  /\ Ask(k, v)
  /\ touched' = touched \cup {BucketOf[k]}
  /\ UNCHANGED <<exists, memory, torn, damaged>>

\* tdbio_invalid: "The trustdb is corrupted"
Invalid(k) ==
  /\ Searches
  /\ \/ Lookup(View, k) = Failed /\ UNCHANGED file
     \/ /\ Lookup(View, k) = NoTrust /\ Insertion(k) = <<>>
        /\ Size <= MaxRec /\ file' = Appended({Size})
  /\ Stop

-----------------------------------------------------------------------------
\* put_record_into_cache, for the next record of todo
Cached == {n \in Rec : cache[n] # Missing}
Store(m) == \* in the place of m
  /\ cache' = [n \in Rec |-> IF n = todo[1][1] THEN todo[1][2]
                             ELSE IF n \in m THEN Missing ELSE cache[n]]
  /\ todo' = Tail(todo)
  /\ pc' \in IF Len(todo) > 1 THEN {"put"}
             ELSE IF todo[1][1] = 0 THEN {"sync"} ELSE {"run", "sync"}
  /\ UNCHANGED <<exists, file, history>>

\* Slip: new data for a clean entry leaves it clean.
PutCached_Slip ==
  /\ pc = "put" /\ todo[1][1] \in Cached
  /\ Store({})
  /\ UNCHANGED <<dirty, isDirty>>

PutCached ==
  /\ pc = "put" /\ todo[1][1] \in Cached
  /\ dirty' = IF cache[todo[1][1]] = todo[1][2] THEN dirty ELSE dirty \cup {todo[1][1]}
  /\ isDirty' = (isDirty \/ cache[todo[1][1]] # todo[1][2])
  /\ Store({})

\* Slip: any entry is discarded.
PutNew_Slip ==
  /\ pc = "put" /\ todo[1][1] \notin Cached
  /\ dirty' = dirty \cup {todo[1][1]}
  /\ isDirty' = TRUE
  /\ IF Cardinality(Cached) < Soft THEN Store({})
     ELSE \E n \in Cached : Store({n})

\* A full cache: clean entries are discarded, a third of them (that is one).
PutNew ==
  /\ pc = "put" /\ todo[1][1] \notin Cached
  /\ dirty' = dirty \cup {todo[1][1]}
  /\ isDirty' = TRUE
  /\ IF Cardinality(Cached) < Soft THEN Store({})
     ELSE \E n \in Cached \ dirty : Store({n})

WriteItem(n) ==
  /\ file' = [file EXCEPT ![n] = cache[n]]
  /\ dirty' = dirty \ {n}
  /\ torn' = TRUE

\* Slip: they are discarded without being written.
Flush_Slip ==
  /\ pc = "put" /\ todo[1][1] \notin Cached
  /\ Cardinality(Cached) >= Soft /\ Cached \subseteq dirty
  /\ \E n \in dirty : dirty' = dirty \ {n} /\ cache' = [cache EXCEPT ![n] = Missing]
  /\ UNCHANGED <<exists, file, isDirty, todo, pc, history>>

\* No clean ones: some dirty ones are written and discarded, a fifth of them
\* (that is one).
Flush ==
  /\ pc = "put" /\ todo[1][1] \notin Cached
  /\ Cardinality(Cached) >= Soft /\ Cached \subseteq dirty
  /\ \E n \in dirty : WriteItem(n) /\ cache' = [cache EXCEPT ![n] = Missing]
  /\ UNCHANGED <<exists, isDirty, todo, pc, map, asked, touched, damaged>>

\* tdbio_sync, called at once or after more operations
Sync ==
  /\ pc = "run" /\ isDirty
  /\ pc' = "sync"
  /\ UNCHANGED <<exists, file, memory, todo, history>>

SyncWrite ==
  /\ pc = "sync"
  /\ \E n \in dirty : WriteItem(n)
  /\ UNCHANGED <<exists, cache, isDirty, todo, pc, map, asked, touched, damaged>>

\* Slip: a write that fails is not noticed.
SyncDone_Slip ==
  /\ pc = "sync"
  /\ pc' = "run" /\ isDirty' = FALSE
  /\ asked' = [k \in Key |-> {map[k]}] /\ touched' = {} /\ torn' = FALSE
  /\ UNCHANGED <<exists, file, cache, dirty, todo, map, damaged>>

SyncDone ==
  /\ pc = "sync" /\ dirty = {}
  /\ pc' = "run" /\ isDirty' = FALSE
  /\ asked' = [k \in Key |-> {map[k]}] /\ touched' = {} /\ torn' = FALSE
  /\ UNCHANGED <<exists, file, cache, dirty, todo, map, damaged>>

\* The process is done, is killed, or dies since a write has failed.
Ends == pc # "down" /\ OneCut /\ Stop /\ UNCHANGED file

Next ==
  \/ Create \/ OpenDb \/ CreateTable
  \/ \E k \in Key : Invalid(k) \/ \E v \in Trust : Change(k, v) \/ Insert(k, v)
  \/ PutCached \/ PutNew \/ Flush
  \/ Sync \/ SyncWrite \/ SyncDone \/ Ends

Spec == Init /\ [][Next]_vars

-----------------------------------------------------------------------------
\* What a process finds is what was asked for: whatever it has discarded or
\* written in the middle of an operation, and however often its table and
\* lists have been changed.
ViewRight ==
  pc = "run" /\ TableOf(View) # 0 =>
    \A k \in Key : BucketOf[k] \notin damaged => Lookup(View, k) = map[k]

\* At every moment the file has for each key the trust of the last complete
\* sync or the one that is being written: what is cut off damages at most the
\* buckets in which a record was being inserted.  Not even those have a wrong
\* trust for a key: they have lost it, or the list is broken.
FileRight ==
  \A k \in Key :
    IF BucketOf[k] \in damaged \/ (torn /\ BucketOf[k] \in touched)
      THEN Lookup(file, k) \in asked[k] \cup {NoTrust, Failed}
      ELSE Lookup(file, k) \in asked[k]

\* cache_is_dirty tells whether there is something to write; what is not dirty
\* is in the file.
CacheKnown ==
  /\ \A n \in Cached \ dirty : cache[n] = file[n]
  /\ dirty # {} => isDirty
=============================================================================
