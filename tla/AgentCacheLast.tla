--------------------------- MODULE AgentCacheLast ---------------------------
(***************************************************************************)
(* AgentCache with a history: what was stored last under a cache id, and   *)
(* whether an item of the id was in use then.  agent_put_cache says: "If   *)
(* there is already data under this key, it will be replaced.  Using a     *)
(* DATA of NULL deletes the entry."  It passes over the items in use, so   *)
(* that is not always so; OnlyLast says when it is.                        *)
(***************************************************************************)
EXTENDS AgentCache

VARIABLES
  last,  \* what was stored last for a key, NoData after it was cleared
  met    \* the keys that had an item in use then, until their items are gone

history == <<last, met>>

LastInit ==
  /\ Init
  /\ last = [k \in Key |-> NoData]
  /\ met = {}

Listed(k) == \E s \in used : item[s].key = k
InUse(k) == \E s \in used : item[s].key = k /\ ~ Unlocked(s)

\* d is stored for the keys K, or with NoData they are cleared.
Note(K, d) ==
  /\ last' = [k \in Key |-> IF k \in K THEN d ELSE last[k]]
  /\ met' = {k \in met \cup {j \in K : InUse(j)} : Listed(k)'}

NoteNothing ==
  /\ UNCHANGED last
  /\ met' = {k \in met : Listed(k)'}

\* A put that finds the secure memory used up leaves the key without.
LastPut ==
  \E req \in Request :
    \/ PutNothing(req[1], req[2]) /\ NoteNothing
    \/ \E k \in Key, data \in Data \cup {NoData} :
         \/ PutInsert(k, req[1], req[2], data) /\ Note({k}, data)
         \/ \E fits \in BOOLEAN :
              \/ /\ PutReplace(k, req[1], req[2], data, fits)
                 /\ Note({k}, IF fits THEN data ELSE NoData)
              \/ PutMisses(k, req[1], req[2], data, fits) /\ Note({k}, NoData)

LastNext ==
  \/ LastPut
  \/ Use /\ NoteNothing
  \/ Flush /\ Note(Key, NoData)
  \/ Tick /\ NoteNothing

LastSpec == LastInit /\ [][LastNext]_<<vars, history>>

-----------------------------------------------------------------------------
\* agent_put_cache, agent_flush_cache: a passphrase that was replaced, cleared
\* or flushed is in no item any more, whatever sessions got, gave back and let
\* expire before, unless one of them had an item of that cache id in use just
\* when this was done.  (Then it may be found until all items of the id have
\* been removed, even if nobody uses any when it is replaced again.)
OnlyLast ==
  \A s \in used :
    item[s].key \notin met => item[s].pw \in {last[item[s].key], NoData}
=============================================================================
