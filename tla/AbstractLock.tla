---------------------------- MODULE AbstractLock ----------------------------
(***************************************************************************)
(* What a lock file promises its users: a process that uses the lock owns  *)
(* it, there is one owner at a time, and the lock does not change hands    *)
(* while its owner uses it.  A lock whose owner is gone, or is about to    *)
(* give it back, may come free at any time.                                *)
(***************************************************************************)
CONSTANTS Proc,   \* the processes
          NoProc  \* "nobody"

VARIABLES owner,  \* the process that owns the lock, or NoProc
          users,  \* the processes that rely on having the lock
          gone    \* the processes that have ended

vars == <<owner, users, gone>>

Init == owner = NoProc /\ users = {} /\ gone = {}

Acquire(p) ==
  /\ owner = NoProc
  /\ p \notin gone
  /\ owner' = p
  /\ users' = users \cup {p}
  /\ UNCHANGED gone

\* The owner asks to be rid of the lock; until it is, it may change its mind.
Pause(p) ==
  /\ users' = users \ {p}
  /\ UNCHANGED <<owner, gone>>

Resume(p) ==
  /\ owner = p
  /\ p \notin gone
  /\ users' = users \cup {p}
  /\ UNCHANGED <<owner, gone>>

Free ==
  /\ owner \notin users
  /\ owner' = NoProc
  /\ UNCHANGED <<users, gone>>

Release(p) ==
  /\ owner = p
  /\ owner' = NoProc
  /\ users' = users \ {p}
  /\ p \notin gone
  /\ UNCHANGED gone

End(p) ==
  /\ gone' = gone \cup {p}
  /\ users' = users \ {p}
  /\ UNCHANGED owner

\* A process whose process id is used again: what it left behind is its own.
Again(p) ==
  /\ p \in gone
  /\ gone' = gone \ {p}
  /\ UNCHANGED <<owner, users>>

Next ==
  \/ Free
  \/ \E p \in Proc :
       Acquire(p) \/ Pause(p) \/ Resume(p) \/ Release(p) \/ End(p) \/ Again(p)

Spec == Init /\ [][Next]_vars
=============================================================================
