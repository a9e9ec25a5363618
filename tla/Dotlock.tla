------------------------------ MODULE Dotlock ------------------------------
(***************************************************************************)
(* The lock files of jnlib/dotlock.c (POSIX version).  A process writes    *)
(* its process id and node name into a template file of its own and takes  *)
(* the lock by giving the template a second name, "<file>.lock", with      *)
(* link(2), which fails when that name exists.  A process that finds the   *)
(* name taken reads who took it and removes the file when that process is  *)
(* no longer running on this node.                                         *)
(*                                                                         *)
(* Every step below is at most one system call on a shared object: what is *)
(* read in one step (the owner's pid, whether it runs) may have changed    *)
(* when a later step acts on it.  The content of a lock file is fixed      *)
(* before it gets its name, so reading it is one step, that of open(2).    *)
(*                                                                         *)
(* A process has one handle, because keyring.c, keybox and tdbio.c make    *)
(* one per file.  A process id that is used again is the same element of   *)
(* Proc starting anew.                                                     *)
(*                                                                         *)
(* A definition named Op_Slip is Op with a plausible slip in it; no other  *)
(* definition uses it.  It is there to show that the properties notice.    *)
(***************************************************************************)
EXTENDS FiniteSets

CONSTANTS
  Proc,       \* the processes that use the lock
  NoProc,     \* content of a lock file that does not exist
  NodeOf,     \* [Proc -> node], the node name uname() gives the process
  PidOf,      \* [Proc -> pid], what getpid() gives the process
  MayEnd,     \* the processes that may end (exit, or be killed at any point)
  MayReuse,   \* the process ids that a later process may get again
  MayFail     \* the processes for which link, open or unlink may fail

ASSUME ProcAssumption ==
  /\ NoProc \notin Proc
  /\ MayEnd \subseteq Proc /\ MayReuse \subseteq Proc /\ MayFail \subseteq Proc

\* A process id names one process on one node.
ASSUME PidAssumption ==
  \A p, q \in Proc : NodeOf[p] = NodeOf[q] /\ PidOf[p] = PidOf[q] => p = q

VARIABLES
  lockfile,  \* the process whose template has the name of the lock file
  running,   \* the processes for which kill(pid, 0) succeeds
  pc,        \* where a process is in the functions of dotlock.c
  locked,    \* h->locked
  forever,   \* make_dotlock was called with a timeout of -1, not 0
  seen       \* the process read_lockfile found in the lock file

vars == <<lockfile, running, pc, locked, forever, seen>>

PCs == {"none",     \* there is no handle
        "idle",     \* there is a handle and no call is active
        "link", "read", "kill", "break", "sleep",  \* in make_dotlock
        "check", "unlink"}                         \* in release_dotlock

\* The types, and the pid is one that was read when it is looked for.
TypeOK ==
  /\ lockfile \in Proc \cup {NoProc}
  /\ running \subseteq Proc
  /\ pc \in [Proc -> PCs]
  /\ locked \in [Proc -> BOOLEAN]
  /\ forever \in [Proc -> BOOLEAN]
  /\ seen \in [Proc -> Proc \cup {NoProc}]
  /\ \A p \in Proc : pc[p] \in {"kill", "break"} => seen[p] \in Proc

Init ==
  /\ lockfile = NoProc
  /\ running = Proc
  /\ pc = [p \in Proc |-> "none"]
  /\ locked = [p \in Proc |-> FALSE]
  /\ forever = [p \in Proc |-> FALSE]
  /\ seen = [p \in Proc |-> NoProc]

-----------------------------------------------------------------------------
SameNode(p, q) == NodeOf[p] = NodeOf[q]

\* Slip: compares pids only.
OwnFile_Slip(p) == lockfile # NoProc /\ PidOf[p] = PidOf[lockfile]

\* The lock file has the pid and the node name of p.
OwnFile(p) ==
  lockfile # NoProc /\ PidOf[p] = PidOf[lockfile] /\ SameNode(p, lockfile)

\* same_node && kill(pid, 0) && errno == ESRCH: the file names a process of
\* this node, and none with its pid runs here.
Stale(p, q) ==
  /\ SameNode(p, q)
  /\ ~ \E r \in running : SameNode(p, r) /\ PidOf[r] = PidOf[q]

Goto(p, from, to) ==
  /\ p \in running
  /\ pc[p] = from
  /\ pc' = [pc EXCEPT ![p] = to]

-----------------------------------------------------------------------------
CreateDotlock(p) ==
  /\ Goto(p, "none", "idle")
  /\ locked' = [locked EXCEPT ![p] = FALSE]
  /\ UNCHANGED <<lockfile, running, forever, seen>>

\* Slip: removes the file even if it is not held.
DestroyDotlock_Slip(p) ==
  /\ Goto(p, "idle", "none")
  /\ lockfile' = NoProc
  /\ locked' = [locked EXCEPT ![p] = FALSE]
  /\ UNCHANGED <<running, forever, seen>>

\* A lock file that the handle holds is removed unread.
DestroyDotlock(p) ==
  /\ Goto(p, "idle", "none")
  /\ lockfile' = IF locked[p] THEN NoProc ELSE lockfile
  /\ locked' = [locked EXCEPT ![p] = FALSE]
  /\ UNCHANGED <<running, forever, seen>>

\* make_dotlock up to its loop: a handle that is locked already stays so.
MakeDotlock(p, wait) ==
  /\ Goto(p, "idle", IF locked[p] THEN "idle" ELSE "link")
  /\ forever' = [forever EXCEPT ![p] = wait]
  /\ UNCHANGED <<lockfile, running, locked, seen>>

\* Slip: replaces the file, as rename(2) does.
LinkMade_Slip(p) ==
  /\ Goto(p, "link", "idle")
  /\ lockfile' = p
  /\ locked' = [locked EXCEPT ![p] = TRUE]
  /\ UNCHANGED <<running, forever, seen>>

\* link(tname, lockname) == 0
LinkMade(p) ==
  /\ Goto(p, "link", "idle")
  /\ lockfile = NoProc
  /\ lockfile' = p
  /\ locked' = [locked EXCEPT ![p] = TRUE]
  /\ UNCHANGED <<running, forever, seen>>

\* errno == EEXIST
LinkExists(p) ==
  /\ Goto(p, "link", "read")
  /\ lockfile # NoProc
  /\ UNCHANGED <<lockfile, running, locked, forever, seen>>

\* Any other error of link or of read_lockfile: make_dotlock returns -1.
MakeFails(p) ==
  /\ Goto(p, "link", "idle") \/ Goto(p, "read", "idle")
  /\ p \in MayFail
  /\ UNCHANGED <<lockfile, running, locked, forever, seen>>

\* read_lockfile with ENOENT: "lockfile disappeared"
ReadDisappeared(p) ==
  /\ Goto(p, "read", "link")
  /\ lockfile = NoProc
  /\ UNCHANGED <<lockfile, running, locked, forever, seen>>

\* Slip: waits for itself.
ReadOwn_Slip(p) ==
  /\ Goto(p, "read", "link")
  /\ OwnFile(p)
  /\ UNCHANGED <<lockfile, running, locked, forever, seen>>

\* "Oops: lock already held by us"
ReadOwn(p) ==
  /\ Goto(p, "read", "idle")
  /\ OwnFile(p)
  /\ locked' = [locked EXCEPT ![p] = TRUE]
  /\ UNCHANGED <<lockfile, running, forever, seen>>

\* Slip: goes on without a file.
ReadOther_Slip(p) ==
  /\ Goto(p, "read", "kill")
  /\ ~ OwnFile(p)
  /\ seen' = [seen EXCEPT ![p] = lockfile]
  /\ UNCHANGED <<lockfile, running, locked, forever>>

ReadOther(p) ==
  /\ Goto(p, "read", "kill")
  /\ lockfile # NoProc
  /\ ~ OwnFile(p)
  /\ seen' = [seen EXCEPT ![p] = lockfile]
  /\ UNCHANGED <<lockfile, running, locked, forever>>

\* Slip: leaves the file where it is.
KillStale_Slip(p) ==
  /\ Goto(p, "kill", "link")
  /\ Stale(p, seen[p])
  /\ UNCHANGED <<lockfile, running, locked, forever, seen>>

\* The owner that was read is not running: its lock file is to be removed.
KillStale(p) ==
  /\ Goto(p, "kill", "break")
  /\ Stale(p, seen[p])
  /\ UNCHANGED <<lockfile, running, locked, forever, seen>>

\* The owner runs, or is on another node: wait for it or return -1.
KillHeld(p) ==
  /\ Goto(p, "kill", IF forever[p] THEN "sleep" ELSE "idle")
  /\ ~ Stale(p, seen[p])
  /\ UNCHANGED <<lockfile, running, locked, forever, seen>>

\* Slip: takes the file over instead.
BreakLock_Slip(p) ==
  /\ Goto(p, "break", "link")
  /\ lockfile' = p
  /\ UNCHANGED <<running, locked, forever, seen>>

\* unlink(lockname): whatever file has that name now, if there is one
BreakLock(p) ==
  /\ Goto(p, "break", "link")
  /\ lockfile' = NoProc
  /\ UNCHANGED <<running, locked, forever, seen>>

\* select() has slept 1 + backoff seconds.
WakeUp(p) ==
  /\ Goto(p, "sleep", "link")
  /\ UNCHANGED <<lockfile, running, locked, forever, seen>>

\* release_dotlock up to its read_lockfile: nothing to do when not locked.
ReleaseDotlock(p) ==
  /\ Goto(p, "idle", IF locked[p] THEN "check" ELSE "idle")
  /\ UNCHANGED <<lockfile, running, locked, forever, seen>>

\* The lock file is ours.
CheckOwn(p) ==
  /\ Goto(p, "check", "unlink")
  /\ OwnFile(p)
  /\ UNCHANGED <<lockfile, running, locked, forever, seen>>

\* "lockfile error", "not our lock": -1, and the handle stays locked.
CheckFails(p) ==
  /\ Goto(p, "check", "idle")
  /\ p \in MayFail \/ ~ OwnFile(p)
  /\ UNCHANGED <<lockfile, running, locked, forever, seen>>

Unlink(p) ==
  /\ Goto(p, "unlink", "idle")
  /\ lockfile # NoProc
  /\ lockfile' = NoProc
  /\ locked' = [locked EXCEPT ![p] = FALSE]
  /\ UNCHANGED <<running, forever, seen>>

\* "error removing lockfile": -1, and the handle stays locked.
UnlinkFails(p) ==
  /\ Goto(p, "unlink", "idle")
  /\ p \in MayFail \/ lockfile = NoProc
  /\ UNCHANGED <<lockfile, running, locked, forever, seen>>

-----------------------------------------------------------------------------
\* The end of a process, after destroy_dotlock (its atexit handler runs it)
\* or, when it is killed, anywhere.  What it linked stays.
End(p) ==
  /\ p \in MayEnd \cap running
  /\ running' = running \ {p}
  /\ pc' = [pc EXCEPT ![p] = "none"]
  /\ locked' = [locked EXCEPT ![p] = FALSE]
  /\ UNCHANGED <<lockfile, forever, seen>>

\* A new process gets the pid of one that has ended.  Pids come back only
\* after all others were used: not between kill and unlink of another process.
Reuse(p) ==
  /\ p \in MayReuse \ running
  /\ \A q \in Proc : ~ (pc[q] = "break" /\ seen[q] = p)
  /\ running' = running \cup {p}
  /\ UNCHANGED <<lockfile, pc, locked, forever, seen>>

\* The steps of make_dotlock and of release_dotlock after their first.
MakeStep(p) ==
  \/ LinkMade(p) \/ LinkExists(p) \/ MakeFails(p)
  \/ ReadDisappeared(p) \/ ReadOwn(p) \/ ReadOther(p)
  \/ KillStale(p) \/ KillHeld(p) \/ BreakLock(p) \/ WakeUp(p)

ReleaseStep(p) == CheckOwn(p) \/ CheckFails(p) \/ Unlink(p) \/ UnlinkFails(p)

Call(p) ==
  \/ CreateDotlock(p) \/ DestroyDotlock(p) \/ ReleaseDotlock(p)
  \/ \E wait \in BOOLEAN : MakeDotlock(p, wait)

Next ==
  \E p \in Proc :
    Call(p) \/ MakeStep(p) \/ ReleaseStep(p) \/ End(p) \/ Reuse(p)

Spec == Init /\ [][Next]_vars

\* A process in a call goes on with it.  A caller that has the lock is taken
\* to give it back, which gpg does after each update of a keyring.
Fairness ==
  \A p \in Proc :
    /\ WF_vars(MakeStep(p))
    /\ WF_vars(ReleaseStep(p))
    /\ WF_vars(ReleaseDotlock(p) /\ locked[p])

FairSpec == Spec /\ Fairness

-----------------------------------------------------------------------------
\* p relies on the lock: a call of make_dotlock returned 0 and p has not
\* asked for its release.
Holds(p) == p \in running /\ pc[p] = "idle" /\ locked[p]

\* Two processes never hold the lock at the same time.
MutualExclusion == \A p, q \in Proc : Holds(p) /\ Holds(q) => p = q

\* A handle that is locked finds its own lock file, so that release_dotlock
\* succeeds and destroy_dotlock, which does not look, removes its own file.
LockedIsOwner ==
  \A p \in Proc : p \in running /\ locked[p] => lockfile = p

\* The file of a running process is removed by a step of that process (an
\* Unlink or a DestroyDotlock of its own), never by another one's BreakLock.
OnlyOwnerUnlinks ==
  [][(lockfile \in running /\ lockfile' # lockfile)
        => pc'[lockfile] # pc[lockfile]]_vars

\* make_dotlock with timeout -1 gets somewhere: while a process is in it, the
\* lock does not stay with one owner, or free, for ever.  A stale lock file
\* is broken, a lock that is held comes free, a free lock is taken.  (A file
\* left by a dead process stays if its pid is that of a process that runs.)
Stranger(p) == p \in running /\ ~ locked[p]

Waiting(p) == pc[p] \in {"link", "read", "kill", "break", "sleep"} /\ forever[p]

LockMovesOn ==
  \A p \in Proc, o \in Proc \cup {NoProc} :
    (Waiting(p) /\ lockfile = o)
      ~> (lockfile # o \/ ~ Waiting(p) \/ (o # NoProc /\ Stranger(o)))

\* A process finds a file that an earlier process with its pid left behind:
\* make_dotlock takes it over instead of waiting for itself.
OwnLeftoverTaken ==
  \A p \in Proc :
    (p \in running /\ pc[p] = "link" /\ lockfile = p)
      ~> (lockfile # p \/ Holds(p) \/ p \notin running)

Lock == INSTANCE AbstractLock
          WITH owner <- lockfile, gone <- Proc \ running,
               users <- {p \in Proc : Holds(p)}

\* The lock file is the lock that its users are promised.
ImplementsLock == Lock!Spec
=============================================================================
