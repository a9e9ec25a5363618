------------------------------ MODULE Keyring ------------------------------
(***************************************************************************)
(* One keyring file and the processes that read, create and update it      *)
(* (g10/keyring.c, with the functions of g10/keydb.c that take the lock    *)
(* and the file descriptor cache of common/iobuf.c).                       *)
(*                                                                         *)
(* A keyring is replaced, never written in place: the new content goes to  *)
(* pubring.gpg.tmp, the old file becomes pubring.gpg~ (a secret keyring    *)
(* has no such backup) and the temporary file takes its name.  Each step   *)
(* below makes one system call on these files.                             *)
(*                                                                         *)
(* The content of a file is the set of its packets, each with the key it   *)
(* belongs to; a keyblock is found by its key, not by an offset, since the *)
(* offset and the descriptor it is used with are those of one file.  A     *)
(* search, and the keyring_get_keyblock after it, is one step.  The lock   *)
(* is the one of AbstractLock, with the lock of a dead process removed.    *)
(*                                                                         *)
(* Op_Slip is Op with a plausible slip in it, to show that the properties  *)
(* notice; no other definition uses it.                                    *)
(***************************************************************************)
EXTENDS Naturals

CONSTANTS
  Proc,        \* the gpg processes
  NoProc,      \* nobody
  Key, Item,   \* keys, and what a keyblock has for its key
  NoFile,      \* the content of a file that does not exist
  Secret,      \* SUBSET BOOLEAN: is it the secret keyring
  MaxCalls,    \* bound: how many updates and new starts a process makes
  Ops,         \* [Proc -> SUBSET {"import", "generate", "delete"}]
  MayFail,     \* the processes whose disk may be full
  MayCrash,    \* the processes that may be killed at any point
  MayRestart   \* those that run again after they were killed

ASSUME KeyringAssumption ==
  /\ NoProc \notin Proc
  /\ Key # {} /\ \A content \in SUBSET (Key \X Item) : content # NoFile
  /\ Secret \subseteq BOOLEAN
  /\ MaxCalls \in Nat
  /\ MayFail \subseteq Proc /\ MayCrash \subseteq Proc /\ MayRestart \subseteq Proc

VARIABLES
  secret,          \* the secret keyring: no backup is made
  main, bak, tmp,  \* the keyring, its backup and its temporary file
  owner,           \* the process that has the lock file
  pc,              \* where a process is in an update
  job,             \* what it is about to do
  left,            \* how many more updates it makes
  fp,              \* the descriptor do_copy reads from
  cached,          \* a closed descriptor of the keyring kept for later use
  handle,          \* kr->lockhd is set
  done             \* what the calls that returned 0 have stored

vars == <<secret, main, bak, tmp, owner, pc, job, left, fp, cached, handle, done>>
files == <<secret, main, bak, tmp, done>>
local == <<job, left, fp, cached, handle>>

Packet == Key \X Item
File == (SUBSET Packet) \cup {NoFile}
Job == [op : {"import", "generate", "delete"}, key : Key, block : SUBSET Packet,
        isNew : BOOLEAN]

PCs == {"off", "dead",
        "lockNew", "testNew", "create",   \* in maybe_create_keyring
        "ready",
        "handle", "lock", "make",         \* in keyring_lock
        "access", "open", "tmp", "write", \* in do_copy
        "backup", "rename",               \* in rename_tmp_file
        "unlock"}

AnyJob == CHOOSE j \in Job : TRUE

\* The types, and only a process that copies has a descriptor to copy from.
TypeOK ==
  /\ secret \in BOOLEAN
  /\ main \in File /\ bak \in File /\ tmp \in File
  /\ owner \in Proc \cup {NoProc}
  /\ pc \in [Proc -> PCs]
  /\ job \in [Proc -> Job]
  /\ left \in [Proc -> 0..MaxCalls]
  /\ fp \in [Proc -> File]
  /\ cached \in [Proc -> File]
  /\ handle \in [Proc -> BOOLEAN]
  /\ done \subseteq Packet
  /\ \A p \in Proc : fp[p] # NoFile => pc[p] \in {"tmp", "write"}

Init ==
  /\ secret \in Secret
  /\ main = NoFile /\ bak = NoFile /\ tmp = NoFile
  /\ owner = NoProc
  /\ pc = [p \in Proc |-> "off"]
  /\ job = [p \in Proc |-> AnyJob]
  /\ left = [p \in Proc |-> MaxCalls]
  /\ fp = [p \in Proc |-> NoFile]
  /\ cached = [p \in Proc |-> NoFile]
  /\ handle = [p \in Proc |-> FALSE]
  /\ done = {}

-----------------------------------------------------------------------------
Block(file, k) == {x \in file : x[1] = k}

Goto(p, from, to) ==
  /\ pc[p] = from
  /\ pc' = [pc EXCEPT ![p] = to]

\* The quick test of maybe_create_keyring.
Start(p) ==
  /\ Goto(p, "off", IF main # NoFile THEN "ready" ELSE "lockNew")
  /\ UNCHANGED <<files, owner, local>>

\* Slip: skips the real test while we are locked.
LockNew_Slip(p) ==
  /\ Goto(p, "lockNew", "create")
  /\ owner = NoProc
  /\ owner' = p
  /\ UNCHANGED <<files, local>>

LockNew(p) ==
  /\ Goto(p, "lockNew", "testNew")
  /\ owner = NoProc
  /\ owner' = p
  /\ UNCHANGED <<files, local>>

\* "Now the real test while we are locked."
TestNew(p) ==
  /\ Goto(p, "testNew", IF main # NoFile THEN "ready" ELSE "create")
  /\ owner' = IF main # NoFile THEN NoProc ELSE p
  /\ UNCHANGED <<files, local>>

\* iobuf_create truncates what is there; then the lock is released.
Create(p) ==
  /\ Goto(p, "create", "ready")
  /\ main' = {}
  /\ owner' = NoProc
  /\ UNCHANGED <<secret, bak, tmp, done, local>>

-----------------------------------------------------------------------------
\* iobuf_open: the content of the cached descriptor if there is one.
Opened(p) == IF cached[p] # NoFile THEN cached[p] ELSE main

\* The fingerprint of a key that is made anew is that of no other.
Fresh(k) ==
  /\ \A f \in {main, bak, tmp} \ {NoFile} : Block(f, k) = {}
  /\ Block(done, k) = {}
  /\ \A q \in Proc : pc[q] \notin {"off", "dead", "ready"} => job[q].key # k

Called(p, op) ==
  /\ Goto(p, "ready", "handle")
  /\ op \in Ops[p]
  /\ left[p] > 0
  /\ left' = [left EXCEPT ![p] = @ - 1]

\* import_one: a key that is in the keyring is merged with what is imported,
\* another one is inserted.
Import(p, k, s) ==
  /\ Called(p, "import")
  /\ Opened(p) # NoFile
  /\ LET old == Block(Opened(p), k)
     IN /\ <<k, s>> \notin old
        /\ job' = [job EXCEPT ![p] = [op |-> "import", key |-> k,
                                      block |-> old \cup {<<k, s>>},
                                      isNew |-> old = {}]]
  /\ cached' = [cached EXCEPT ![p] = Opened(p)]
  /\ UNCHANGED <<files, owner, fp, handle>>

\* do_generate_keypair: keydb_locate_writable, no search before the insert.
Generate(p, k, s) ==
  /\ Called(p, "generate")
  /\ main # NoFile
  /\ Fresh(k)
  /\ job' = [job EXCEPT ![p] = [op |-> "generate", key |-> k,
                                block |-> {<<k, s>>}, isNew |-> TRUE]]
  /\ UNCHANGED <<files, owner, fp, cached, handle>>

\* do_delete_key
Delete(p, k) ==
  /\ Called(p, "delete")
  /\ Opened(p) # NoFile
  /\ Block(Opened(p), k) # {}
  /\ job' = [job EXCEPT ![p] = [op |-> "delete", key |-> k,
                                block |-> {}, isNew |-> FALSE]]
  /\ cached' = [cached EXCEPT ![p] = Opened(p)]
  /\ UNCHANGED <<files, owner, fp, handle>>

-----------------------------------------------------------------------------
\* The first loop of keyring_lock: no handle for a file that is not there.
MakeHandle(p) ==
  /\ Goto(p, "handle", "lock")
  /\ handle' = [handle EXCEPT ![p] = @ \/ main # NoFile]
  /\ UNCHANGED <<files, owner, job, left, fp, cached>>

\* The second loop: nor a lock, and keyring_lock returns 0.
SkipLock(p) ==
  /\ Goto(p, "lock", "access")
  /\ main = NoFile
  /\ UNCHANGED <<files, owner, local>>

\* make_dotlock is called, unless kr->is_locked.
CallMakeDotlock(p) ==
  /\ Goto(p, "lock", IF owner = p THEN "access" ELSE "make")
  /\ main # NoFile
  /\ UNCHANGED <<files, owner, local>>

\* Slip: make_dotlock is called with timeout 0 and its result ignored.
MakeLock_Slip(p) ==
  /\ Goto(p, "make", "access")
  /\ handle[p]
  /\ owner' = IF owner = NoProc THEN p ELSE owner
  /\ UNCHANGED <<files, local>>

MakeLock(p) ==
  /\ Goto(p, "make", "access")
  /\ handle[p]
  /\ owner = NoProc
  /\ owner' = p
  /\ UNCHANGED <<files, local>>

\* Slip: leaves its lock file behind.
Gone_Slip(p) ==
  /\ fp' = [fp EXCEPT ![p] = NoFile]
  /\ cached' = [cached EXCEPT ![p] = NoFile]
  /\ handle' = [handle EXCEPT ![p] = FALSE]
  /\ UNCHANGED <<files, owner, job, left>>

\* What a process leaves behind when it ends: its lock goes with it.
Gone(p) ==
  /\ owner' = IF owner = p THEN NoProc ELSE owner
  /\ fp' = [fp EXCEPT ![p] = NoFile]
  /\ cached' = [cached EXCEPT ![p] = NoFile]
  /\ handle' = [handle EXCEPT ![p] = FALSE]
  /\ UNCHANGED <<files, job, left>>

\* make_dotlock with a null pointer
NoHandle(p) ==
  /\ Goto(p, "make", "dead")
  /\ ~ handle[p]
  /\ Gone(p)

\* do_copy: access (fname, W_OK)
Access(p) ==
  /\ Goto(p, "access", IF main # NoFile THEN "open" ELSE "unlock")
  /\ UNCHANGED <<files, owner, local>>

Stored(p, packets) ==
  IF job[p].op = "delete" THEN packets \ Block(packets, job[p].key)
  ELSE packets \cup job[p].block

Open(p) ==
  /\ Goto(p, "open", "tmp")
  /\ Opened(p) # NoFile
  /\ fp' = [fp EXCEPT ![p] = Opened(p)]
  /\ cached' = [cached EXCEPT ![p] = NoFile]
  /\ UNCHANGED <<files, owner, job, left, handle>>

\* The file has gone since access(): an insert makes a new one in place.
OpenMissing(p) ==
  /\ Goto(p, "open", "unlock")
  /\ Opened(p) = NoFile
  /\ main' = IF job[p].isNew THEN job[p].block ELSE NoFile
  /\ done' = IF job[p].isNew THEN Stored(p, done) ELSE done
  /\ UNCHANGED <<secret, bak, tmp, owner, local>>

\* create_tmp_file
CreateTmp(p) ==
  /\ Goto(p, "tmp", "write")
  /\ tmp' = {}
  /\ UNCHANGED <<secret, main, bak, done, owner, local>>

\* The content do_copy writes: all packets but those of the old keyblock, and
\* the new keyblock.
Written(p) ==
  (IF job[p].isNew THEN fp[p] ELSE fp[p] \ Block(fp[p], job[p].key))
     \cup job[p].block

\* Slip: keeps the descriptor of what is now the old file.
Write_Slip(p) ==
  /\ Goto(p, "write", IF secret THEN "rename" ELSE "backup")
  /\ tmp' = Written(p)
  /\ fp' = [fp EXCEPT ![p] = NoFile]
  /\ cached' = [cached EXCEPT ![p] = fp[p]]
  /\ UNCHANGED <<secret, main, bak, done, owner, job, left, handle>>

\* Both files are closed and rename_tmp_file drops the cached descriptors.
Write(p) ==
  /\ Goto(p, "write", IF secret THEN "rename" ELSE "backup")
  /\ tmp' = Written(p)
  /\ fp' = [fp EXCEPT ![p] = NoFile]
  /\ cached' = [cached EXCEPT ![p] = NoFile]
  /\ UNCHANGED <<secret, main, bak, done, owner, job, left, handle>>

\* Slip: does not close the source.
WriteFails_Slip(p) ==
  /\ Goto(p, "write", "unlock")
  /\ p \in MayFail
  /\ tmp' = NoFile
  /\ UNCHANGED <<secret, main, bak, done, owner, local>>

\* The update fails: the source is closed and stays cached.
GivesUp(p, from) ==
  /\ Goto(p, from, "unlock")
  /\ p \in MayFail
  /\ fp' = [fp EXCEPT ![p] = NoFile]
  /\ cached' = [cached EXCEPT ![p] = fp[p]]
  /\ UNCHANGED <<secret, main, bak, done, owner, job, left, handle>>

\* create_tmp_file cannot open the file.
CreateTmpFails(p) == GivesUp(p, "tmp") /\ UNCHANGED tmp

\* iobuf_cancel removes the temporary file; when it is its close that fails,
\* what has been written stays.
WriteFails(p) ==
  /\ GivesUp(p, "write")
  /\ tmp' \in {NoFile} \cup SUBSET Written(p)

\* Slip: removes the keyring instead of renaming it.
Backup_Slip(p) ==
  /\ Goto(p, "backup", "rename")
  /\ main # NoFile
  /\ main' = NoFile
  /\ UNCHANGED <<secret, bak, tmp, done, owner, local>>

\* rename (fname, bakfname)
Backup(p) ==
  /\ Goto(p, "backup", "rename")
  /\ main # NoFile
  /\ bak' = main
  /\ main' = NoFile
  /\ UNCHANGED <<secret, tmp, done, owner, local>>

\* rename (tmpfname, fname)
Rename(p) ==
  /\ Goto(p, "rename", "unlock")
  /\ tmp # NoFile
  /\ main' = tmp
  /\ tmp' = NoFile
  /\ done' = Stored(p, done)
  /\ UNCHANGED <<secret, bak, owner, local>>

\* Either rename: the file has gone.
RenameMissing(p) ==
  /\ \/ Goto(p, "backup", "unlock") /\ main = NoFile
     \/ Goto(p, "rename", "unlock") /\ tmp = NoFile
  /\ UNCHANGED <<files, owner, local>>

\* unlock_all: the lock of a file that is not there is kept.
Unlock(p) ==
  /\ Goto(p, "unlock", "ready")
  /\ owner' = IF owner = p /\ main # NoFile THEN NoProc ELSE owner
  /\ UNCHANGED <<files, local>>

-----------------------------------------------------------------------------
\* The program ends; its atexit handler removes the lock file.
Exit(p) ==
  /\ Goto(p, "ready", "off")
  /\ Gone(p)

\* The process is killed; dotlock.c breaks the lock it leaves behind.
Crash(p) ==
  /\ p \in MayCrash
  /\ pc[p] # "off"
  /\ Goto(p, pc[p], "dead")
  /\ Gone(p)

Restart(p) ==
  /\ Goto(p, "dead", "off")
  /\ p \in MayRestart
  /\ left[p] > 0
  /\ left' = [left EXCEPT ![p] = @ - 1]
  /\ UNCHANGED <<files, owner, job, fp, cached, handle>>

MaybeCreate(p) == Start(p) \/ LockNew(p) \/ TestNew(p) \/ Create(p)

Call(p) ==
  \/ \E k \in Key, s \in Item : Import(p, k, s) \/ Generate(p, k, s)
  \/ \E k \in Key : Delete(p, k)

KeyringLock(p) ==
  \/ MakeHandle(p) \/ SkipLock(p) \/ CallMakeDotlock(p) \/ MakeLock(p)
  \/ NoHandle(p)

DoCopy(p) ==
  \/ Access(p) \/ Open(p) \/ OpenMissing(p) \/ CreateTmp(p) \/ CreateTmpFails(p)
  \/ Write(p) \/ WriteFails(p)
  \/ Backup(p) \/ Rename(p) \/ RenameMissing(p)

Next ==
  \E p \in Proc :
    \/ MaybeCreate(p) \/ Call(p) \/ KeyringLock(p) \/ DoCopy(p) \/ Unlock(p)
    \/ Exit(p) \/ Crash(p) \/ Restart(p)

Spec == Init /\ [][Next]_vars

\* gpg is a command line program: it goes on with what it does and ends.
Fairness ==
  \A p \in Proc :
    /\ WF_vars(MaybeCreate(p)) /\ WF_vars(KeyringLock(p))
    /\ WF_vars(DoCopy(p)) /\ WF_vars(Unlock(p)) /\ WF_vars(Exit(p))

FairSpec == Spec /\ Fairness

-----------------------------------------------------------------------------
\* As long as nobody is killed, the keyring has what the calls that returned 0
\* have stored in it and not deleted, no more and no less; while it is missing
\* its backup has that and a process is about to bring the keyring back.
RingIntact ==
  \/ \E p \in Proc : pc[p] = "dead"
  \/ main = done
  \/ main = NoFile /\ done = {}
  \/ main = NoFile /\ bak = done /\ \E p \in Proc : pc[p] = "rename"

\* What one process has stored in the secret keyring another one's update does
\* not take away.
NothingLost == secret /\ main # NoFile => done \subseteq main

\* The files are read, written and renamed under the lock ("We ignore the
\* handle and lock all registered files"), if the file cannot be missing while
\* another process renames it.
InDoCopy == {"open", "tmp", "write", "backup", "rename"}
OneUpdates == \E w \in Proc : \A p \in Proc \ {w} : Ops[p] = {}
CopyUnderLock ==
  secret \/ OneUpdates => \A p \in Proc : pc[p] \in InDoCopy => owner = p

\* Nobody waits for the lock for ever: whoever has it gives it back, or ends
\* if it did not (keyring_lock skips a file that is just being renamed).
LockComes == \A p \in Proc : pc[p] \in {"lockNew", "make"} ~> pc[p] \in {"ready", "off", "dead"}

\* However a process ends, one of the files has all that was stored (until
\* gpg runs again and updates the keyring, see the README).
Recoverable ==
  done = {} \/ \E f \in {main, bak, tmp} \ {NoFile} : done \subseteq f
=============================================================================
