--------------------------- MODULE KeyringProofs ---------------------------
(***************************************************************************)
(* What Keyring promises for every number of processes, keys and updates:  *)
(* when the lock of keyring_lock does protect the copying, and what of the *)
(* stored keyblocks is then lost by nobody.                                *)
(***************************************************************************)
EXTENDS Keyring, TLAPS

Updaters == {p \in Proc : Ops[p] # {}}

\* The types; who copies has a file to copy from.
Copying == \A p \in Proc : pc[p] \in {"tmp", "write"} => fp[p] # NoFile
TypeInv == TypeOK /\ Copying

\* With the lock: from the test under it on, and from access to unlock
WithLock == {"testNew", "create", "access", "unlock"} \cup InDoCopy
InCall == {"handle", "lock", "make", "access", "unlock"} \cup InDoCopy

\* The lock protects, if the file cannot be missing when an updater looks for
\* it: it is so only while the one updater of a public keyring renames it.
LockInv ==
  /\ \A p \in Proc : pc[p] \in WithLock => owner = p
  /\ \A p \in Proc : pc[p] \in InCall => p \in Updaters
  /\ \A p \in Proc : pc[p] = "create" => main = NoFile
  /\ \A p \in Proc : pc[p] \in {"lock", "make"} => handle[p]
  /\ \A p \in Proc : pc[p] = "backup" => ~ secret
  /\ \A p \in Proc : pc[p] \in {"backup", "rename"} => tmp # NoFile
  /\ \A p \in Updaters :
       pc[p] \in {"ready", "rename"} \cup InCall =>
         main # NoFile \/ (pc[p] = "rename" /\ ~ secret)

Excluded == secret \/ OneUpdates
IInv == TypeInv /\ (Excluded => LockInv)

-----------------------------------------------------------------------------
LEMMA OneUpdater ==
  ASSUME OneUpdates, NEW p \in Updaters, NEW q \in Updaters
  PROVE  p = q
BY DEF OneUpdates, Updaters

\* The contents of files
LEMMA Contents ==
  /\ {} \in File /\ {} # NoFile
  /\ \A f \in SUBSET Packet : f \in File /\ f # NoFile
  /\ \A f \in File : f # NoFile => f \in SUBSET Packet
  /\ \A f \in SUBSET Packet, k \in Key : Block(f, k) \in SUBSET Packet
BY KeyringAssumption DEF File, Packet, Block

LEMMA AJob == AnyJob \in Job
<1>1. PICK k \in Key : TRUE
  BY KeyringAssumption
<1>2. [op |-> "import", key |-> k, block |-> {}, isNew |-> TRUE] \in Job
  BY DEF Job
<1> QED
  BY <1>2 DEF AnyJob

LEMMA Opening ==
  ASSUME TypeOK, NEW p \in Proc
  PROVE  /\ Opened(p) \in File
         /\ Opened(p) = NoFile => cached[p] = NoFile /\ main = NoFile
BY DEF Opened, TypeOK

LEMMA Writing ==
  ASSUME TypeOK, NEW p \in Proc, fp[p] # NoFile
  PROVE  Written(p) \in SUBSET Packet
<1>1. fp[p] \in SUBSET Packet /\ job[p] \in Job
  BY Contents DEF TypeOK
<1>2. job[p].block \in SUBSET Packet
  BY <1>1 DEF Job
<1> QED
  BY <1>1, <1>2 DEF Written

LEMMA Storing ==
  ASSUME TypeOK, NEW p \in Proc
  PROVE  /\ Stored(p, done) \in SUBSET Packet
         /\ job[p].block \in SUBSET Packet /\ job[p].key \in Key
<1>1. done \in SUBSET Packet /\ job[p] \in Job
  BY DEF TypeOK
<1>2. job[p].block \in SUBSET Packet /\ job[p].key \in Key
  BY <1>1 DEF Job
<1> QED
  BY <1>1, <1>2 DEF Stored

LEMMA Fewer ==
  ASSUME TypeOK, NEW p \in Proc, left[p] > 0
  PROVE  [left EXCEPT ![p] = @ - 1] \in [Proc -> 0 .. MaxCalls]
<1>1. left[p] \in 0 .. MaxCalls /\ MaxCalls \in Nat
  BY KeyringAssumption DEF TypeOK
<1>2. left[p] - 1 \in 0 .. MaxCalls
  BY <1>1
<1> QED
  BY <1>2 DEF TypeOK

\* A process that ends
LEMMA Leaving ==
  ASSUME TypeInv, NEW p \in Proc, NEW from, NEW to \in {"off", "dead"},
         Goto(p, from, to), Gone(p)
  PROVE  TypeInv'
<1> USE DEF TypeInv, TypeOK, Copying, PCs, Goto, Gone, files
<1>1. /\ fp' \in [Proc -> File] /\ fp'[p] = NoFile /\ cached' \in [Proc -> File]
      /\ \A q \in Proc : q # p => fp'[q] = fp[q]
  BY DEF File
<1>2. /\ pc' \in [Proc -> PCs] /\ pc'[p] = to /\ \A q \in Proc : q # p => pc'[q] = pc[q]
  OBVIOUS
<1>3. \A q \in Proc : fp'[q] # NoFile <=> pc'[q] \in {"tmp", "write"}
  BY <1>1, <1>2
<1>4. handle' \in [Proc -> BOOLEAN] /\ owner' \in Proc \cup {NoProc}
  OBVIOUS
<1> QED
  BY <1>1, <1>2, <1>3, <1>4

-----------------------------------------------------------------------------
LEMMA TypeInit == Init => TypeInv
BY AJob, KeyringAssumption DEF Init, TypeInv, TypeOK, Copying, File, PCs

LEMMA TypeStep == TypeInv /\ [Next]_vars => TypeInv'
<1> SUFFICES ASSUME TypeInv, [Next]_vars PROVE TypeInv'
  OBVIOUS
<1> USE DEF TypeInv, TypeOK, Copying, PCs, Goto, files, local
<1>1. ASSUME NEW p \in Proc, MaybeCreate(p) PROVE TypeInv'
  BY <1>1, Contents DEF MaybeCreate, Start, LockNew, TestNew, Create
<1>2. ASSUME NEW p \in Proc, Call(p) PROVE TypeInv'
  <2> DEFINE called == /\ Called(p, "import") \/ Called(p, "generate") \/ Called(p, "delete")
                       /\ UNCHANGED <<files, owner, fp, handle>>
             jobs == \E j \in Job : job' = [job EXCEPT ![p] = j]
             opened == \E f \in File : cached' = [cached EXCEPT ![p] = f]
  <2>1. ASSUME NEW k \in Key, NEW s \in Item, Import(p, k, s) PROVE called /\ jobs /\ opened
    <3>1. Opened(p) \in SUBSET Packet
      BY <2>1, Opening, Contents DEF Import
    <3>2. [op |-> "import", key |-> k, block |-> Block(Opened(p), k) \cup {<<k, s>>},
           isNew |-> Block(Opened(p), k) = {}] \in Job
      BY <3>1, Contents DEF Job, Packet
    <3>3. jobs
      BY <2>1, <3>2 DEF Import
    <3> QED
      BY ONLY <2>1, <3>1, <3>3, Contents DEF Import
  <2>2. ASSUME NEW k \in Key, NEW s \in Item, Generate(p, k, s) PROVE called /\ jobs /\ opened
    <3>1. [op |-> "generate", key |-> k, block |-> {<<k, s>>}, isNew |-> TRUE] \in Job
      BY DEF Job, Packet
    <3>2. cached' = [cached EXCEPT ![p] = cached[p]] /\ cached[p] \in File
      BY <2>2 DEF Generate
    <3> QED
      BY ONLY <2>2, <3>1, <3>2 DEF Generate
  <2>3. ASSUME NEW k \in Key, Delete(p, k) PROVE called /\ jobs /\ opened
    <3>1. [op |-> "delete", key |-> k, block |-> {}, isNew |-> FALSE] \in Job
      BY DEF Job
    <3>2. Opened(p) \in File
      BY Opening
    <3> QED
      BY ONLY <2>3, <3>1, <3>2 DEF Delete
  <2>4. called /\ jobs /\ opened
    BY ONLY <1>2, <2>1, <2>2, <2>3 DEF Call
  <2>5. job' \in [Proc -> Job] /\ cached' \in [Proc -> File]
    BY <2>4
  <2>6. left' \in [Proc -> 0 .. MaxCalls]
    BY <2>4, Fewer DEF Called
  <2>7. /\ pc' = [pc EXCEPT ![p] = "handle"] /\ pc[p] = "ready"
        /\ UNCHANGED <<files, owner, fp, handle>>
    BY <2>4 DEF Called
  <2> HIDE DEF called, jobs, opened
  <2> QED
    BY <2>5, <2>6, <2>7
<1>3. ASSUME NEW p \in Proc, KeyringLock(p) PROVE TypeInv'
  <2>1. CASE MakeHandle(p)
    BY <2>1 DEF MakeHandle
  <2>2. CASE SkipLock(p) \/ CallMakeDotlock(p) \/ MakeLock(p)
    BY <2>2 DEF SkipLock, CallMakeDotlock, MakeLock
  <2>3. CASE NoHandle(p)
    BY <2>3, Leaving DEF NoHandle
  <2> QED
    BY <1>3, <2>1, <2>2, <2>3 DEF KeyringLock
<1>4. ASSUME NEW p \in Proc, DoCopy(p) PROVE TypeInv'
  <2>1. CASE Access(p)
    BY <2>1 DEF Access
  <2>2. CASE Open(p)
    BY <2>2, Opening DEF Open
  <2>3. CASE OpenMissing(p)
    BY <2>3, Storing, Contents DEF OpenMissing
  <2>4. CASE CreateTmp(p)
    BY <2>4, Contents DEF CreateTmp
  <2>5. CASE Write(p)
    <3>1. tmp' \in File
      BY <2>5, Writing, Contents DEF Write
    <3>2. fp' \in [Proc -> File] /\ cached' \in [Proc -> File]
      BY <2>5 DEF Write, File
    <3> QED
      BY <2>5, <3>1, <3>2 DEF Write
  <2>6. CASE CreateTmpFails(p) \/ WriteFails(p)
    <3>1. tmp' \in File
      BY <2>6, Writing, Contents DEF GivesUp, CreateTmpFails, WriteFails, File
    <3>2. fp' \in [Proc -> File] /\ cached' \in [Proc -> File]
      BY <2>6 DEF GivesUp, CreateTmpFails, WriteFails, File
    <3> QED
      BY <2>6, <3>1, <3>2 DEF GivesUp, CreateTmpFails, WriteFails
  <2>7. CASE Backup(p)
    BY <2>7 DEF Backup, File
  <2>8. CASE Rename(p)
    BY <2>8, Storing DEF Rename, File
  <2>9. CASE RenameMissing(p)
    BY <2>9 DEF RenameMissing
  <2> QED
    BY <1>4, <2>1, <2>2, <2>3, <2>4, <2>5, <2>6, <2>7, <2>8, <2>9 DEF DoCopy
<1>5. ASSUME NEW p \in Proc, Unlock(p) \/ Exit(p) \/ Crash(p) \/ Restart(p) PROVE TypeInv'
  <2>1. CASE Unlock(p)
    BY <2>1 DEF Unlock
  <2>2. CASE Exit(p) \/ Crash(p)
    BY <2>2, Leaving DEF Exit, Crash
  <2>3. CASE Restart(p)
    <3>1. left' \in [Proc -> 0 .. MaxCalls]
      BY <2>3, Fewer DEF Restart
    <3> QED
      BY <2>3, <3>1 DEF Restart
  <2> QED
    BY <1>5, <2>1, <2>2, <2>3
<1>6. CASE UNCHANGED vars
  BY <1>6 DEF vars
<1> QED
  BY <1>1, <1>2, <1>3, <1>4, <1>5, <1>6 DEF Next

\* Types, for any number of processes, keys and updates; only who copies has a
\* descriptor to copy from.
THEOREM KeyringTypeOK == Spec => []TypeOK
<1>1. Spec => []TypeInv
  BY TypeInit, TypeStep, PTL DEF Spec
<1>2. TypeInv => TypeOK
  BY DEF TypeInv
<1> QED
  BY <1>1, <1>2, PTL

-----------------------------------------------------------------------------
LEMMA LockInit == Init => LockInv
BY DEF Init, LockInv, WithLock, InCall, InDoCopy, Updaters

LEMMA LockStep == TypeInv /\ Excluded /\ LockInv /\ [Next]_vars => LockInv'
<1> SUFFICES ASSUME TypeInv, Excluded, LockInv, [Next]_vars PROVE LockInv'
  OBVIOUS
<1> USE KeyringAssumption DEF LockInv, WithLock, InCall, InDoCopy, Goto, files, local
<1>0. pc \in [Proc -> PCs] /\ handle \in [Proc -> BOOLEAN] /\ Updaters \subseteq Proc
  BY DEF TypeInv, TypeOK, Updaters
<1>1. ASSUME NEW p \in Proc, MaybeCreate(p) PROVE LockInv'
  BY <1>0, <1>1, Contents DEF MaybeCreate, Start, LockNew, TestNew, Create
<1>2. ASSUME NEW p \in Proc, Call(p) PROVE LockInv'
  <2>1. Goto(p, "ready", "handle") /\ p \in Updaters /\ UNCHANGED <<files, owner, handle>>
    BY <1>2 DEF Call, Import, Generate, Delete, Called, Updaters
  <2> QED
    BY <1>0, <2>1
<1>3. ASSUME NEW p \in Proc, KeyringLock(p) PROVE LockInv'
  <2>1. CASE MakeHandle(p)
    BY <1>0, <2>1 DEF MakeHandle
  <2>2. CASE SkipLock(p)
    BY <1>0, <2>2 DEF SkipLock
  <2>3. CASE CallMakeDotlock(p)
    BY <1>0, <2>3 DEF CallMakeDotlock
  <2>4. CASE MakeLock(p)
    BY <1>0, <2>4 DEF MakeLock
  <2>5. CASE NoHandle(p)
    BY <1>0, <2>5 DEF NoHandle
  <2> QED
    BY <1>3, <2>1, <2>2, <2>3, <2>4, <2>5 DEF KeyringLock
<1>4. ASSUME NEW p \in Proc, DoCopy(p) PROVE LockInv'
  <2>1. CASE Access(p)
    BY <1>0, <2>1 DEF Access
  <2>2. CASE Open(p)
    BY <1>0, <2>2 DEF Open
  <2>3. CASE OpenMissing(p)
    BY <1>0, <2>3, Opening DEF OpenMissing, TypeInv
  <2>4. CASE CreateTmp(p)
    BY <1>0, <2>4, Contents DEF CreateTmp
  <2>5. CASE Write(p)
    <3>1. Written(p) # NoFile
      BY <2>5, Writing, Contents DEF Write, TypeInv, Copying
    <3> QED
      BY <1>0, <2>5, <3>1 DEF Write
  <2>6. CASE CreateTmpFails(p) \/ WriteFails(p)
    BY <1>0, <2>6 DEF GivesUp, CreateTmpFails, WriteFails
  <2>7. CASE Backup(p)
    <3>1. \A q \in Updaters : q = p
      BY <1>0, <2>7, OneUpdater DEF Backup, Excluded
    <3>2. /\ pc' = [pc EXCEPT ![p] = "rename"] /\ owner = p /\ ~ secret
          /\ UNCHANGED <<secret, tmp, owner, handle>>
      BY <2>7 DEF Backup
    <3>3. \A q \in Proc : q # p => pc[q] \notin WithLock
      BY <3>2
    <3>4. tmp # NoFile
      BY <2>7 DEF Backup
    <3>5. \A q \in Proc : q # p => pc'[q] = pc[q] /\ q \notin Updaters
      BY <1>0, <3>1, <3>2
    <3>6. pc'[p] = "rename" /\ p \in Updaters
      BY <1>0, <2>7, <3>2 DEF Backup
    <3> QED
      BY <1>0, <3>2, <3>3, <3>4, <3>5, <3>6
  <2>8. CASE Rename(p)
    BY <1>0, <2>8 DEF Rename
  <2>9. CASE RenameMissing(p)
    BY <1>0, <2>9 DEF RenameMissing
  <2> QED
    BY <1>4, <2>1, <2>2, <2>3, <2>4, <2>5, <2>6, <2>7, <2>8, <2>9 DEF DoCopy
<1>5. ASSUME NEW p \in Proc, Unlock(p) PROVE LockInv'
  BY <1>0, <1>5 DEF Unlock
<1>6. ASSUME NEW p \in Proc, Exit(p) \/ Crash(p) PROVE LockInv'
  <2>1. pc' \in {[pc EXCEPT ![p] = "off"], [pc EXCEPT ![p] = "dead"]} /\ Gone(p)
    BY <1>6 DEF Exit, Crash
  <2> QED
    BY <1>0, <2>1 DEF Gone
<1>7. ASSUME NEW p \in Proc, Restart(p) PROVE LockInv'
  BY <1>0, <1>7 DEF Restart
<1>8. CASE UNCHANGED vars
  BY <1>8 DEF vars
<1> QED
  BY <1>1, <1>2, <1>3, <1>4, <1>5, <1>6, <1>7, <1>8 DEF Next

LEMMA SecretStays == [Next]_vars => secret' = secret
<1> SUFFICES ASSUME NEW p \in Proc,
                    \/ MaybeCreate(p) \/ Call(p) \/ KeyringLock(p) \/ DoCopy(p)
                    \/ Unlock(p) \/ Exit(p) \/ Crash(p) \/ Restart(p)
             PROVE  secret' = secret
  BY DEF Next, vars
<1> USE DEF files, Gone
<1>1. CASE MaybeCreate(p)
  BY <1>1 DEF MaybeCreate, Start, LockNew, TestNew, Create
<1>2. CASE Call(p)
  BY <1>2 DEF Call, Import, Generate, Delete
<1>3. CASE KeyringLock(p)
  BY <1>3 DEF KeyringLock, MakeHandle, SkipLock, CallMakeDotlock, MakeLock, NoHandle
<1>4. CASE DoCopy(p)
  BY <1>4 DEF DoCopy, Access, Open, OpenMissing, CreateTmp, Write,
    GivesUp, CreateTmpFails, WriteFails,
    Backup, Rename, RenameMissing
<1>5. CASE Unlock(p) \/ Exit(p) \/ Crash(p) \/ Restart(p)
  BY <1>5 DEF Unlock, Exit, Crash, Restart
<1> QED
  BY <1>1, <1>2, <1>3, <1>4, <1>5

LEMMA KeyringInvariant == Spec => []IInv
<1>1. Init => IInv
  BY TypeInit, LockInit DEF IInv
<1>2. IInv /\ [Next]_vars => IInv'
  BY TypeStep, LockStep, SecretStays DEF IInv, Excluded, OneUpdates
<1> QED
  BY <1>1, <1>2, PTL DEF Spec

\* Any number of processes read, write and rename the files of a secret
\* keyring under the lock; those of a public one, if one of them updates it.
THEOREM CopiesUnderLock == Spec => []CopyUnderLock
<1>1. IInv => CopyUnderLock
  BY DEF IInv, LockInv, CopyUnderLock, Excluded, WithLock, InDoCopy
<1> QED
  BY <1>1, KeyringInvariant, PTL

-----------------------------------------------------------------------------
\* One process updates, and those that were killed do not run again: what it
\* copies is what it has seen, and the keyring or, while it renames or after it
\* was killed then, the backup is what was stored.
JobFits(p) ==
  IF job[p].op = "delete" THEN ~ job[p].isNew /\ job[p].block = {}
  ELSE job[p].isNew \/ Block(main, job[p].key) \subseteq job[p].block

ToWrite == {"handle", "lock", "make", "access", "open", "tmp", "write"}

Renaming(p) ==
  /\ tmp = Stored(p, IF secret THEN main ELSE bak)
  /\ ~ secret => main = NoFile /\ bak = done

CachedNow ==
  \A p \in Proc : cached[p] # NoFile =>
    /\ cached[p] = main /\ p \in Updaters
    /\ pc[p] \notin {"tmp", "write", "backup", "rename", "off", "dead"}

AsSeen ==
  \A p \in Proc :
    /\ pc[p] \in {"tmp", "write"} => fp[p] = main
    /\ pc[p] \in ToWrite => JobFits(p)
    /\ pc[p] = "backup" => tmp = Stored(p, main)
    /\ pc[p] = "rename" => Renaming(p)

KeptSafe ==
  \/ main = done
  \/ main = NoFile /\ done = {}
  \/ ~ secret /\ bak = done /\ \E p \in Updaters : pc[p] \in {"rename", "dead"}

KeepInv == CachedNow /\ AsSeen /\ KeptSafe

LEMMA WrittenIs ==
  ASSUME TypeOK, NEW p \in Proc, JobFits(p), fp[p] = main, main # NoFile
  PROVE  Written(p) = Stored(p, main)
<1>1. main \in SUBSET Packet
  BY Contents DEF TypeOK
<1>2. CASE job[p].op = "delete"
  BY <1>1, <1>2 DEF JobFits, Written, Stored
<1>3. CASE job[p].op # "delete" /\ job[p].isNew
  BY <1>1, <1>3 DEF Written, Stored
<1>4. CASE job[p].op # "delete" /\ ~ job[p].isNew
  BY <1>1, <1>4 DEF JobFits, Written, Stored, Block
<1> QED
  BY <1>2, <1>3, <1>4

\* Who is in a call has the keyring of what was stored before it.
LEMMA StoredSoFar ==
  ASSUME TypeInv, OneUpdates, LockInv, KeepInv, NEW p \in Updaters,
         pc[p] \in {"ready"} \cup (InCall \ {"rename"})
  PROVE  main = done /\ main # NoFile
<1>1. main # NoFile
  BY DEF LockInv
<1>2. \A q \in Updaters : pc[q] \notin {"rename", "dead"}
  BY OneUpdater DEF InCall, InDoCopy
<1> QED
  BY <1>1, <1>2 DEF KeepInv, CachedNow, AsSeen, KeptSafe

LEMMA KeepInit == Init => KeepInv
BY DEF Init, KeepInv, CachedNow, AsSeen, KeptSafe, ToWrite

LEMMA SameFits ==
  ASSUME UNCHANGED <<secret, main, bak, tmp, done, job>>, NEW p \in Proc
  PROVE  /\ JobFits(p)' <=> JobFits(p)
         /\ Renaming(p)' <=> Renaming(p)
         /\ Stored(p, main)' = Stored(p, main)
<1>1. Stored(p, main)' = Stored(p, main) /\ Stored(p, bak)' = Stored(p, bak)
  BY DEF Stored
<1>2. JobFits(p)' <=> JobFits(p)
  BY DEF JobFits
<1> QED
  BY <1>1, <1>2 DEF Renaming

\* A step of one process outside the copying that leaves files and jobs alone.
LEMMA Aside ==
  ASSUME KeepInv, UNCHANGED <<secret, main, bak, tmp, done, job>>, NEW p \in Proc,
         \A q \in Proc : q # p =>
           pc'[q] = pc[q] /\ fp'[q] = fp[q] /\ cached'[q] = cached[q],
         pc'[p] \notin {"tmp", "write", "backup", "rename"},
         pc'[p] \in ToWrite => pc[p] \in ToWrite,
         pc[p] \in {"rename", "dead"} => pc'[p] = "dead",
         \/ cached'[p] = NoFile
         \/ cached'[p] = cached[p] /\ pc'[p] \notin {"off", "dead"}
  PROVE  KeepInv'
<1>1. CachedNow'
  BY DEF KeepInv, CachedNow, Updaters
<1>2. AsSeen'
  BY SameFits DEF KeepInv, AsSeen
<1>3. KeptSafe'
  BY DEF KeepInv, KeptSafe, Updaters
<1> QED
  BY <1>1, <1>2, <1>3 DEF KeepInv

LEMMA KeepStep ==
  ASSUME OneUpdates, MayRestart = {}, TypeInv, LockInv, KeepInv, [Next]_vars
  PROVE  KeepInv'
<1> USE DEF Goto, files, local, ToWrite
<1>0. /\ pc \in [Proc -> PCs] /\ cached \in [Proc -> File] /\ fp \in [Proc -> File]
      /\ job \in [Proc -> Job] /\ Updaters \subseteq Proc
      /\ TypeOK
  BY DEF TypeInv, TypeOK, Updaters
<1>01. \A q \in Proc : pc[q] \in InCall => q \in Updaters
  BY DEF LockInv
<1>02. \A p, q \in Updaters : p = q
  BY OneUpdater
<1>1. ASSUME NEW p \in Proc, Start(p) \/ LockNew(p) \/ TestNew(p) PROVE KeepInv'
  <2>1. /\ pc[p] \in {"off", "lockNew", "testNew"}
        /\ pc'[p] \in {"ready", "lockNew", "testNew", "create"}
        /\ \A q \in Proc : q # p => pc'[q] = pc[q]
        /\ UNCHANGED <<secret, main, bak, tmp, done, fp, cached, job>>
    BY <1>0, <1>1 DEF Start, LockNew, TestNew
  <2> QED
    BY <2>1, Aside
<1>2. ASSUME NEW p \in Proc, Create(p) PROVE KeepInv'
  <2>1. main = NoFile /\ \A q \in Proc : pc[q] \in WithLock => q = p
    BY <1>2 DEF Create, LockInv, WithLock
  <2>2. \A q \in Updaters : pc[q] \notin InCall
    BY <2>1, <1>2, <1>0 DEF LockInv, Create, InCall, WithLock, InDoCopy
  <2> QED
    BY <1>0, <1>01, <1>2, <2>1, <2>2, Contents
    DEF Create, KeepInv, CachedNow, AsSeen, KeptSafe, InCall, InDoCopy, TypeOK
<1>3. ASSUME NEW p \in Proc, Call(p) PROVE KeepInv'
  <2>1. /\ Goto(p, "ready", "handle") /\ p \in Updaters
        /\ UNCHANGED <<files, fp>>
    BY <1>3 DEF Call, Import, Generate, Delete, Called, Updaters
  <2>2. main # NoFile /\ main \in SUBSET Packet /\ Opened(p) = main
    BY <1>0, <2>1, StoredSoFar, Contents DEF Opened, KeepInv, CachedNow, AsSeen, KeptSafe, TypeOK
  <2>3. JobFits(p)'
    <3>1. ASSUME NEW k \in Key, NEW s \in Item, Import(p, k, s) PROVE JobFits(p)'
      <4>1. /\ job'[p].op = "import" /\ job'[p].key = k
            /\ job'[p].block = Block(main, k) \cup {<<k, s>>} /\ main' = main
        BY <1>0, <2>2, <3>1 DEF Import
      <4> QED
        BY <4>1 DEF JobFits, Block
    <3>2. ASSUME NEW k \in Key, NEW s \in Item, Generate(p, k, s) PROVE JobFits(p)'
      BY <1>0, <3>2 DEF Generate, JobFits
    <3>3. ASSUME NEW k \in Key, Delete(p, k) PROVE JobFits(p)'
      BY <1>0, <3>3 DEF Delete, JobFits
    <3> QED
      BY <1>3, <3>1, <3>2, <3>3 DEF Call
  <2>4. cached'[p] \in {cached[p], main} /\ \A q \in Proc : q # p => cached'[q] = cached[q]
    BY <1>0, <1>3, <2>2 DEF Call, Import, Generate, Delete
  <2>5. \A q \in Proc : pc[q] \notin InCall
    BY <1>01, <1>02, <2>1 DEF InCall, InDoCopy
  <2>6. pc'[p] = "handle" /\ \A q \in Proc : q # p => pc'[q] = pc[q]
    BY <1>0, <2>1
  <2>7. main' = done'
    BY <2>1, StoredSoFar
  <2> QED
    <3>1. CachedNow'
      BY <1>0, <2>1, <2>4, <2>5, <2>6 DEF KeepInv, CachedNow, InCall, InDoCopy, Updaters
    <3>2. AsSeen'
      BY <2>3, <2>5, <2>6 DEF AsSeen, InCall, InDoCopy
    <3>3. KeptSafe'
      BY <2>7 DEF KeptSafe
    <3> QED
      BY <3>1, <3>2, <3>3 DEF KeepInv
<1>4. ASSUME NEW p \in Proc, KeyringLock(p) PROVE KeepInv'
  <2>1. CASE MakeHandle(p) \/ SkipLock(p) \/ CallMakeDotlock(p) \/ MakeLock(p)
    <3>1. /\ pc[p] \in {"handle", "lock", "make"} /\ pc'[p] \in {"lock", "make", "access"}
          /\ \A q \in Proc : q # p => pc'[q] = pc[q]
          /\ UNCHANGED <<secret, main, bak, tmp, done, fp, cached, job>>
      BY <1>0, <2>1 DEF MakeHandle, SkipLock, CallMakeDotlock, MakeLock
    <3> QED
      BY <3>1, Aside
  <2>2. CASE NoHandle(p)
    BY <2>2 DEF NoHandle, LockInv
  <2> QED
    BY <1>4, <2>1, <2>2 DEF KeyringLock
<1>5. ASSUME NEW p \in Proc, DoCopy(p) PROVE KeepInv'
  <2>0. p \in Updaters /\ \A q \in Proc : q # p => pc[q] \notin InCall
    BY <1>01, <1>02, <1>5
    DEF DoCopy, Access, Open, OpenMissing, CreateTmp, Write,
    GivesUp, CreateTmpFails, WriteFails, Backup,
        Rename, RenameMissing, InCall, InDoCopy
  <2>1. CASE Access(p)
    <3>1. /\ pc[p] = "access" /\ pc'[p] \in {"open", "unlock"}
          /\ \A q \in Proc : q # p => pc'[q] = pc[q]
          /\ UNCHANGED <<secret, main, bak, tmp, done, fp, cached, job>>
      BY <1>0, <2>1 DEF Access
    <3> QED
      BY <3>1, Aside
  <2>2. CASE Open(p)
    <3>1. Opened(p) = main
      BY <2>2 DEF Opened, KeepInv, CachedNow, AsSeen, KeptSafe
    <3> QED
      BY <1>0, <2>2, <3>1 DEF Open, KeepInv, CachedNow, AsSeen, KeptSafe, JobFits, Renaming, Stored
  <2>3. CASE OpenMissing(p)
    BY <1>0, <2>0, <2>3, StoredSoFar, Opening DEF OpenMissing, InCall, InDoCopy
  <2>4. CASE CreateTmp(p)
    BY <1>0, <2>0, <2>4 DEF CreateTmp, KeepInv, CachedNow, AsSeen, KeptSafe, JobFits, InCall, InDoCopy
  <2>5. CASE Write(p)
    <3>1. main = done /\ main # NoFile
      BY <2>0, <2>5, StoredSoFar DEF Write, InCall, InDoCopy
    <3>2. tmp' = Stored(p, main)
      BY <1>0, <2>5, <3>1, WrittenIs DEF Write, KeepInv, CachedNow, AsSeen, KeptSafe
    <3>3. Stored(p, main)' = Stored(p, main)
      BY <2>5 DEF Write, Stored
    <3>4. pc'[p] = (IF secret THEN "rename" ELSE "backup") /\ \A q \in Proc : q # p => pc'[q] = pc[q]
      BY <1>0, <2>5 DEF Write
    <3>5. /\ UNCHANGED <<main, done, secret>>
          /\ \A q \in Proc : cached'[q] # NoFile => q # p /\ cached'[q] = cached[q]
      BY <1>0, <2>5 DEF Write
    <3> QED
      <4>1. CachedNow'
        BY <3>4, <3>5 DEF KeepInv, CachedNow, Updaters
      <4>2. \A q \in Proc : q # p => pc'[q] \notin InCall
        BY <2>0, <3>4
      <4>3. AsSeen'
        BY <3>2, <3>3, <3>4, <3>5, <4>2 DEF AsSeen, Renaming, InCall, InDoCopy
      <4>4. KeptSafe'
        BY <3>1, <3>5 DEF KeptSafe
      <4> QED
        BY <4>1, <4>3, <4>4 DEF KeepInv
  <2>6. CASE CreateTmpFails(p) \/ WriteFails(p)
    <3>1. main = done /\ fp[p] = main
      BY <2>0, <2>6, StoredSoFar DEF GivesUp, CreateTmpFails, WriteFails, KeepInv, CachedNow, AsSeen, KeptSafe, InCall, InDoCopy
    <3> QED
      <4>1. pc'[p] = "unlock" /\ \A q \in Proc : q # p => pc'[q] = pc[q]
        BY <1>0, <2>6 DEF GivesUp, CreateTmpFails, WriteFails
      <4>2. /\ UNCHANGED <<secret, main, bak, done, job>>
            /\ cached'[p] = main /\ \A q \in Proc : q # p => cached'[q] = cached[q]
        BY <1>0, <2>6, <3>1 DEF GivesUp, CreateTmpFails, WriteFails
      <4>3. CachedNow'
        BY <2>0, <4>1, <4>2 DEF KeepInv, CachedNow, Updaters
      <4>4. AsSeen'
        BY <2>0, <4>1 DEF AsSeen, InCall, InDoCopy
      <4>5. KeptSafe'
        BY <3>1, <4>2 DEF KeptSafe
      <4> QED
        BY <4>3, <4>4, <4>5 DEF KeepInv
  <2>7. CASE Backup(p)
    <3>1. main = done /\ ~ secret
      BY <2>0, <2>7, StoredSoFar DEF Backup, LockInv, InCall, InDoCopy
    <3>2. tmp = Stored(p, main) /\ Stored(p, bak)' = Stored(p, main)
      BY <2>7 DEF Backup, KeepInv, CachedNow, AsSeen, KeptSafe, Stored
    <3>3. /\ main' = NoFile /\ bak' = main
          /\ UNCHANGED <<secret, tmp, done, fp, cached, job>>
      BY <2>7 DEF Backup
    <3>4. pc'[p] = "rename" /\ \A q \in Proc : q # p => pc'[q] \notin InCall
      BY <1>0, <2>0, <2>7 DEF Backup
    <3>5. \A q \in Proc : cached[q] = NoFile
      BY <1>02, <2>0, <2>7 DEF Backup, KeepInv, CachedNow, AsSeen, KeptSafe
    <3>6. Renaming(p)'
      BY <3>1, <3>2, <3>3 DEF Renaming
    <3> QED
      <4>1. CachedNow'
        BY <3>3, <3>5 DEF CachedNow
      <4>2. AsSeen'
        BY <3>4, <3>6 DEF AsSeen, InCall, InDoCopy
      <4>3. KeptSafe'
        BY <2>0, <3>1, <3>3, <3>4 DEF KeptSafe, Updaters
      <4> QED
        BY <4>1, <4>2, <4>3 DEF KeepInv
  <2>8. CASE Rename(p)
    <3>1. Renaming(p)
      BY <2>8 DEF Rename, KeepInv, CachedNow, AsSeen, KeptSafe
    <3>2. tmp = Stored(p, done)
      <4>1. CASE secret
        <5>1. main # NoFile
          BY <2>0, <2>8, <4>1 DEF Rename, LockInv
        <5>2. main = done
          BY <4>1, <5>1 DEF KeepInv, CachedNow, AsSeen, KeptSafe
        <5> QED
          BY <3>1, <4>1, <5>2 DEF Renaming
      <4>2. CASE ~ secret
        BY <3>1, <4>2 DEF Renaming
      <4> QED
        BY <4>1, <4>2
    <3>3. main' = done'
      BY <2>8, <3>2 DEF Rename
    <3>4. pc'[p] = "unlock" /\ \A q \in Proc : q # p => pc'[q] \notin InCall
      BY <1>0, <2>0, <2>8 DEF Rename
    <3>5. \A q \in Proc : cached'[q] = NoFile
      BY <1>02, <2>0, <2>8 DEF Rename, KeepInv, CachedNow, AsSeen, KeptSafe
    <3> QED
      BY <3>3, <3>4, <3>5 DEF KeepInv, CachedNow, AsSeen, KeptSafe, InCall, InDoCopy
  <2>9. CASE RenameMissing(p)
    BY <2>0, <2>9, StoredSoFar DEF RenameMissing, LockInv, InCall, InDoCopy
  <2> QED
    BY <1>5, <2>1, <2>2, <2>3, <2>4, <2>5, <2>6, <2>7, <2>8, <2>9 DEF DoCopy
<1>6. ASSUME NEW p \in Proc, Unlock(p) PROVE KeepInv'
  <2>1. /\ pc[p] = "unlock" /\ pc'[p] = "ready"
        /\ \A q \in Proc : q # p => pc'[q] = pc[q]
        /\ UNCHANGED <<secret, main, bak, tmp, done, fp, cached, job>>
    BY <1>0, <1>6 DEF Unlock
  <2> QED
    BY <2>1, Aside
<1>7. ASSUME NEW p \in Proc, Exit(p) \/ Crash(p) PROVE KeepInv'
  <2>1. pc'[p] \in {"off", "dead"} /\ (pc[p] \in {"rename", "dead"} => pc'[p] = "dead")
    BY <1>0, <1>7 DEF Exit, Crash
  <2>2. cached'[p] = NoFile
    BY <1>0, <1>7 DEF Exit, Crash, Gone
  <2>3. \A q \in Proc : q # p =>
          pc'[q] = pc[q] /\ fp'[q] = fp[q] /\ cached'[q] = cached[q]
    BY <1>0, <1>7 DEF Exit, Crash, Gone
  <2>4. UNCHANGED <<secret, main, bak, tmp, done, job>>
    BY <1>7 DEF Exit, Crash, Gone
  <2> QED
    BY <2>1, <2>2, <2>3, <2>4, Aside
<1>8. ASSUME NEW p \in Proc, Restart(p) PROVE KeepInv'
  BY <1>8 DEF Restart
<1>9. CASE UNCHANGED vars
  <2>1. CachedNow'
    BY <1>9 DEF vars, KeepInv, CachedNow, Updaters
  <2>2. AsSeen'
    BY <1>9, SameFits DEF vars, KeepInv, AsSeen
  <2>3. KeptSafe'
    BY <1>9 DEF vars, KeepInv, KeptSafe, Updaters
  <2> QED
    BY <2>1, <2>2, <2>3 DEF KeepInv
<1> QED
  BY <1>1, <1>2, <1>3, <1>4, <1>5, <1>6, <1>7, <1>8, <1>9 DEF Next, MaybeCreate

LEMMA Kept ==
  ASSUME OneUpdates, MayRestart = {}
  PROVE  Spec => [](TypeInv /\ LockInv /\ KeepInv)
<1>1. Init => TypeInv /\ LockInv /\ KeepInv
  BY TypeInit, LockInit, KeepInit
<1>2. TypeInv /\ LockInv /\ KeepInv /\ [Next]_vars => (TypeInv /\ LockInv /\ KeepInv)'
  BY TypeStep, LockStep, KeepStep DEF Excluded
<1> QED
  BY <1>1, <1>2, PTL DEF Spec

\* If one process updates the keyring, whatever others read or create and
\* whether disks are full: as long as nobody is killed, the keyring is what was
\* stored, or it is missing while its backup is.
THEOREM OneWriterIntact ==
  ASSUME OneUpdates, MayRestart = {}
  PROVE  Spec => []RingIntact
<1>1. TypeInv /\ LockInv /\ KeepInv => RingIntact
  <2> SUFFICES ASSUME TypeInv, LockInv, KeepInv, \A p \in Proc : pc[p] # "dead"
               PROVE  RingIntact
    BY DEF RingIntact
  <2> QED
    BY DEF KeepInv, CachedNow, AsSeen, KeptSafe, RingIntact, Updaters, Renaming
<1> QED
  BY <1>1, Kept, PTL

\* And wherever that process is killed, one of the files has all of it.
THEOREM OneWriterRecoverable ==
  ASSUME OneUpdates, MayRestart = {}
  PROVE  Spec => []Recoverable
<1>1. TypeInv /\ LockInv /\ KeepInv => Recoverable
  <2> SUFFICES ASSUME TypeInv, KeepInv PROVE Recoverable
    OBVIOUS
  <2>1. done # NoFile
    BY Contents DEF TypeInv, TypeOK
  <2> QED
    BY <2>1 DEF KeepInv, CachedNow, AsSeen, KeptSafe, Recoverable
<1> QED
  BY <1>1, Kept, PTL

-----------------------------------------------------------------------------
\* Any number of processes make keys in a secret keyring, and no disk is full:
\* no descriptor is cached, so what is copied under the lock is the keyring.
Generators == MayFail = {} /\ \A p \in Proc : Ops[p] \subseteq {"generate"}

GenInv ==
  /\ \A p \in Proc : cached[p] = NoFile
  /\ \A p \in Proc : pc[p] \in ToWrite => job[p].isNew /\ job[p].op = "generate"
  /\ \A p \in Proc : pc[p] \in {"tmp", "write"} => fp[p] = main
  /\ \A p \in Proc : pc[p] = "rename" => Stored(p, main) \subseteq tmp /\ job[p].op = "generate"
  /\ IF main = NoFile THEN done = {} ELSE done \subseteq main

LEMMA GenInit == Init => GenInv
BY DEF Init, GenInv, ToWrite

LEMMA GenStep ==
  ASSUME Generators, secret, TypeInv, LockInv, GenInv, [Next]_vars
  PROVE  GenInv'
<1> USE DEF Goto, files, local, ToWrite
<1>0. /\ pc \in [Proc -> PCs] /\ cached \in [Proc -> File] /\ fp \in [Proc -> File]
      /\ job \in [Proc -> Job] /\ Updaters \subseteq Proc
      /\ TypeOK
  BY DEF TypeInv, TypeOK, Updaters
<1>1. ASSUME NEW p \in Proc, Start(p) \/ LockNew(p) \/ TestNew(p) PROVE GenInv'
  <2>1. /\ pc'[p] \in {"ready", "lockNew", "testNew", "create"}
        /\ \A q \in Proc : q # p => pc'[q] = pc[q]
        /\ UNCHANGED <<main, tmp, done, fp, cached, job>>
    BY <1>0, <1>1 DEF Start, LockNew, TestNew
  <2>2. \A q \in Proc : Stored(q, main)' = Stored(q, main)
    BY <2>1 DEF Stored
  <2> QED
    BY <2>1, <2>2 DEF GenInv
<1>2. ASSUME NEW p \in Proc, Create(p) PROVE GenInv'
  <2>1. main = NoFile /\ main' = {} /\ done' = {}
    BY <1>2 DEF Create, LockInv, GenInv
  <2>2. \A q \in Proc : q # p => pc[q] \notin WithLock
    BY <1>2 DEF Create, LockInv, WithLock
  <2> QED
    BY <1>0, <1>2, <2>1, <2>2, Contents DEF Create, GenInv, WithLock, InDoCopy
<1>3. ASSUME NEW p \in Proc, Call(p) PROVE GenInv'
  <2>1. PICK k \in Key, s \in Item : Generate(p, k, s)
    BY <1>3 DEF Generators, Call, Import, Delete, Called
  <2>2. /\ pc'[p] = "handle" /\ \A q \in Proc : q # p => pc'[q] = pc[q] /\ job'[q] = job[q]
        /\ job'[p].isNew /\ job'[p].op = "generate"
        /\ UNCHANGED <<main, tmp, done, fp, cached>>
    BY <1>0, <2>1 DEF Generate, Called
  <2> QED
    BY <2>2 DEF GenInv, Stored
<1>4. ASSUME NEW p \in Proc, KeyringLock(p) PROVE GenInv'
  <2>1. CASE MakeHandle(p) \/ SkipLock(p) \/ CallMakeDotlock(p) \/ MakeLock(p)
    <3>1. /\ pc[p] \in {"handle", "lock", "make"} /\ pc'[p] \in {"lock", "make", "access"}
          /\ \A q \in Proc : q # p => pc'[q] = pc[q]
          /\ UNCHANGED <<main, tmp, done, fp, cached, job>>
      BY <1>0, <2>1 DEF MakeHandle, SkipLock, CallMakeDotlock, MakeLock
    <3>2. \A q \in Proc : Stored(q, main)' = Stored(q, main)
      BY <3>1 DEF Stored
    <3> QED
      BY <3>1, <3>2 DEF GenInv
  <2>2. CASE NoHandle(p)
    BY <2>2 DEF NoHandle, LockInv
  <2> QED
    BY <1>4, <2>1, <2>2 DEF KeyringLock
<1>5. ASSUME NEW p \in Proc, DoCopy(p) PROVE GenInv'
  <2>0. p \in Updaters /\ main # NoFile /\ \A q \in Proc : q # p => pc[q] \notin WithLock
    BY <1>5
    DEF DoCopy, Access, Open, OpenMissing, CreateTmp, Write,
    GivesUp, CreateTmpFails, WriteFails, Backup,
        Rename, RenameMissing, LockInv, InCall, InDoCopy, WithLock
  <2>1. CASE Access(p)
    BY <1>0, <2>1 DEF Access, GenInv, Stored
  <2>2. CASE Open(p)
    <3>1. Opened(p) = main
      BY <2>2 DEF Opened, GenInv
    <3> QED
      BY <1>0, <2>2, <3>1 DEF Open, GenInv, Stored
  <2>3. CASE OpenMissing(p)
    BY <1>0, <2>0, <2>3, Opening DEF OpenMissing
  <2>4. CASE CreateTmp(p)
    BY <1>0, <2>0, <2>4 DEF CreateTmp, GenInv, WithLock, InDoCopy
  <2>5. CASE Write(p)
    <3>1. /\ tmp' = main \cup job[p].block /\ job[p].op = "generate"
          /\ UNCHANGED <<main, done, job>>
      BY <2>5 DEF Write, GenInv, Written
    <3>2. pc'[p] = "rename" /\ \A q \in Proc : q # p => pc'[q] = pc[q]
      BY <1>0, <2>5 DEF Write
    <3>3. \A q \in Proc : cached'[q] = NoFile
      BY <1>0, <2>5 DEF Write, GenInv
    <3>4. \A q \in Proc : q # p => fp'[q] = fp[q]
      BY <1>0, <2>5 DEF Write
    <3> QED
      BY <2>0, <3>1, <3>2, <3>3, <3>4 DEF GenInv, Stored, WithLock, InDoCopy
  <2>6. CASE CreateTmpFails(p) \/ WriteFails(p)
    BY <2>6 DEF GivesUp, CreateTmpFails, WriteFails, Generators
  <2>7. CASE Backup(p)
    BY <2>7 DEF Backup, LockInv
  <2>8. CASE Rename(p)
    <3>1. /\ main' = tmp /\ tmp # NoFile /\ done' = done \cup job[p].block
          /\ main \cup job[p].block \subseteq tmp
      BY <2>8 DEF Rename, GenInv, Stored
    <3>2. done' \subseteq main' /\ main' # NoFile
      BY <2>0, <3>1 DEF GenInv
    <3>3. pc'[p] = "unlock" /\ \A q \in Proc : q # p => pc'[q] = pc[q] /\ pc[q] \notin WithLock
      BY <1>0, <2>0, <2>8 DEF Rename
    <3> QED
      BY <2>8, <3>2, <3>3 DEF Rename, GenInv, WithLock, InDoCopy
  <2>9. CASE RenameMissing(p)
    BY <2>0, <2>9 DEF RenameMissing, LockInv
  <2> QED
    BY <1>5, <2>1, <2>2, <2>3, <2>4, <2>5, <2>6, <2>7, <2>8, <2>9 DEF DoCopy
<1>6. ASSUME NEW p \in Proc, Unlock(p) \/ Restart(p) PROVE GenInv'
  <2>1. /\ pc'[p] \in {"ready", "off"} /\ \A q \in Proc : q # p => pc'[q] = pc[q]
        /\ UNCHANGED <<main, tmp, done, fp, cached, job>>
    BY <1>0, <1>6 DEF Unlock, Restart
  <2>2. \A q \in Proc : Stored(q, main)' = Stored(q, main)
    BY <2>1 DEF Stored
  <2> QED
    BY <2>1, <2>2 DEF GenInv
<1>7. ASSUME NEW p \in Proc, Exit(p) \/ Crash(p) PROVE GenInv'
  <2>1. pc' \in {[pc EXCEPT ![p] = "off"], [pc EXCEPT ![p] = "dead"]} /\ Gone(p)
    BY <1>7 DEF Exit, Crash
  <2> QED
    <3>1. /\ pc'[p] \in {"off", "dead"} /\ \A q \in Proc : q # p => pc'[q] = pc[q]
          /\ UNCHANGED <<main, tmp, done, job>>
          /\ \A q \in Proc : q # p => fp'[q] = fp[q] /\ cached'[q] = cached[q]
          /\ cached'[p] = NoFile
      BY <1>0, <2>1 DEF Gone
    <3>2. \A q \in Proc : Stored(q, main)' = Stored(q, main)
      BY <3>1 DEF Stored
    <3> QED
      BY <3>1, <3>2 DEF GenInv
<1>8. CASE UNCHANGED vars
  BY <1>8 DEF vars, GenInv, Stored
<1> QED
  BY <1>1, <1>2, <1>3, <1>4, <1>5, <1>6, <1>7, <1>8 DEF Next, MaybeCreate

\* Keys made by any number of processes, killed anywhere and run again, stay in
\* the secret keyring.  (Those imported do not, nor those made after a write
\* that failed: a descriptor is cached then.)
THEOREM GeneratedKeysStay ==
  ASSUME Generators
  PROVE  Spec => []NothingLost
<1> DEFINE GInv == IInv /\ (secret => GenInv)
<1>1. Init => GInv
  BY TypeInit, LockInit, GenInit DEF IInv
<1>2. GInv /\ [Next]_vars => GInv'
  <2> SUFFICES ASSUME GInv, [Next]_vars PROVE GInv'
    OBVIOUS
  <2>1. IInv'
    BY TypeStep, LockStep, SecretStays DEF IInv, Excluded, OneUpdates
  <2>2. secret => GenInv'
    BY GenStep DEF IInv, Excluded
  <2> QED
    BY <2>1, <2>2, SecretStays
<1>3. GInv => NothingLost
  BY DEF GenInv, NothingLost
<1> HIDE DEF GInv
<1> QED
  BY <1>1, <1>2, <1>3, PTL DEF Spec
=============================================================================
