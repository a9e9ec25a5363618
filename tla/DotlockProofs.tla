--------------------------- MODULE DotlockProofs ---------------------------
(***************************************************************************)
(* When the lock files of Dotlock exclude, proved for every set of         *)
(* processes, nodes and pids.  Exclusion is lost when the owner that was   *)
(* read from a lock file ends and a third process takes the lock before    *)
(* the file is removed.  That needs a process that ends and two others:    *)
(* SafeUse says that there is no such thing.                               *)
(***************************************************************************)
EXTENDS Dotlock, TLAPS

SafeUse ==
  \/ MayEnd = {}
  \/ \A p, q, r \in Proc : p = q \/ q = r \/ p = r

\* The handle that is locked belongs to a running process and to its file.
HandleInv ==
  /\ \A p \in Proc : locked[p] => p \in running /\ lockfile = p
                                  /\ pc[p] \in {"idle", "check", "unlink"}
  /\ \A p \in Proc : pc[p] \in {"check", "unlink"} => locked[p]

\* The process whose file is about to be removed has ended.
SeenInv ==
  /\ MayEnd = {} => running = Proc
  /\ \A p \in Proc : pc[p] \in {"kill", "break"} => seen[p] # p
  /\ \A p \in Proc : pc[p] = "break" => seen[p] \notin running

IInv == HandleInv /\ SeenInv

-----------------------------------------------------------------------------
(* TypeOK holds of every behaviour, whatever processes do: the functions   *)
(* of dotlock.c use a pid only after they have read one.                   *)
THEOREM TypeCorrect == Spec => []TypeOK
<1>. USE ProcAssumption DEF TypeOK, PCs
<1>1. Init => TypeOK
  BY DEF Init
<1>2. TypeOK /\ [Next]_vars => TypeOK'
  <2>. SUFFICES ASSUME TypeOK, [Next]_vars PROVE TypeOK'
    OBVIOUS
  <2>1. CASE UNCHANGED vars
    BY <2>1 DEF vars
  <2>2. ASSUME NEW p \in Proc, CreateDotlock(p) PROVE TypeOK'
    BY <2>2 DEF CreateDotlock, Goto
  <2>3. ASSUME NEW p \in Proc, DestroyDotlock(p) PROVE TypeOK'
    BY <2>3 DEF DestroyDotlock, Goto
  <2>4. ASSUME NEW p \in Proc, ReleaseDotlock(p) PROVE TypeOK'
    BY <2>4 DEF ReleaseDotlock, Goto
  <2>5. ASSUME NEW p \in Proc, NEW wait \in BOOLEAN, MakeDotlock(p, wait)
         PROVE  TypeOK'
    BY <2>5 DEF MakeDotlock, Goto
  <2>6. ASSUME NEW p \in Proc, LinkMade(p) PROVE TypeOK'
    BY <2>6 DEF LinkMade, Goto
  <2>7. ASSUME NEW p \in Proc, LinkExists(p) PROVE TypeOK'
    BY <2>7 DEF LinkExists, Goto
  <2>8. ASSUME NEW p \in Proc, MakeFails(p) PROVE TypeOK'
    BY <2>8 DEF MakeFails, Goto
  <2>9. ASSUME NEW p \in Proc, ReadDisappeared(p) PROVE TypeOK'
    BY <2>9 DEF ReadDisappeared, Goto
  <2>10. ASSUME NEW p \in Proc, ReadOwn(p) PROVE TypeOK'
    BY <2>10 DEF ReadOwn, Goto
  <2>11. ASSUME NEW p \in Proc, ReadOther(p) PROVE TypeOK'
    BY <2>11 DEF ReadOther, Goto
  <2>12. ASSUME NEW p \in Proc, KillStale(p) PROVE TypeOK'
    BY <2>12 DEF KillStale, Goto
  <2>13. ASSUME NEW p \in Proc, KillHeld(p) PROVE TypeOK'
    BY <2>13 DEF KillHeld, Goto
  <2>14. ASSUME NEW p \in Proc, BreakLock(p) PROVE TypeOK'
    BY <2>14 DEF BreakLock, Goto
  <2>15. ASSUME NEW p \in Proc, WakeUp(p) PROVE TypeOK'
    BY <2>15 DEF WakeUp, Goto
  <2>16. ASSUME NEW p \in Proc, CheckOwn(p) PROVE TypeOK'
    BY <2>16 DEF CheckOwn, Goto
  <2>17. ASSUME NEW p \in Proc, CheckFails(p) PROVE TypeOK'
    BY <2>17 DEF CheckFails, Goto
  <2>18. ASSUME NEW p \in Proc, Unlink(p) PROVE TypeOK'
    BY <2>18 DEF Unlink, Goto
  <2>19. ASSUME NEW p \in Proc, UnlinkFails(p) PROVE TypeOK'
    BY <2>19 DEF UnlinkFails, Goto
  <2>20. ASSUME NEW p \in Proc, End(p) PROVE TypeOK'
    BY <2>20 DEF End, Goto
  <2>21. ASSUME NEW p \in Proc, Reuse(p) PROVE TypeOK'
    BY <2>21 DEF Reuse, Goto
  <2>. QED
    BY <2>1, <2>2, <2>3, <2>4, <2>5, <2>6, <2>7, <2>8, <2>9, <2>10,
       <2>11, <2>12, <2>13, <2>14, <2>15, <2>16, <2>17, <2>18, <2>19,
       <2>20, <2>21
       DEF Next, Call, MakeStep, ReleaseStep
<1>. QED BY <1>1, <1>2, PTL DEF Spec

-----------------------------------------------------------------------------
(* IInv is inductive where SafeUse holds.  BreakLock is the step that needs *)
(* it: a third process must not hold a lock that is taken for stale.        *)
LEMMA Inductive ==
  ASSUME SafeUse
  PROVE  Spec => []IInv
<1>. USE ProcAssumption DEF HandleInv, SeenInv
<1>1. Init => IInv
  BY DEF Init, IInv
<1>2. TypeOK /\ IInv /\ [Next]_vars => IInv'
  <2>. SUFFICES ASSUME TypeOK, IInv, [Next]_vars PROVE IInv'
    OBVIOUS
  <2>. USE DEF IInv, TypeOK
  <2>1. CASE UNCHANGED vars
    BY <2>1 DEF vars
  <2>2. ASSUME NEW p \in Proc, CreateDotlock(p) PROVE IInv'
    BY <2>2 DEF CreateDotlock, Goto
  <2>3. ASSUME NEW p \in Proc, DestroyDotlock(p) PROVE IInv'
    BY <2>3 DEF DestroyDotlock, Goto
  <2>4. ASSUME NEW p \in Proc, ReleaseDotlock(p) PROVE IInv'
    BY <2>4 DEF ReleaseDotlock, Goto
  <2>5. ASSUME NEW p \in Proc, NEW wait \in BOOLEAN, MakeDotlock(p, wait)
         PROVE  IInv'
    BY <2>5 DEF MakeDotlock, Goto
  <2>6. ASSUME NEW p \in Proc, LinkMade(p) PROVE IInv'
    BY <2>6 DEF LinkMade, Goto
  <2>7. ASSUME NEW p \in Proc, LinkExists(p) PROVE IInv'
    BY <2>7 DEF LinkExists, Goto
  <2>8. ASSUME NEW p \in Proc, MakeFails(p) PROVE IInv'
    BY <2>8 DEF MakeFails, Goto
  <2>9. ASSUME NEW p \in Proc, ReadDisappeared(p) PROVE IInv'
    BY <2>9 DEF ReadDisappeared, Goto
  <2>10. ASSUME NEW p \in Proc, ReadOwn(p) PROVE IInv'
    <3>1. lockfile = p
      BY <2>10, PidAssumption DEF ReadOwn, OwnFile, SameNode
    <3>. QED BY <2>10, <3>1 DEF ReadOwn, Goto
  <2>11. ASSUME NEW p \in Proc, ReadOther(p) PROVE IInv'
    <3>1. lockfile # p
      BY <2>11 DEF ReadOther, OwnFile, SameNode
    <3>. QED BY <2>11, <3>1 DEF ReadOther, Goto
  <2>12. ASSUME NEW p \in Proc, KillStale(p) PROVE IInv'
    BY <2>12 DEF KillStale, Goto, Stale, SameNode
  <2>13. ASSUME NEW p \in Proc, KillHeld(p) PROVE IInv'
    BY <2>13 DEF KillHeld, Goto
  <2>14. ASSUME NEW p \in Proc, BreakLock(p) PROVE IInv'
    <3>1. seen[p] \notin running /\ seen[p] # p /\ seen[p] \in Proc /\ ~ locked[p]
      BY <2>14 DEF BreakLock, Goto
    <3>2. \A q \in Proc : ~ locked[q]
      BY <3>1 DEF SafeUse
    <3>. QED BY <2>14, <3>2 DEF BreakLock, Goto
  <2>15. ASSUME NEW p \in Proc, WakeUp(p) PROVE IInv'
    BY <2>15 DEF WakeUp, Goto
  <2>16. ASSUME NEW p \in Proc, CheckOwn(p) PROVE IInv'
    BY <2>16 DEF CheckOwn, Goto
  <2>17. ASSUME NEW p \in Proc, CheckFails(p) PROVE IInv'
    BY <2>17 DEF CheckFails, Goto
  <2>18. ASSUME NEW p \in Proc, Unlink(p) PROVE IInv'
    BY <2>18 DEF Unlink, Goto
  <2>19. ASSUME NEW p \in Proc, UnlinkFails(p) PROVE IInv'
    BY <2>19 DEF UnlinkFails, Goto
  <2>20. ASSUME NEW p \in Proc, End(p) PROVE IInv'
    BY <2>20 DEF End, Goto
  <2>21. ASSUME NEW p \in Proc, Reuse(p) PROVE IInv'
    BY <2>21 DEF Reuse, SafeUse
  <2>. QED
    BY <2>1, <2>2, <2>3, <2>4, <2>5, <2>6, <2>7, <2>8, <2>9, <2>10,
       <2>11, <2>12, <2>13, <2>14, <2>15, <2>16, <2>17, <2>18, <2>19,
       <2>20, <2>21
       DEF Next, Call, MakeStep, ReleaseStep
<1>. QED BY <1>1, <1>2, TypeCorrect, PTL DEF Spec

-----------------------------------------------------------------------------
(* Where SafeUse holds, a handle that is locked finds its own lock file:   *)
(* release_dotlock succeeds and destroy_dotlock removes the right file.    *)
THEOREM OwnerCorrect ==
  ASSUME SafeUse
  PROVE  Spec => []LockedIsOwner
<1>1. IInv => LockedIsOwner
  BY DEF IInv, HandleInv, LockedIsOwner
<1>. QED BY <1>1, Inductive, PTL

(* Where SafeUse holds, make_dotlock does not return 0 to two processes    *)
(* that both rely on it.                                                   *)
THEOREM Exclusion ==
  ASSUME SafeUse
  PROVE  Spec => []MutualExclusion
<1>1. LockedIsOwner => MutualExclusion
  BY DEF LockedIsOwner, MutualExclusion, Holds
<1>. QED BY <1>1, OwnerCorrect, PTL

(* Where SafeUse holds, no process removes the lock file of another one    *)
(* that is running: unlink in make_dotlock hits stale files only.          *)
THEOREM OnlyOwner ==
  ASSUME SafeUse
  PROVE  Spec => OnlyOwnerUnlinks
<1>. DEFINE Step == (lockfile \in running /\ lockfile' # lockfile)
                       => pc'[lockfile] # pc[lockfile]
<1>1. TypeOK /\ IInv /\ [Next]_vars => [Step]_vars
  <2>. SUFFICES ASSUME TypeOK, IInv, Next,
                       lockfile \in running, lockfile' # lockfile
                PROVE  pc'[lockfile] # pc[lockfile]
    BY DEF vars
  <2>. USE ProcAssumption DEF TypeOK, IInv, HandleInv, SeenInv
  <2>1. PICK p \in Proc : Call(p) \/ MakeStep(p) \/ ReleaseStep(p) \/ End(p)
                           \/ Reuse(p)
    BY DEF Next
  <2>2. DestroyDotlock(p) \/ LinkMade(p) \/ BreakLock(p) \/ Unlink(p)
    BY <2>1 DEF Call, MakeStep, ReleaseStep, CreateDotlock, MakeDotlock,
       ReleaseDotlock, LinkExists, MakeFails, ReadDisappeared, ReadOwn,
       ReadOther, KillStale, KillHeld, WakeUp, CheckOwn, CheckFails,
       UnlinkFails, End, Reuse
  <2>3. CASE DestroyDotlock(p)
    BY <2>3 DEF DestroyDotlock, Goto
  <2>4. CASE LinkMade(p)
    BY <2>4 DEF LinkMade, Goto
  <2>5. CASE BreakLock(p)
    <3>1. seen[p] \notin running /\ seen[p] # p /\ seen[p] \in Proc /\ ~ locked[p]
      BY <2>5 DEF BreakLock, Goto
    <3>. QED BY <2>5, <3>1 DEF SafeUse, BreakLock, Goto
  <2>6. CASE Unlink(p)
    BY <2>6 DEF Unlink, Goto
  <2>. QED BY <2>2, <2>3, <2>4, <2>5, <2>6
<1>. QED BY <1>1, TypeCorrect, Inductive, PTL DEF Spec, OnlyOwnerUnlinks

(* Where SafeUse holds, the lock file with the handles of dotlock.c is the *)
(* lock that AbstractLock promises.                                        *)
THEOREM Implementation ==
  ASSUME SafeUse
  PROVE  Spec => ImplementsLock
<1>1. Init => Lock!Init
  BY DEF Init, Lock!Init, Holds
<1>2. TypeOK /\ IInv /\ [Next]_vars => [Lock!Next]_(Lock!vars)
  <2>. SUFFICES ASSUME TypeOK, IInv, [Next]_vars
                PROVE  Lock!Next \/ UNCHANGED Lock!vars
    OBVIOUS
  <2>. USE ProcAssumption DEF TypeOK, IInv, HandleInv, SeenInv, Holds
  <2>1. CASE UNCHANGED vars
    BY <2>1 DEF vars, Lock!vars
  <2>2. ASSUME NEW p \in Proc, LinkMade(p) PROVE Lock!Acquire(p)
    BY <2>2 DEF LinkMade, Goto, Lock!Acquire
  <2>3. ASSUME NEW p \in Proc, ReadOwn(p) PROVE Lock!Resume(p)
    <3>1. lockfile = p
      BY <2>3, PidAssumption DEF ReadOwn, OwnFile, SameNode
    <3>. QED BY <2>3, <3>1 DEF ReadOwn, Goto, Lock!Resume
  <2>4. ASSUME NEW p \in Proc, ReleaseDotlock(p)
        PROVE  Lock!Pause(p) \/ UNCHANGED Lock!vars
    BY <2>4 DEF ReleaseDotlock, Goto, Lock!Pause, Lock!vars
  <2>5. ASSUME NEW p \in Proc, CheckFails(p) \/ UnlinkFails(p)
        PROVE  Lock!Resume(p)
    <3>1. locked[p] /\ lockfile = p
      BY <2>5 DEF CheckFails, UnlinkFails, Goto
    <3>. QED
      BY <2>5, <3>1 DEF CheckFails, UnlinkFails, Goto, Lock!Resume
  <2>6. ASSUME NEW p \in Proc, Unlink(p) PROVE Lock!Free
    <3>1. lockfile = p
      BY <2>6 DEF Unlink, Goto
    <3>. QED BY <2>6, <3>1 DEF Unlink, Goto, Lock!Free
  <2>7. ASSUME NEW p \in Proc, DestroyDotlock(p)
        PROVE  Lock!Release(p) \/ UNCHANGED Lock!vars
    BY <2>7 DEF DestroyDotlock, Goto, Lock!Release, Lock!vars
  <2>8. ASSUME NEW p \in Proc, BreakLock(p) PROVE Lock!Free
    <3>1. seen[p] \notin running /\ seen[p] # p /\ seen[p] \in Proc /\ ~ locked[p]
      BY <2>8 DEF BreakLock, Goto
    <3>2. lockfile \notin {q \in Proc : Holds(q)}
      BY <2>8, <3>1 DEF SafeUse, BreakLock, Goto
    <3>. QED BY <2>8, <3>2 DEF BreakLock, Goto, Lock!Free
  <2>9. ASSUME NEW p \in Proc, End(p) PROVE Lock!End(p)
    BY <2>9 DEF End, Lock!End
  <2>10. ASSUME NEW p \in Proc, Reuse(p) PROVE Lock!Again(p)
    BY <2>10 DEF Reuse, Lock!Again
  <2>11. ASSUME NEW p \in Proc,
                \/ CreateDotlock(p) \/ \E wait \in BOOLEAN : MakeDotlock(p, wait)
                \/ LinkExists(p) \/ MakeFails(p) \/ ReadDisappeared(p)
                \/ ReadOther(p) \/ KillStale(p) \/ KillHeld(p) \/ WakeUp(p)
                \/ CheckOwn(p)
         PROVE  UNCHANGED Lock!vars
    <3>1. UNCHANGED <<lockfile, running>>
      BY <2>11 DEF CreateDotlock, MakeDotlock, LinkExists, MakeFails,
         ReadDisappeared, ReadOther, KillStale, KillHeld, WakeUp, CheckOwn
    <3>2. locked' = locked
      <4>1. CASE CreateDotlock(p)
        <5>1. locked[p] = FALSE
          BY <4>1 DEF CreateDotlock, Goto
        <5>. QED BY <4>1, <5>1 DEF CreateDotlock
      <4>. QED
        BY <2>11, <4>1 DEF MakeDotlock, LinkExists, MakeFails, Goto,
           ReadDisappeared, ReadOther, KillStale, KillHeld, WakeUp, CheckOwn
    <3>3. \A q \in Proc : q # p => pc'[q] = pc[q]
      BY <2>11 DEF CreateDotlock, MakeDotlock, LinkExists, MakeFails, Goto,
         ReadDisappeared, ReadOther, KillStale, KillHeld, WakeUp, CheckOwn
    <3>4. locked[p] => (pc[p] = "idle" <=> pc'[p] = "idle")
      BY <2>11 DEF CreateDotlock, MakeDotlock, LinkExists, MakeFails, Goto,
         ReadDisappeared, ReadOther, KillStale, KillHeld, WakeUp, CheckOwn
    <3>6. \A q \in Proc : Holds(q)' <=> Holds(q)
      BY <3>1, <3>2, <3>3, <3>4
    <3>. QED BY <3>1, <3>6 DEF Lock!vars
  <2>. QED
    BY <2>1, <2>2, <2>3, <2>4, <2>5, <2>6, <2>7, <2>8, <2>9, <2>10, <2>11
       DEF Next, Call, MakeStep, ReleaseStep, Lock!Next
<1>. QED
  BY <1>1, <1>2, TypeCorrect, Inductive, PTL DEF Spec, ImplementsLock, Lock!Spec
=============================================================================
