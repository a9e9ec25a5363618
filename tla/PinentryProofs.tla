--------------------------- MODULE PinentryProofs ---------------------------
(***************************************************************************)
(* Proofs about Pinentry, for any number of sessions.  The invariant adds  *)
(* to the properties what a count above one means (its owner has left a    *)
(* popup up or the mutex locked before), and that a context without a      *)
(* dialog is that of a popup its owner has left.                           *)
(***************************************************************************)
EXTENDS Pinentry, TLAPS

\* The owner of the lock that is not in a dialog of its own has left it
\* locked before, and so has one that holds it more than once.
CountKept ==
  \A s \in Session :
    (entryLock = s /\ (pin[s] \in {"out", "wait"} \/ (s \in InUse /\ entryCount # 1)))
      => s \in trouble

\* A pinentry belongs to the owner of the lock; out of a dialog, it shows a
\* popup, and a session without ssh does not end before that is down.
ContextOwned ==
  \A s \in Session :
    (entryLock = s /\ entryCtx)
      => /\ entryOwner = s
         /\ pin[s] \in {"out", "wait"} => popup # "none"
         /\ pin[s] = "gone" => s \in Ssh

PopupThere == \A s \in Session : pin[s] \in {"up", "join"} => popup # "none"

PinIInv ==
  /\ PinTypeOK /\ OwnerTalks /\ PopupAlone /\ NoContextLeft
  /\ CountKept /\ ContextOwned /\ PopupThere

\* Initially nobody is in the module and nothing is there.
LEMMA PinInitial == PinInit => PinIInv
<1>. SUFFICES ASSUME PinInit PROVE PinIInv
  OBVIOUS
<1>. USE SessionAssumption DEF PinInit
<1>1. PinTypeOK
  BY DEF PinTypeOK
<1>2. InUse = {}
  BY DEF InUse
<1>3. OwnerTalks /\ PopupAlone /\ NoContextLeft
  BY <1>2 DEF OwnerTalks, PopupAlone, NoContextLeft
<1>4. CountKept /\ ContextOwned /\ PopupThere
  BY DEF CountKept, ContextOwned, PopupThere
<1>. QED
  BY <1>1, <1>3, <1>4 DEF PinIInv

LockTypeOK ==
  /\ entryLock \in Session \cup {NoSession}
  /\ entryCount \in Nat /\ (entryCount = 0 <=> entryLock = NoSession)

\* Release goes with the count: the lock stays with its owner as long as that
\* has taken it more than once.
LEMMA ReleaseKeeps ==
  ASSUME NEW s \in Session, LockTypeOK, Release(s)
  PROVE  /\ LockTypeOK'
         /\ entryLock' = s => entryLock = s /\ entryCount # 1
         /\ entryLock # s => entryLock' = entryLock /\ entryCount' = entryCount
         /\ entryLock = s => entryLock' \in {s, NoSession}
<1>1. CASE entryLock # s
  BY <1>1 DEF Release, LockTypeOK
<1>2. CASE entryLock = s /\ entryCount = 1
  <2>1. entryCount' = 0 /\ entryLock' = NoSession
    BY <1>2 DEF Release
  <2>. QED
    BY <1>2, <2>1, SessionAssumption DEF LockTypeOK
<1>3. CASE entryLock = s /\ entryCount # 1
  <2>1. entryCount' = entryCount - 1 /\ entryLock' = s
    BY <1>3 DEF Release
  <2>2. entryCount \in Nat /\ entryCount # 0 /\ s # NoSession
    BY <1>3, SessionAssumption DEF LockTypeOK
  <2>3. entryCount - 1 \in Nat /\ entryCount - 1 # 0
    BY <1>3, <2>2
  <2>. QED
    BY <1>3, <2>1, <2>2, <2>3 DEF LockTypeOK
<1>. QED
  BY <1>1, <1>2, <1>3

\* Every step keeps the types and the count.
LEMMA PinTypeStep == PinTypeOK /\ OwnerTalks /\ [PinNext]_pinVars => PinTypeOK'
<1>. SUFFICES ASSUME PinTypeOK, OwnerTalks, [PinNext]_pinVars PROVE PinTypeOK'
  OBVIOUS
<1>. USE SessionAssumption DEF PinTypeOK, PinGoto, For, Return, Take, UnlockPinentry
<1>1. ASSUME NEW s \in Session, TimedOut(s) PROVE PinTypeOK'
  BY <1>1 DEF TimedOut
<1>2. ASSUME NEW s \in Session, Acquired(s) PROVE PinTypeOK'
  BY <1>2 DEF Acquired
<1>3. ASSUME NEW s \in Session, OutOfCore(s) PROVE PinTypeOK'
  BY <1>3 DEF OutOfCore
<1>4. ASSUME NEW s \in Session, Launched(s) PROVE PinTypeOK'
  BY <1>4 DEF Launched
<1>5. ASSUME NEW s \in Session, LaunchFails(s) PROVE PinTypeOK'
  <2>1. LockTypeOK'
    BY <1>5, ReleaseKeeps DEF LaunchFails, LockTypeOK
  <2>. QED
    BY <1>5, <2>1 DEF LaunchFails, LockTypeOK
<1>6. ASSUME NEW s \in Session, Answered(s) PROVE PinTypeOK'
  <2>1. LockTypeOK'
    BY <1>6, ReleaseKeeps DEF Answered, LockTypeOK
  <2>. QED
    BY <1>6, <2>1 DEF Answered, LockTypeOK
<1>7. ASSUME NEW s \in Session, PopupShown(s) PROVE PinTypeOK'
  BY <1>7 DEF PopupShown
<1>8. ASSUME NEW s \in Session, Joined(s) PROVE PinTypeOK'
  <2>1. LockTypeOK'
    BY <1>8, ReleaseKeeps DEF Joined, LockTypeOK
  <2>. QED
    BY <1>8, <2>1 DEF Joined, LockTypeOK
<1>9. ASSUME NEW s \in Session, Stop(s) PROVE PinTypeOK'
  BY <1>9 DEF Stop
<1>10. ASSUME NEW s \in Session, Abandon(s) PROVE PinTypeOK'
  BY <1>10 DEF Abandon
<1>11. ASSUME NEW s \in Session, ResetQuery(s) PROVE PinTypeOK'
  BY <1>11 DEF ResetQuery
<1>12. ASSUME NEW s \in Session, ThreadEnds(s) PROVE PinTypeOK'
  BY <1>12 DEF ThreadEnds
<1>13. ASSUME NEW s \in Session, NEW k \in {"dialog", "popup"}, StartPinentry(s, k)
       PROVE  PinTypeOK'
  BY <1>13 DEF StartPinentry
<1>14. CASE PopupEnds
  BY <1>14 DEF PopupEnds
<1>15. CASE UNCHANGED pinVars
  BY <1>15 DEF pinVars
<1>. QED
  BY <1>1, <1>2, <1>3, <1>4, <1>5, <1>6, <1>7, <1>8, <1>9, <1>10, <1>11, <1>12,
     <1>13, <1>14, <1>15 DEF PinNext, Pin

\* Every step keeps the invariant: the steps of a session that is in a dialog
\* by what OwnerTalks says of the others, those that release the lock by
\* CountKept, and those at the end of a session by ContextOwned.
LEMMA PinStepKeeps == PinIInv /\ [PinNext]_pinVars => PinIInv'
<1>. SUFFICES ASSUME PinIInv, [PinNext]_pinVars PROVE PinIInv'
  OBVIOUS
<1>. USE SessionAssumption
     DEF PinGoto, For, Return, Take, InUse, PinTypeOK, OwnerTalks, PopupAlone,
         NoContextLeft, CountKept, ContextOwned, PopupThere
<1>0. PinTypeOK'
  BY PinTypeStep DEF PinIInv
<1>1. ASSUME NEW s \in Session, TimedOut(s) PROVE PinIInv'
  BY <1>0, <1>1 DEF PinIInv, TimedOut
<1>2. ASSUME NEW s \in Session, Acquired(s) PROVE PinIInv'
  BY <1>0, <1>2 DEF PinIInv, Acquired
<1>3. ASSUME NEW s \in Session, OutOfCore(s) PROVE PinIInv'
  BY <1>0, <1>3 DEF PinIInv, OutOfCore
<1>4. ASSUME NEW s \in Session, Launched(s) PROVE PinIInv'
  BY <1>0, <1>4 DEF PinIInv, Launched
<1>5. ASSUME NEW s \in Session, LaunchFails(s) PROVE PinIInv'
  BY <1>0, <1>5 DEF PinIInv, LaunchFails, UnlockPinentry, Release
<1>6. ASSUME NEW s \in Session, Answered(s) PROVE PinIInv'
  BY <1>0, <1>6 DEF PinIInv, Answered, UnlockPinentry, Release
<1>7. ASSUME NEW s \in Session, PopupShown(s) PROVE PinIInv'
  BY <1>0, <1>7 DEF PinIInv, PopupShown
<1>8. ASSUME NEW s \in Session, Joined(s) PROVE PinIInv'
  BY <1>0, <1>8 DEF PinIInv, Joined, UnlockPinentry, Release
<1>9. ASSUME NEW s \in Session, Stop(s) PROVE PinIInv'
  BY <1>0, <1>9 DEF PinIInv, Stop
<1>10. ASSUME NEW s \in Session, Abandon(s) PROVE PinIInv'
  BY <1>0, <1>10 DEF PinIInv, Abandon
<1>11. ASSUME NEW s \in Session, ResetQuery(s) PROVE PinIInv'
  BY <1>0, <1>11 DEF PinIInv, ResetQuery
<1>12. ASSUME NEW s \in Session, ThreadEnds(s) PROVE PinIInv'
  BY <1>0, <1>12 DEF PinIInv, ThreadEnds
<1>13. ASSUME NEW s \in Session, NEW k \in {"dialog", "popup"}, StartPinentry(s, k)
       PROVE  PinIInv'
  BY <1>0, <1>13 DEF PinIInv, StartPinentry
<1>14. CASE PopupEnds
  BY <1>0, <1>14 DEF PinIInv, PopupEnds
<1>15. CASE UNCHANGED pinVars
  BY <1>0, <1>15 DEF PinIInv, pinVars
<1>. QED
  BY <1>1, <1>2, <1>3, <1>4, <1>5, <1>6, <1>7, <1>8, <1>9, <1>10, <1>11, <1>12,
     <1>13, <1>14, <1>15 DEF PinNext, Pin

-----------------------------------------------------------------------------
\* The invariant above holds in every state the dialogs can get into.
THEOREM PinInvariant == PinSpec => []PinIInv
BY PinInitial, PinStepKeeps, PTL DEF PinSpec

\* What the invariant says of each property, on its own.
LEMMA PinParts ==
  PinIInv => PinTypeOK /\ OwnerTalks /\ PopupAlone /\ GivenBack
BY DEF PinIInv, CountKept, LockGivenBack, GivenBack

\* Whoever talks to the pinentry owns the lock, for any number of sessions
\* and whatever the users, the pinentries and the mutex's timeout do.
THEOREM PinOwnerTalks == PinSpec => []OwnerTalks
BY PinInvariant, PinParts, PTL

\* No session talks to the pinentry while the thread of a popup does, unless
\* a popup was left up.
THEOREM PinPopupAlone == PinSpec => []PopupAlone
BY PinInvariant, PinParts, PTL

\* A session that is out of the module has given the lock back, unless it has
\* met one of the two paths that leave it locked; and a pinentry nobody owns was
\* left by a session for ssh.
THEOREM PinGivenBack == PinSpec => []GivenBack
BY PinInvariant, PinParts, PTL

=============================================================================
