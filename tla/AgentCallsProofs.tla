-------------------------- MODULE AgentCallsProofs --------------------------
(***************************************************************************)
(* The composition AgentCalls implements both of its parts, so what is     *)
(* proved of AgentScd and of Pinentry holds in it; and a session that has  *)
(* ended has left nothing.                                                 *)
(***************************************************************************)
EXTENDS AgentCalls, AgentScdProofs, PinentryProofs

\* Every step of the composition is one of AgentScd, or changes nothing of it.
LEMMA ScdPart == [Next]_vars => [ScdNext]_scdVars
<1>. SUFFICES ASSUME [Next]_vars PROVE [ScdNext]_scdVars
  OBVIOUS
<1>1. ASSUME NEW s \in Session, ScdStep(s) PROVE ScdNext
  BY <1>1 DEF ScdStep, ScdNext, Talk, Answer
<1>2. ASSUME NEW s \in Session, AskPin(s) PROVE [ScdNext]_scdVars
  BY <1>2 DEF AskPin, ScdNext, Talk
<1>3. ASSUME NEW s \in Session, ShowPopup(s) PROVE ScdNext
  BY <1>3 DEF ShowPopup, ScdNext, Talk
<1>4. ASSUME NEW s \in Session, StopPopup(s) \/ LosePopup(s) PROVE ScdNext
  BY <1>4 DEF StopPopup, LosePopup, ScdNext, Answer
<1>5. ASSUME NEW s \in Session, QueryStep(s) \/ PinStep(s) PROVE UNCHANGED scdVars
  BY <1>5 DEF QueryStep, PinStep
<1>6. ASSUME NEW s \in Session, EndSession(s) PROVE ScdNext
  BY <1>6 DEF EndSession, ScdNext
<1>7. ASSUME CheckAliveness \/ Die PROVE ScdNext
  BY <1>7 DEF ScdNext
<1>. QED
  BY <1>1, <1>2, <1>3, <1>4, <1>5, <1>6, <1>7 DEF Next, vars

\* Every step of the composition is one of Pinentry, or changes nothing of it.
LEMMA PinPart == [Next]_vars => [PinNext]_pinVars
<1>. SUFFICES ASSUME [Next]_vars PROVE [PinNext]_pinVars
  OBVIOUS
<1>1. ASSUME NEW s \in Session, ScdStep(s) PROVE UNCHANGED pinVars
  BY <1>1 DEF ScdStep
<1>2. ASSUME NEW s \in Session, AskPin(s) \/ ShowPopup(s) PROVE PinNext
  BY <1>2 DEF AskPin, ShowPopup, PinNext
<1>3. ASSUME NEW s \in Session, StopPopup(s) PROVE PinNext
  BY <1>3 DEF StopPopup, PinNext
<1>4. ASSUME NEW s \in Session, LosePopup(s) PROVE PinNext
  BY <1>4 DEF LosePopup, PinNext
<1>5. ASSUME NEW s \in Session, QueryStep(s) PROVE PinNext
  BY <1>5 DEF QueryStep, PinNext
<1>6. ASSUME NEW s \in Session, EndSession(s) PROVE PinNext
  BY <1>6 DEF EndSession, PinNext
<1>7. ASSUME NEW s \in Session, PinStep(s) PROVE PinNext
  BY <1>7 DEF PinStep, PinNext
<1>8. ASSUME PopupEnds PROVE PinNext
  BY <1>8 DEF PinNext
<1>. QED
  BY <1>1, <1>2, <1>3, <1>4, <1>5, <1>6, <1>7, <1>8 DEF Next, vars

\* gpg-agent as a whole behaves, for its connections to scdaemon, as AgentScd.
THEOREM ImplementsScd == Spec => ScdSpec
<1>1. Init => ScdInit
  BY DEF Init
<1>. QED
  BY <1>1, ScdPart, PTL DEF Spec, ScdSpec

\* gpg-agent as a whole behaves, for its dialogs, as Pinentry.
THEOREM ImplementsPin == Spec => PinSpec
<1>1. Init => PinInit
  BY DEF Init
<1>. QED
  BY <1>1, PinPart, PTL DEF Spec, PinSpec

\* The types of both, in the composition.
THEOREM CallsTypeOK == Spec => []TypeOK
<1>1. ScdIInv /\ PinIInv => TypeOK
  BY DEF ScdIInv, PinIInv, TypeOK
<1>. QED
  BY <1>1, ImplementsScd, ImplementsPin, ScdInvariant, PinInvariant, PTL

-----------------------------------------------------------------------------
\* Where a session may be in the one module when it is somewhere in the other.
Where ==
  \A s \in Session :
    /\ scd[s] \in {"off", "lock", "connect", "handshake", "talk", "restart"}
         => pin[s] = "out"
    /\ scd[s] = "off" => entryLock # s
    /\ scd[s] = "keypad" => pin[s] = "up"
    /\ (pin[s] # "out" /\ kind[s] = "end") \/ pin[s] = "gone" => scd[s] = "query"

CallsIInv == ScdIInv /\ PinIInv /\ Where

LEMMA CallsInitial == Init => CallsIInv
<1>. SUFFICES ASSUME Init PROVE CallsIInv
  OBVIOUS
<1>1. ScdIInv /\ PinIInv
  BY ScdInitial, PinInitial DEF Init
<1>2. Where
  BY SessionAssumption DEF Where, Init, ScdInit, PinInit
<1>. QED
  BY <1>1, <1>2 DEF CallsIInv

\* A call into one module is made, and left, only where Where lets it.
LEMMA WhereStep == ScdTypeOK /\ PinTypeOK /\ Where /\ [Next]_vars => Where'
<1>. SUFFICES ASSUME ScdTypeOK, PinTypeOK, Where, [Next]_vars PROVE Where'
  OBVIOUS
<1>. USE SessionAssumption
     DEF ScdTypeOK, PinTypeOK, Where, ScdGoto, PinGoto, For, Return, Back, scdVars, pinVars
<1>1. ASSUME NEW s \in Session, ScdStep(s) PROVE Where'
  <2>1. CASE Begin(s) \/ Done(s) \/ NotOperational(s) \/ Restarted(s)
    BY <1>1, <2>1 DEF ScdStep, Begin, Done, NotOperational, Restarted
  <2>2. CASE Start(s)
    BY <1>1, <2>2 DEF ScdStep, Start, Reuse, StartFails, Connect, Spawn, SocketOpen,
         ConnectFails, Started, SpawnFails
  <2>3. CASE Back(s) /\ (StartScd(s) \/ Reset(s))
    BY <1>1, <2>3 DEF ScdStep, StartScd, Reset
  <2>4. CASE Back(s) /\ (PinDone(s) \/ PopupFails(s) \/ Dismissed(s))
    BY <1>1, <2>4 DEF ScdStep, PinDone, PopupFails, Dismissed
  <2>5. CASE pin[s] = "up" /\ PopupDone(s)
    BY <1>1, <2>5 DEF ScdStep, PopupDone
  <2>. QED
    BY <1>1, <2>1, <2>2, <2>3, <2>4, <2>5 DEF ScdStep
<1>2. ASSUME NEW s \in Session, AskPin(s) PROVE Where'
  BY <1>2 DEF AskPin, Needpin, StartPinentry
<1>3. ASSUME NEW s \in Session, ShowPopup(s) PROVE Where'
  BY <1>3 DEF ShowPopup, Popup, StartPinentry
<1>4. ASSUME NEW s \in Session, StopPopup(s) PROVE Where'
  BY <1>4 DEF StopPopup, Dismiss, Stop
<1>5. ASSUME NEW s \in Session, LosePopup(s) PROVE Where'
  BY <1>5 DEF LosePopup, KeypadLost, Abandon
<1>6. ASSUME NEW s \in Session, QueryStep(s) PROVE Where'
  BY <1>6 DEF QueryStep, ResetQuery
<1>7. ASSUME NEW s \in Session, EndSession(s) PROVE Where'
  BY <1>7 DEF EndSession, End, ThreadEnds
<1>8. ASSUME NEW s \in Session, PinStep(s) PROVE Where'
  <2>1. CASE TimedOut(s) \/ OutOfCore(s)
    BY <1>8, <2>1 DEF PinStep, TimedOut, OutOfCore, Take
  <2>2. CASE Acquired(s) \/ Launched(s) \/ PopupShown(s)
    BY <1>8, <2>2 DEF PinStep, Acquired, Launched, PopupShown, Take
  <2>3. CASE LaunchFails(s) \/ Answered(s) \/ Joined(s)
    BY <1>8, <2>3 DEF PinStep, LaunchFails, Answered, Joined, UnlockPinentry, Release
  <2>. QED
    BY <1>8, <2>1, <2>2, <2>3 DEF PinStep, Pin
<1>9. CASE (CheckAliveness \/ Die) /\ UNCHANGED pinVars
  BY <1>9 DEF CheckAliveness, Die
<1>10. CASE PopupEnds /\ UNCHANGED scdVars
  BY <1>10 DEF PopupEnds
<1>11. CASE UNCHANGED vars
  BY <1>11 DEF vars
<1>. QED
  BY <1>1, <1>2, <1>3, <1>4, <1>5, <1>6, <1>7, <1>8, <1>9, <1>10, <1>11 DEF Next

LEMMA CallsStep == CallsIInv /\ [Next]_vars => CallsIInv'
<1>. SUFFICES ASSUME CallsIInv, [Next]_vars PROVE CallsIInv'
  OBVIOUS
<1>1. ScdIInv' /\ PinIInv'
  BY ScdPart, ScdStepKeeps, PinPart, PinStepKeeps DEF CallsIInv
<1>2. Where'
  BY WhereStep DEF CallsIInv, ScdIInv, PinIInv
<1>. QED
  BY <1>1, <1>2 DEF CallsIInv

\* A session that has ended keeps no connection, neither lock and no place in
\* a dialog, whatever the ones after it find there.
THEOREM CallsEndsClean == Spec => []EndsClean
<1>1. CallsIInv => EndsClean
  BY DEF CallsIInv, ScdIInv, LockKept, NotYet, Where, EndsClean
<1>. QED
  BY <1>1, CallsInitial, CallsStep, PTL DEF Spec

-----------------------------------------------------------------------------
\* The two locks of gpg-agent, start_scd_lock and entry_lock, are never waited
\* for in a circle: when a session waits for one, the owner of one of the two is
\* a session that waits for neither.  For who has start_scd_lock asks nobody for
\* anything, though a session that left entry_lock locked may want it.
Blocked(s) ==
  \/ scd[s] = "lock" /\ startLock # NoSession
  \/ pin[s] = "wait" /\ entryLock \notin {NoSession, s}
NoCircle ==
  (\E s \in Session : Blocked(s)) => \E u \in {startLock, entryLock} \cap Session : ~ Blocked(u)

THEOREM CallsNoCircle == Spec => []NoCircle
<1>1. ASSUME CallsIInv, NEW s \in Session, Blocked(s)
      PROVE  \E u \in {startLock, entryLock} \cap Session : ~ Blocked(u)
  <2>1. startLock \in Session \cup {NoSession} /\ entryLock \in Session \cup {NoSession}
    BY <1>1 DEF CallsIInv, ScdIInv, ScdTypeOK, PinIInv, PinTypeOK
  <2>2. CASE startLock # NoSession
    <3>1. scd[startLock] \in {"connect", "handshake"} /\ pin[startLock] = "out"
      BY <2>1, <2>2, <1>1 DEF CallsIInv, ScdIInv, LockKept, Where
    <3> QED
      BY <2>1, <2>2, <3>1 DEF Blocked
  <2>3. CASE startLock = NoSession
    <3>1. entryLock \in Session /\ ~ Blocked(entryLock)
      BY <1>1, <2>1, <2>3 DEF Blocked
    <3> QED
      BY <3>1
  <2> QED
    BY <2>2, <2>3
<1>2. CallsIInv => NoCircle
  BY <1>1 DEF NoCircle
<1>. QED
  BY <1>2, CallsInitial, CallsStep, PTL DEF Spec

=============================================================================
