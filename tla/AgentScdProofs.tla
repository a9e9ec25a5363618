--------------------------- MODULE AgentScdProofs ---------------------------
(***************************************************************************)
(* Proofs about AgentScd, for any number of sessions.  The properties are  *)
(* nearly inductive together; what they need besides is who has            *)
(* start_scd_lock and what that keeps from changing, that a session has no *)
(* connection before it is given one, and that one in agent_reset_scd has  *)
(* lost the pipe only to a ticker that no new scdaemon has followed yet.   *)
(***************************************************************************)
EXTENDS AgentScd, TLAPS

LockKept ==
  \A s \in Session :
    /\ startLock = s <=> scd[s] \in {"connect", "handshake"}
    /\ scd[s] = "connect" => primary
    /\ scd[s] = "handshake" => ~ primary

NotYet ==
  \A s \in Session :
    scd[s] \in {"off", "lock", "connect", "handshake", "query"} => ctx[s] = "none"

PipeReset ==
  \A s \in Session :
    scd[s] = "restart" => /\ ctx[s] # "socket"
                          /\ ctx[s] = "none" => ~ primary

ScdIInv ==
  /\ ScdTypeOK /\ OneOnPipe /\ PipeNotLost /\ NoStaleContext /\ NotForgotten
  /\ LockKept /\ NotYet /\ PipeReset

\* Initially there is no scdaemon and no session.
LEMMA ScdInitial == ScdInit => ScdIInv
<1>. SUFFICES ASSUME ScdInit PROVE ScdIInv
  OBVIOUS
<1>. USE SessionAssumption DEF ScdInit
<1>1. ScdTypeOK
  BY DEF ScdTypeOK
<1>2. OneOnPipe /\ PipeNotLost /\ NoStaleContext /\ NotForgotten
  BY DEF OneOnPipe, PipeNotLost, NoStaleContext, NotForgotten
<1>3. LockKept /\ NotYet /\ PipeReset
  BY DEF LockKept, NotYet, PipeReset
<1>. QED
  BY <1>1, <1>2, <1>3 DEF ScdIInv

\* Every step keeps the invariant.
LEMMA ScdStepKeeps == ScdIInv /\ [ScdNext]_scdVars => ScdIInv'
<1>. SUFFICES ASSUME ScdIInv, [ScdNext]_scdVars PROVE ScdIInv'
  OBVIOUS
<1>. USE SessionAssumption
     DEF ScdIInv, ScdGoto, SetCtx, conns, Connected, Returning, ScdTypeOK, OneOnPipe,
         PipeNotLost, NoStaleContext, NotForgotten, LockKept, NotYet, PipeReset
<1>1. ASSUME NEW s \in Session, Begin(s) PROVE ScdIInv'
  BY <1>1 DEF Begin
<1>2. ASSUME NEW s \in Session, StartScd(s) PROVE ScdIInv'
  BY <1>2 DEF StartScd
<1>3. ASSUME NEW s \in Session, Reuse(s) PROVE ScdIInv'
  BY <1>3 DEF Reuse
<1>4. ASSUME NEW s \in Session, StartFails(s) PROVE ScdIInv'
  BY <1>4 DEF StartFails
<1>5. ASSUME NEW s \in Session, Connect(s) PROVE ScdIInv'
  BY <1>5 DEF Connect
<1>6. ASSUME NEW s \in Session, SocketOpen(s) PROVE ScdIInv'
  BY <1>6 DEF SocketOpen
<1>7. ASSUME NEW s \in Session, ConnectFails(s) PROVE ScdIInv'
  BY <1>7 DEF ConnectFails
<1>8. ASSUME NEW s \in Session, Spawn(s) PROVE ScdIInv'
  BY <1>8 DEF Spawn
<1>9. ASSUME NEW s \in Session, SpawnFails(s) PROVE ScdIInv'
  BY <1>9 DEF SpawnFails
<1>10. ASSUME NEW s \in Session, Started(s) PROVE ScdIInv'
  BY <1>10 DEF Started
<1>11. ASSUME NEW s \in Session, Needpin(s) PROVE ScdIInv'
  BY <1>11 DEF Needpin
<1>12. ASSUME NEW s \in Session, Popup(s) PROVE ScdIInv'
  BY <1>12 DEF Popup
<1>13. ASSUME NEW s \in Session, PinDone(s) PROVE ScdIInv'
  BY <1>13 DEF PinDone
<1>14. ASSUME NEW s \in Session, PopupDone(s) PROVE ScdIInv'
  BY <1>14 DEF PopupDone
<1>15. ASSUME NEW s \in Session, PopupFails(s) PROVE ScdIInv'
  BY <1>15 DEF PopupFails
<1>16. ASSUME NEW s \in Session, Dismiss(s) PROVE ScdIInv'
  BY <1>16 DEF Dismiss
<1>17. ASSUME NEW s \in Session, Dismissed(s) PROVE ScdIInv'
  BY <1>17 DEF Dismissed
<1>18. ASSUME NEW s \in Session, KeypadLost(s) PROVE ScdIInv'
  BY <1>18 DEF KeypadLost
<1>19. ASSUME NEW s \in Session, Done(s) PROVE ScdIInv'
  BY <1>19 DEF Done
<1>20. ASSUME NEW s \in Session, NotOperational(s) PROVE ScdIInv'
  BY <1>20 DEF NotOperational
<1>21. ASSUME NEW s \in Session, Reset(s) PROVE ScdIInv'
  BY <1>21 DEF Reset
<1>22. ASSUME NEW s \in Session, Restarted(s) PROVE ScdIInv'
  BY <1>22 DEF Restarted
<1>23. ASSUME NEW s \in Session, End(s) PROVE ScdIInv'
  BY <1>23 DEF End
<1>24. CASE CheckAliveness
  BY <1>24 DEF CheckAliveness
<1>25. CASE Die
  BY <1>25 DEF Die
<1>26. CASE UNCHANGED scdVars
  BY <1>26 DEF scdVars
<1>. QED
  BY <1>1, <1>2, <1>3, <1>4, <1>5, <1>6, <1>7, <1>8, <1>9, <1>10, <1>11,
     <1>12, <1>13, <1>14, <1>15, <1>16, <1>17, <1>18, <1>19, <1>20, <1>21,
     <1>22, <1>23, <1>24, <1>25, <1>26 DEF ScdNext, Start, Talk, Answer

-----------------------------------------------------------------------------
\* The invariant above holds in every state the connections can get into.
THEOREM ScdInvariant == ScdSpec => []ScdIInv
BY ScdInitial, ScdStepKeeps, PTL DEF ScdSpec

\* What the invariant says of each property, on its own.
LEMMA ScdParts ==
  ScdIInv => ScdTypeOK /\ PipeOwned /\ NoStaleContext /\ NotForgotten
BY DEF ScdIInv, PipeOwned

\* No two sessions talk on the pipe to scdaemon, for any number of sessions
\* that start, end and lose scdaemon in any order; and if it may not be reused,
\* a session has it.
THEOREM ScdPipeOwned == ScdSpec => []PipeOwned
BY ScdInvariant, ScdParts, PTL

\* When the primary connection has been cleaned up, no session has one.
THEOREM ScdNoStaleContext == ScdSpec => []NoStaleContext
BY ScdInvariant, ScdParts, PTL

\* A running scdaemon is the one of the primary connection, or just saying
\* hello.
THEOREM ScdNotForgotten == ScdSpec => []NotForgotten
BY ScdInvariant, ScdParts, PTL

-----------------------------------------------------------------------------
\* Where a connection in use gets lost: only if scdaemon dies while a user is
\* asked for a PIN or a prompt is brought up, which AgentContextFreed shows.
\* Nothing that other sessions do, and no end of scdaemon at another time, takes
\* it away.
NobodyAsked == daemon = "dead" => \A s \in Session : scd[s] \notin {"pin", "prompt"}

\* Each step keeps it then; the ticker is the one that could take it.
LEMMA InUseStep ==
  ScdTypeOK /\ NobodyAsked /\ InUseStays /\ [ScdNext]_scdVars => InUseStays'
<1>. SUFFICES ASSUME ScdTypeOK, NobodyAsked, InUseStays, [ScdNext]_scdVars
              PROVE  InUseStays'
  OBVIOUS
<1>. USE DEF ScdTypeOK, InUseStays, ScdGoto, SetCtx
<1>1. ASSUME NEW s \in Session,
             Begin(s) \/ StartScd(s) \/ Reset(s) \/ Restarted(s) \/ End(s)
      PROVE  InUseStays'
  BY <1>1 DEF Begin, StartScd, Reset, Restarted, End
<1>2. ASSUME NEW s \in Session, Start(s) PROVE InUseStays'
  BY <1>2 DEF Start, Reuse, StartFails, Connect, Spawn, SocketOpen, ConnectFails,
       Started, SpawnFails
<1>3. ASSUME NEW s \in Session, Talk(s) PROVE InUseStays'
  BY <1>3 DEF Talk, Done, NotOperational, Needpin, Popup, Connected
<1>4. ASSUME NEW s \in Session, Answer(s) PROVE InUseStays'
  BY <1>4 DEF Answer, PinDone, PopupDone, PopupFails, Dismiss, Dismissed, KeypadLost
<1>5. CASE CheckAliveness \/ Die
  BY <1>5 DEF CheckAliveness, Die, NobodyAsked
<1>6. CASE UNCHANGED scdVars
  BY <1>6 DEF scdVars
<1>. QED
  BY <1>1, <1>2, <1>3, <1>4, <1>5, <1>6 DEF ScdNext

\* In every behaviour in which scdaemon is never dead while a user is asked, a
\* session that asks keeps its connection.  The proof needs nothing of
\* start_scd_lock, on which the comment in agent_scd_check_aliveness relies.
THEOREM ScdInUse == ScdSpec /\ []NobodyAsked => []InUseStays
<1>1. ScdInit => InUseStays
  BY DEF ScdInit, InUseStays
<1>2. ScdIInv => ScdTypeOK
  BY DEF ScdIInv
<1>. QED
  BY <1>1, <1>2, InUseStep, ScdInvariant, PTL DEF ScdSpec

=============================================================================
