----------------------------- MODULE Pinentry -----------------------------
(***************************************************************************)
(* The one pinentry of gpg-agent and the sessions that want it             *)
(* (agent/call-pinentry.c).                                                *)
(*                                                                         *)
(* entry_lock is a mutex of GNU Pth: its owner may take it again, then it  *)
(* counts; nobody else can release it; and what a thread holds when it     *)
(* ends is released.  A step goes from one call that lets other threads    *)
(* run to the next: acquiring the mutex, talking to the pinentry, joining  *)
(* a thread.                                                               *)
(*                                                                         *)
(* pin of a session: "out" of the module, "wait" for the mutex, "launch"   *)
(* a pinentry, "ask" it something, "up" between agent_popup_message_start  *)
(* and _stop, "join" in agent_popup_message_stop, "gone" after its last    *)
(* call.  kind tells what a session is here for: a dialog, a popup, or     *)
(* the end of its connection.                                              *)
(*                                                                         *)
(* pinentry_active_p takes the mutex and gives it back, and is left out.   *)
(*                                                                         *)
(* Op_Slip is Op with a plausible slip in it, to show that the properties  *)
(* notice; no other definition uses it.                                    *)
(***************************************************************************)
EXTENDS AgentBase, Naturals

CONSTANT MaxCount  \* bound: how often a session takes the mutex again

ASSUME PinAssumption == MaxCount \in Nat \ {0}

VARIABLES
  entryLock, entryCount,  \* owner and count of entry_lock
  entryCtx,               \* entry_ctx is set
  entryOwner,             \* entry_owner
  popup,                  \* "none", or the popup thread of popup_tid: it is
                          \* "shown", or "finished" (popup_finished)
  pin, kind,              \* where a session is, and for what
  trouble                 \* sessions that left a popup up, or the mutex locked
                          \* when memory ran out

pinVars == <<entryLock, entryCount, entryCtx, entryOwner, popup, pin, kind, trouble>>

\* The types, and entry_lock is locked as often as its count says.
PinTypeOK ==
  /\ entryLock \in Session \cup {NoSession}
  /\ entryCount \in Nat /\ (entryCount = 0 <=> entryLock = NoSession)
  /\ entryCtx \in BOOLEAN
  /\ entryOwner \in Session \cup {NoSession}
  /\ popup \in {"none", "shown", "finished"}
  /\ pin \in [Session -> {"out", "wait", "launch", "ask", "up", "join", "gone"}]
  /\ kind \in [Session -> {"none", "dialog", "popup", "end"}]
  /\ trouble \subseteq Session

PinInit ==
  /\ entryLock = NoSession /\ entryCount = 0
  /\ entryCtx = FALSE
  /\ entryOwner = NoSession
  /\ popup = "none"
  /\ pin = [s \in Session |-> "out"]
  /\ kind = [s \in Session |-> "none"]
  /\ trouble = {}

PinGoto(s, from, to) == pin[s] = from /\ pin' = [pin EXCEPT ![s] = to]
For(s, k) == kind' = [kind EXCEPT ![s] = k]
Return(s, from) == PinGoto(s, from, "out") /\ For(s, "none")

-----------------------------------------------------------------------------
\* The mutex, as a thread sees it.
Take(s) ==
  /\ entryLock \in {NoSession, s}
  /\ entryLock' = s
  /\ entryCount' = entryCount + 1

Release(s) ==
  IF entryLock = s
    THEN /\ entryCount' = entryCount - 1
         /\ entryLock' = IF entryCount = 1 THEN NoSession ELSE s
    ELSE UNCHANGED <<entryLock, entryCount>>

\* unlock_pinentry.  The pinentry is told to go after that.
UnlockPinentry(s) == entryCtx' = FALSE /\ Release(s)

-----------------------------------------------------------------------------
\* A session calls agent_askpin, agent_get_passphrase and the like ("dialog"),
\* or agent_popup_message_start; start_pinentry waits for the mutex.
StartPinentry(s, k) ==
  /\ PinGoto(s, "out", "wait")
  /\ entryLock = s => entryCount < MaxCount
  /\ For(s, k)
  /\ UNCHANGED <<entryLock, entryCount, entryCtx, entryOwner, popup, trouble>>

\* GPG_ERR_TIMEOUT
TimedOut(s) ==
  /\ Return(s, "wait")
  /\ entryLock \notin {NoSession, s}
  /\ UNCHANGED <<entryLock, entryCount, entryCtx, entryOwner, popup, trouble>>

\* Slip: tests entry_ctx first, and takes the mutex only for a new pinentry.
Acquired_Slip(s) ==
  /\ PinGoto(s, "wait", IF entryCtx THEN "ask" ELSE "launch")
  /\ IF entryCtx THEN UNCHANGED <<entryLock, entryCount>> ELSE Take(s)
  /\ entryOwner' = s
  /\ UNCHANGED <<entryCtx, popup, kind, trouble>>

\* A pinentry that is still there is used again.
Acquired(s) ==
  /\ PinGoto(s, "wait", IF entryCtx THEN "ask" ELSE "launch")
  /\ Take(s)
  /\ entryOwner' = s
  /\ UNCHANGED <<entryCtx, popup, kind, trouble>>

\* assuan_new fails and the mutex stays locked.
OutOfCore(s) ==
  /\ Return(s, "wait")
  /\ ~ entryCtx
  /\ Take(s)
  /\ entryOwner' = s
  /\ trouble' = trouble \cup {s}
  /\ UNCHANGED <<entryCtx, popup>>

Launched(s) ==
  /\ PinGoto(s, "launch", "ask")
  /\ entryCtx' = TRUE
  /\ UNCHANGED <<entryLock, entryCount, entryOwner, popup, kind, trouble>>

\* Slip: returns the error as it is.
LaunchFails_Slip(s) ==
  /\ Return(s, "launch")
  /\ UNCHANGED <<entryLock, entryCount, entryCtx, entryOwner, popup, trouble>>

\* GPG_ERR_NO_PIN_ENTRY
LaunchFails(s) ==
  /\ Return(s, "launch")
  /\ UnlockPinentry(s)
  /\ UNCHANGED <<entryOwner, popup, trouble>>

\* The user has answered; or an option, the client's answer to
\* PINENTRY_LAUNCHED, the text or the popup thread has failed.
Answered(s) ==
  /\ Return(s, "ask")
  /\ UnlockPinentry(s)
  /\ UNCHANGED <<entryOwner, popup, trouble>>

\* The rest of agent_popup_message_start.  The thread of an earlier popup
\* that nobody has stopped is forgotten.
PopupShown(s) ==
  /\ PinGoto(s, "ask", "up")
  /\ kind[s] = "popup"
  /\ popup' = "shown"
  /\ UNCHANGED <<entryLock, entryCount, entryCtx, entryOwner, kind, trouble>>

\* popup_message_thread: the user closes the popup, or agent_popup_message_stop
\* has killed the pinentry.
PopupEnds ==
  /\ popup = "shown"
  /\ popup' = "finished"
  /\ UNCHANGED <<entryLock, entryCount, entryCtx, entryOwner, pin, kind, trouble>>

-----------------------------------------------------------------------------
\* agent_popup_message_stop, up to pth_join
Stop(s) ==
  /\ PinGoto(s, "up", IF popup # "none" /\ entryCtx THEN "join" ELSE "out")
  /\ UNCHANGED <<entryLock, entryCount, entryCtx, entryOwner, popup, kind, trouble>>

\* Slip: forgets that the popup has gone.
Joined_Slip(s) ==
  /\ PinGoto(s, "join", IF kind[s] = "end" THEN "gone" ELSE "out")
  /\ For(s, IF kind[s] = "end" THEN "end" ELSE "none")
  /\ popup = "finished"
  /\ entryOwner' = NoSession
  /\ UnlockPinentry(s)
  /\ UNCHANGED <<popup, trouble>>

Joined(s) ==
  /\ PinGoto(s, "join", IF kind[s] = "end" THEN "gone" ELSE "out")
  /\ For(s, IF kind[s] = "end" THEN "end" ELSE "none")
  /\ popup = "finished"
  /\ popup' = "none"
  /\ entryOwner' = NoSession
  /\ UnlockPinentry(s)
  /\ UNCHANGED trouble

\* The card command ends without DISMISSKEYPADPROMPT, since scdaemon has died.
Abandon(s) ==
  /\ Return(s, "up")
  /\ trouble' = trouble \cup {s}
  /\ UNCHANGED <<entryLock, entryCount, entryCtx, entryOwner, popup>>

\* The end of a connection: agent_reset_query, which is not called for ssh.
ResetQuery(s) ==
  /\ PinGoto(s, "out",
       IF s \notin Ssh /\ entryCtx /\ popup # "none" /\ entryOwner = s
         THEN "join" ELSE "gone")
  /\ For(s, "end")
  /\ UNCHANGED <<entryLock, entryCount, entryCtx, entryOwner, popup, trouble>>

\* Slip: the count stays.
ThreadEnds_Slip(s) ==
  /\ Return(s, "gone")
  /\ entryLock' = IF entryLock = s THEN NoSession ELSE entryLock
  /\ trouble' = IF popup # "none" THEN trouble ELSE trouble \ {s}
  /\ UNCHANGED <<entryCount, entryCtx, entryOwner, popup>>

\* Pth releases the mutex when the thread ends.
ThreadEnds(s) ==
  /\ Return(s, "gone")
  /\ entryLock' = IF entryLock = s THEN NoSession ELSE entryLock
  /\ entryCount' = IF entryLock = s THEN 0 ELSE entryCount
  /\ trouble' = IF popup # "none" THEN trouble ELSE trouble \ {s}
  /\ UNCHANGED <<entryCtx, entryOwner, popup>>

\* What a session does in a call it has made.
Pin(s) ==
  \/ TimedOut(s) \/ Acquired(s) \/ OutOfCore(s)
  \/ Launched(s) \/ LaunchFails(s)
  \/ Answered(s) \/ PopupShown(s) \/ Joined(s)

PinNext ==
  \/ \E s \in Session :
       \/ Pin(s) \/ Stop(s) \/ Abandon(s)
       \/ ResetQuery(s) \/ ThreadEnds(s)
       \/ \E k \in {"dialog", "popup"} : StartPinentry(s, k)
  \/ PopupEnds

PinSpec == PinInit /\ [][PinNext]_pinVars

-----------------------------------------------------------------------------
\* "Note, that this function must always be used to aquire the lock for the
\* pinentry - we will serialize _all_ pinentry calls": who starts a pinentry,
\* talks to it or has a popup up is the one owner of the lock, and talks to a
\* pinentry that is there.  Nothing another session does, and no popup that
\* was left up, takes the lock or the pinentry away from it.
InUse == {s \in Session : pin[s] \in {"launch", "ask", "up", "join"}}
OwnerTalks ==
  \A s \in InUse :
    /\ entryLock = s
    /\ pin[s] # "launch" => entryCtx
    /\ entryOwner = s

\* The popup thread talks to the pinentry while no session does (its own one
\* waits in the card command), except for a popup that nobody takes down.
PopupAlone ==
  (popup # "none" /\ trouble = {})
    => \E s \in InUse : pin[s] \in {"up", "join"}

\* A session gives the lock back when it returns, in spite of all the error
\* paths and of the count; but not if memory ran out in assuan_new.
LockGivenBack ==
  \A s \in Session : (entryLock = s /\ pin[s] = "out") => s \in trouble

\* A pinentry that nobody owns is one that a session for ssh has left.
NoContextLeft == (entryCtx /\ entryLock = NoSession) => entryOwner \in Ssh

\* When nobody is in a dialog the next session finds the lock free and no old
\* pinentry, with these exceptions.
GivenBack == LockGivenBack /\ NoContextLeft
=============================================================================
