---------------------------- MODULE AgentCalls ----------------------------
(***************************************************************************)
(* gpg-agent between its clients, scdaemon and pinentry: the sessions of   *)
(* AgentScd, whose card commands ask for PINs and show prompts through the *)
(* module of Pinentry (agent/divert-scd.c), which other commands use, too. *)
(* Each step is one of AgentScd, one of Pinentry or a call from the one    *)
(* into the other; so all that holds of the two holds here.                *)
(***************************************************************************)
EXTENDS AgentScd, Pinentry

vars == <<scdVars, pinVars>>

Init == ScdInit /\ PinInit

\* A call into call-pinentry.c has returned.
Back(s) == pin[s] = "out"

\* What call-scd.c does by itself.
ScdStep(s) ==
  /\ \/ Begin(s) \/ Start(s) \/ Done(s) \/ NotOperational(s) \/ Restarted(s)
     \/ Back(s) /\ (StartScd(s) \/ Reset(s))
     \/ Back(s) /\ (PinDone(s) \/ PopupFails(s) \/ Dismissed(s))
     \/ pin[s] = "up" /\ PopupDone(s)
  /\ UNCHANGED pinVars

\* getpin_cb asks for a PIN (and, for a new one, once more: not told apart from
\* another NEEDPIN), other commands for a passphrase.
AskPin(s) ==
  /\ Needpin(s) \/ (scd[s] = "idle" /\ UNCHANGED scdVars)
  /\ StartPinentry(s, "dialog")

\* getpin_cb for POPUPKEYPADPROMPT
ShowPopup(s) == Popup(s) /\ StartPinentry(s, "popup")

\* getpin_cb for DISMISSKEYPADPROMPT
StopPopup(s) == Dismiss(s) /\ Stop(s)

\* No DISMISSKEYPADPROMPT
LosePopup(s) == KeypadLost(s) /\ Abandon(s)

\* The end of start_command_handler or start_command_handler_ssh
QueryStep(s) == scd[s] = "query" /\ ResetQuery(s) /\ UNCHANGED scdVars
EndSession(s) == End(s) /\ ThreadEnds(s)

PinStep(s) == Pin(s) /\ UNCHANGED scdVars

Next ==
  \/ \E s \in Session :
       \/ ScdStep(s) \/ AskPin(s) \/ ShowPopup(s) \/ StopPopup(s) \/ LosePopup(s)
       \/ QueryStep(s) \/ EndSession(s) \/ PinStep(s)
  \/ (CheckAliveness \/ Die) /\ UNCHANGED pinVars
  \/ PopupEnds /\ UNCHANGED scdVars

Spec == Init /\ [][Next]_vars

\* What a session does in a command or at its end by itself.
Thread(s) ==
  \/ StopPopup(s) \/ LosePopup(s) \/ QueryStep(s) \/ EndSession(s) \/ PinStep(s)
  \/ ScdStep(s) /\ scd[s] \in {"pin", "prompt", "dismiss", "restart"}

\* A thread that can go on does, users close their dialogs, Pth gives a mutex
\* to the waiting threads in turn, scdaemon does not ask for a PIN for ever in
\* one command, the ticker comes again and again, a killed pinentry ends.
Fairness ==
  /\ \A s \in Session :
       /\ WF_vars(Thread(s))
       /\ SF_vars((Start(s) \/ Done(s) \/ NotOperational(s)) /\ UNCHANGED pinVars)
  /\ SF_vars(CheckAliveness /\ UNCHANGED pinVars)
  /\ WF_vars(PopupEnds /\ (\E s \in Session : pin[s] = "join") /\ UNCHANGED scdVars)

FairSpec == Spec /\ Fairness

-----------------------------------------------------------------------------
\* The types of both.
TypeOK == ScdTypeOK /\ PinTypeOK

\* A session that has ended has nothing any more: no connection, neither
\* lock, no place in a dialog.
EndsClean ==
  \A s \in Session :
    scd[s] = "off" => /\ ctx[s] = "none" /\ startLock # s
                      /\ entryLock # s /\ pin[s] = "out"

\* Whatever the sessions hold and wait for, every card command and the end of
\* every connection comes to its end.
CommandsEnd ==
  \A s \in Session : scd[s] \notin {"off", "idle"} ~> scd[s] \in {"off", "idle"}

\* The ticker notices that scdaemon has died, also when the session that has
\* the pipe does not do anything more.
DeathNoticed == daemon = "dead" ~> daemon # "dead"
=============================================================================
