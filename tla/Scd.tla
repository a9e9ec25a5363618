-------------------------------- MODULE Scd --------------------------------
(***************************************************************************)
(* The sessions of scdaemon and the application they share (scd/command.c  *)
(* and scd/app.c), with the one reader the code can open.                  *)
(*                                                                         *)
(* Sessions and ticker are threads of GNU Pth: another one runs only where *)
(* one blocks.  That is at lock_reader and status_file_update_lock when    *)
(* they are taken, in apdu_connect, apdu_reset and the I/O of              *)
(* select_application, and in an operation on the card, which asks the     *)
(* client for a PIN.  A step goes from one of these points to the next,    *)
(* and the step in which a command gets a lock releases its session from   *)
(* waiting.                                                                *)
(*                                                                         *)
(* pc of a session: "idle" between commands, "select" before lock_reader   *)
(* in select_application, "probe" reading a card, "work" before            *)
(* lock_reader in one of the app_ functions, "busy" in one, "notify" in    *)
(* application_notify_card_reset, "renotify" in apdu_reset or the same in  *)
(* do_reset, and "status" before status_file_update_lock.  A session that  *)
(* is in "probe" or "busy" holds the lock of the reader; the ticker holds  *)
(* status_file_update_lock when it waits in "notify".                      *)
(*                                                                         *)
(* Left out: readers without a driver, KILLSCD, DISCONNECT with its        *)
(* card-timeout, event signals and the status file.                        *)
(*                                                                         *)
(* Op_Slip is Op with a plausible slip in it, to show that the properties  *)
(* notice; no other definition uses it.                                    *)
(***************************************************************************)
EXTENDS Integers, FiniteSets

CONSTANTS
  Session,  \* the connections, server_local is the memory of one
  App,      \* the memory of application contexts
  NoApp,    \* a null pointer
  Card,     \* the cards that get inserted
  NoCard,   \* the reader is empty
  None      \* no session

ASSUME ScdAssumption ==
  /\ NoApp \notin App /\ NoCard \notin Card /\ None \notin Session
  /\ IsFiniteSet(Session)

VARIABLES
  card,      \* what is in the reader
  news,      \* that has changed since update_reader_status_file saw it
  tab,       \* lock_table and the application contexts
  locked,    \* locked_session
  sessions,  \* session_list
  ctrl,      \* app_ctx, reader_slot (TRUE when it is not -1), card_removed and
             \* app_ctx_marked_for_release of the sessions
  pc, cmd,   \* where a session is, and in which command
  ticker     \* "notify" while it waits for the reader, else "idle"

vars == <<card, news, tab, locked, sessions, ctrl, pc, cmd, ticker>>

Free == [ref |-> 0, noReuse |-> FALSE, card |-> NoCard]
Context == [ref : Nat, noReuse : BOOLEAN, card : Card] \cup {Free}
Table == [ctx : [App -> Context], active : App \cup {NoApp}, last : App \cup {NoApp}]
Ctrl == [app : App \cup {NoApp}, slot : BOOLEAN, removed : BOOLEAN, marked : BOOLEAN]

TypeOK ==
  /\ card \in Card \cup {NoCard}
  /\ news \in BOOLEAN
  /\ tab \in Table
  /\ locked \in Session \cup {None}
  /\ sessions \subseteq Session
  /\ ctrl \in [Session -> Ctrl]
  /\ pc \in [Session -> {"idle", "select", "probe", "work", "busy",
                         "notify", "renotify", "status"}]
  /\ cmd \in [Session -> {"none", "use", "serialno", "reset", "end"}]
  /\ ticker \in {"idle", "notify"}

Blank == [app |-> NoApp, slot |-> FALSE, removed |-> FALSE, marked |-> FALSE]

\* The daemon after the first tick, which opens the reader.
Init ==
  /\ card \in Card \cup {NoCard}
  /\ news = FALSE
  /\ tab = [ctx |-> [a \in App |-> Free], active |-> NoApp, last |-> NoApp]
  /\ locked = None
  /\ sessions = {}
  /\ ctrl = [s \in Session |-> Blank]
  /\ pc = [s \in Session |-> "idle"]
  /\ cmd = [s \in Session |-> "none"]
  /\ ticker = "idle"

-----------------------------------------------------------------------------
\* The calls into app.c, as functions on the table.
Freed(ctx, S) == [a \in App |-> IF a \in S THEN Free ELSE ctx[a]]

\* Slip: saves the application even if it is marked no_reuse.
Released_Slip(t, a) ==
  IF t.ctx[a].ref > 1
    THEN [t EXCEPT !.ctx[a].ref = @ - 1]
    ELSE [ctx |-> Freed([t.ctx EXCEPT ![a].ref = 0], {t.last}),
          active |-> NoApp, last |-> a]

\* release_application: the last user saves the application for a later
\* session, unless it is marked no_reuse.
Released(t, a) ==
  IF t.ctx[a].ref > 1
    THEN [t EXCEPT !.ctx[a].ref = @ - 1]
    ELSE LET gone == {t.last} \cup (IF t.ctx[a].noReuse THEN {a} ELSE {})
         IN  [ctx    |-> Freed([t.ctx EXCEPT ![a].ref = 0], gone),
              active |-> NoApp,
              last   |-> IF t.ctx[a].noReuse THEN NoApp ELSE a]

\* Slip: deallocates the saved application but does not forget it.
Notified_Slip(t) == [t EXCEPT !.ctx = Freed(t.ctx, {t.last})]

\* application_notify_card_reset
Notified(t) ==
  [ctx    |-> [a \in App |->
                 IF a = t.last THEN Free
                 ELSE IF a = t.active THEN [t.ctx[a] EXCEPT !.noReuse = TRUE]
                 ELSE t.ctx[a]],
   active |-> t.active,
   last   |-> NoApp]

\* Slip: a saved application is not counted again.
Shared_Slip(t, a) ==
  [ctx |-> IF a = t.last THEN t.ctx ELSE [t.ctx EXCEPT ![a].ref = @ + 1],
   active |-> a, last |-> IF a = t.last THEN NoApp ELSE t.last]

\* select_application: one more session uses a, which is or becomes active.
Shared(t, a) ==
  [ctx |-> [t.ctx EXCEPT ![a].ref = @ + 1], active |-> a,
   last |-> IF a = t.last THEN NoApp ELSE t.last]

\* lock_reader does not block.
ReaderFree == \A s \in Session : pc[s] \notin {"probe", "busy"}

\* update_card_removed, for the sessions on a slot
OnSlot(b) == {s \in sessions : ctrl[s].slot = b}
SetRemoved(S, v) ==
  [s \in Session |-> IF s \in S THEN [ctrl[s] EXCEPT !.removed = v] ELSE ctrl[s]]

\* IS_LOCKED
IsLocked(s) ==
  locked # None /\ locked # s /\ ctrl[s].slot /\ ctrl[locked].slot

Goto(s, l, c) == pc' = [pc EXCEPT ![s] = l] /\ cmd' = [cmd EXCEPT ![s] = c]

\* Where a command goes on that has its application.
Opened(s) == Goto(s, IF cmd[s] = "use" THEN "work" ELSE "idle",
                     IF cmd[s] = "use" THEN "use" ELSE "none")

AwaitsCommand(s) == s \in sessions /\ pc[s] = "idle"

-----------------------------------------------------------------------------
\* scd_command_handler, up to its loop.  The ticker runs in the thread that
\* accepts connections.
Start(s) ==
  /\ s \notin sessions
  /\ ticker = "idle"
  /\ sessions' = sessions \cup {s}
  /\ ctrl' = [ctrl EXCEPT ![s] = [Blank EXCEPT !.slot = TRUE]]
  /\ UNCHANGED <<card, news, tab, locked, pc, cmd, ticker>>

\* The application that s has after it has released one that it may not keep.
Dropped(s) ==
  IF ctrl[s].app = NoApp THEN tab ELSE Released(tab, ctrl[s].app)

Keeps(s) == ctrl[s].app # NoApp /\ ~ ctrl[s].marked

\* A command that goes on with the application it has: what open_card checks.
UseKept(s) ==
  /\ AwaitsCommand(s)
  /\ ~ ctrl[s].removed /\ ~ IsLocked(s) /\ Keeps(s)
  /\ Goto(s, "work", "use")
  /\ UNCHANGED <<card, news, tab, locked, sessions, ctrl, ticker>>

\* open_card, up to apdu_connect
OpenCard(s, c) ==
  /\ AwaitsCommand(s)
  /\ ~ ctrl[s].removed /\ ~ IsLocked(s) /\ ~ Keeps(s)
  /\ tab' = Dropped(s)
  /\ ctrl' = [ctrl EXCEPT ![s] = [@ EXCEPT !.app = NoApp, !.marked = FALSE,
                                           !.slot = TRUE]]
  /\ Goto(s, "select", c)
  /\ UNCHANGED <<card, news, locked, sessions, ticker>>

\* apdu_connect fails, though not for want of a card.
ConnectFails(s) ==
  /\ pc[s] = "select"
  /\ Goto(s, "idle", "none")
  /\ UNCHANGED <<card, news, tab, locked, sessions, ctrl, ticker>>

\* TEST_CARD_REMOVAL in a session that does not hold the reader
CardNotPresent(s) ==
  /\ pc[s] = "select"
  /\ card = NoCard
  /\ ctrl' = SetRemoved(OnSlot(TRUE), TRUE)
  /\ IF ReaderFree THEN tab' = Notified(tab) /\ Goto(s, "idle", "none")
     ELSE tab' = tab /\ Goto(s, "notify", cmd[s])
  /\ UNCHANGED <<card, news, locked, sessions, ticker>>

Notify(s) ==
  /\ pc[s] = "notify"
  /\ ReaderFree
  /\ tab' = Notified(tab)
  /\ Goto(s, "idle", "none")
  /\ UNCHANGED <<card, news, locked, sessions, ctrl, ticker>>

Share(s, a) ==
  /\ tab' = Shared(tab, a)
  /\ ctrl' = [ctrl EXCEPT ![s].app = a]
  /\ Opened(s)

\* Slip: reads the card again when the application may not be reused.
Select_Slip(s, fits) ==
  /\ pc[s] = "select"
  /\ ReaderFree
  /\ LET a == tab.active IN
     \/ /\ a # NoApp /\ fits /\ ~ tab.ctx[a].noReuse
        /\ Share(s, a)
     \/ /\ a = NoApp /\ tab.last # NoApp /\ fits
        /\ Share(s, tab.last)
     \/ /\ IF a = NoApp THEN tab.last = NoApp \/ ~ fits
           ELSE ~ fits \/ tab.ctx[a].noReuse
        /\ tab' = [tab EXCEPT !.ctx = Freed(tab.ctx, {tab.last}), !.last = NoApp]
        /\ Goto(s, "probe", cmd[s])
        /\ UNCHANGED ctrl
  /\ UNCHANGED <<card, news, locked, sessions, ticker>>

\* select_application; fits is FALSE when the command names another
\* application than the one at hand.
Select(s, fits) ==
  /\ pc[s] = "select"
  /\ ReaderFree
  /\ LET a == tab.active IN
     \/ /\ a # NoApp /\ fits /\ ~ tab.ctx[a].noReuse
        /\ Share(s, a)
     \/ /\ a # NoApp /\ (~ fits \/ tab.ctx[a].noReuse)
        /\ Goto(s, "idle", "none")
        /\ UNCHANGED <<tab, ctrl>>
     \/ /\ a = NoApp /\ tab.last # NoApp /\ fits
        /\ Share(s, tab.last)
     \/ /\ a = NoApp /\ (tab.last = NoApp \/ ~ fits)
        /\ tab' = [tab EXCEPT !.ctx = Freed(tab.ctx, {tab.last}), !.last = NoApp]
        /\ Goto(s, "probe", cmd[s])
        /\ UNCHANGED ctrl
  /\ UNCHANGED <<card, news, locked, sessions, ticker>>

\* Slip: takes new memory and leaves the saved application where it is.
Found_Slip(s) ==
  /\ pc[s] = "probe"
  /\ card # NoCard
  /\ \E a \in App :
       /\ tab' = [tab EXCEPT
                    !.ctx[a] = [ref |-> 1, noReuse |-> FALSE, card |-> card]]
       /\ ctrl' = [ctrl EXCEPT ![s].app = a]
  /\ Opened(s)
  /\ UNCHANGED <<card, news, locked, sessions, ticker>>

\* select_application has found an application on the card.
Found(s) ==
  /\ pc[s] = "probe"
  /\ card # NoCard
  /\ \E a \in App :
       /\ tab.ctx[a] = Free
       /\ tab' = [tab EXCEPT !.active = a,
                    !.ctx[a] = [ref |-> 1, noReuse |-> FALSE, card |-> card]]
       /\ ctrl' = [ctrl EXCEPT ![s].app = a]
  /\ Opened(s)
  /\ UNCHANGED <<card, news, locked, sessions, ticker>>

\* Slip: an operation that fails returns without unlock_reader.
Leave_Slip(s) ==
  /\ pc[s] = "probe"
  /\ Goto(s, "idle", "none")
  /\ UNCHANGED <<card, news, tab, locked, sessions, ctrl, ticker>>

\* It has not, or memory is used up; or an operation ends.
Leave(s) ==
  /\ pc[s] \in {"probe", "busy"}
  /\ Goto(s, "idle", "none")
  /\ UNCHANGED <<card, news, tab, locked, sessions, ctrl, ticker>>

\* The same with TEST_CARD_REMOVAL; the reader is free again before that.
LeaveRemoved(s) ==
  /\ pc[s] \in {"probe", "busy"}
  /\ card = NoCard
  /\ ctrl' = SetRemoved(OnSlot(TRUE), TRUE)
  /\ tab' = Notified(tab)
  /\ Goto(s, "idle", "none")
  /\ UNCHANGED <<card, news, locked, sessions, ticker>>

\* app_sign and the like get the lock of the reader.
Work(s) ==
  /\ pc[s] = "work"
  /\ ReaderFree
  /\ Goto(s, "busy", "use")
  /\ UNCHANGED <<card, news, tab, locked, sessions, ctrl, ticker>>

-----------------------------------------------------------------------------
\* Slip: keeps the lock.
Unlocks_Slip(s) == UNCHANGED locked

Unlocks(s) == locked' = IF locked = s THEN None ELSE locked

\* do_reset up to apdu_reset, for RESET, for SERIALNO after a removal, and
\* without sending a RESET to the card for the end of a session.  apdu_reset
\* does not hold the lock of the reader, so others go on meanwhile.
Reset(s, c) ==
  /\ AwaitsCommand(s)
  /\ c = "serialno" => ctrl[s].removed /\ ~ IsLocked(s)
  /\ ctrl' = [u \in Session |->
       [ctrl[u] EXCEPT
          !.app = IF u = s THEN NoApp ELSE @,
          !.marked = @ \/ (/\ c # "end" /\ ctrl[s].app # NoApp
                           /\ u \in OnSlot(ctrl[s].slot))]]
  /\ tab' = Dropped(s)
  /\ IF c # "end" /\ ctrl[s].slot /\ ~ IsLocked(s)
       THEN Goto(s, "renotify", c) /\ UNCHANGED locked
       ELSE Goto(s, "status", c) /\ Unlocks(s)
  /\ UNCHANGED <<card, news, sessions, ticker>>

\* The card is reset, and the reader free.
Renotify(s) ==
  /\ pc[s] = "renotify"
  /\ ReaderFree
  /\ tab' = Notified(tab)
  /\ Goto(s, "status", cmd[s])
  /\ Unlocks(s)
  /\ UNCHANGED <<card, news, sessions, ctrl, ticker>>

\* The rest of do_reset, under status_file_update_lock.  The reader does not
\* tell its status while it is at work.  SERIALNO goes on with open_card.
ResetStatus(s) ==
  /\ pc[s] = "status"
  /\ ticker = "idle"
  /\ news' = FALSE \/ (~ ReaderFree /\ news' = news)
  /\ LET cleared == SetRemoved(OnSlot(ctrl[s].slot), FALSE) IN
     \/ /\ cmd[s] = "reset"
        /\ ctrl' = [cleared EXCEPT ![s].slot = FALSE]
        /\ Goto(s, "idle", "none")
        /\ UNCHANGED sessions
     \/ /\ cmd[s] = "serialno"
        /\ ctrl' = [cleared EXCEPT ![s] = [@ EXCEPT !.slot = TRUE, !.marked = FALSE]]
        /\ Goto(s, "select", "serialno")
        /\ UNCHANGED sessions
     \/ /\ cmd[s] = "end"
        /\ ctrl' = [cleared EXCEPT ![s] = Blank]
        /\ sessions' = sessions \ {s}
        /\ Goto(s, "idle", "none")
  /\ UNCHANGED <<card, tab, locked, ticker>>

\* cmd_restart
Restart(s) ==
  /\ AwaitsCommand(s)
  /\ tab' = Dropped(s)
  /\ ctrl' = [ctrl EXCEPT ![s].app = NoApp]
  /\ Unlocks(s)
  /\ UNCHANGED <<card, news, sessions, pc, cmd, ticker>>

\* cmd_lock, where --wait tries again every second, and cmd_unlock
Lock(s) ==
  /\ AwaitsCommand(s)
  /\ locked = None
  /\ locked' = s
  /\ UNCHANGED <<card, news, tab, sessions, ctrl, pc, cmd, ticker>>

Unlock(s) ==
  /\ AwaitsCommand(s)
  /\ locked = s
  /\ locked' = None
  /\ UNCHANGED <<card, news, tab, sessions, ctrl, pc, cmd, ticker>>

-----------------------------------------------------------------------------
\* scd_update_reader_status_file
Tick ==
  /\ ticker = "idle"
  /\ news
  /\ news' = FALSE
  /\ ctrl' = SetRemoved(OnSlot(TRUE), TRUE)
  /\ IF ReaderFree THEN tab' = Notified(tab) /\ UNCHANGED ticker
     ELSE ticker' = "notify" /\ UNCHANGED tab
  /\ UNCHANGED <<card, locked, sessions, pc, cmd>>

TickNotify ==
  /\ ticker = "notify"
  /\ ReaderFree
  /\ tab' = Notified(tab)
  /\ ticker' = "idle"
  /\ UNCHANGED <<card, news, locked, sessions, ctrl, pc, cmd>>

\* The user inserts or removes a card.
Change ==
  /\ card' \in IF card = NoCard THEN Card ELSE {NoCard}
  /\ news' = TRUE
  /\ UNCHANGED <<tab, locked, sessions, ctrl, pc, cmd, ticker>>

Command(s) ==
  \/ UseKept(s) \/ Restart(s) \/ Lock(s) \/ Unlock(s)
  \/ \E c \in {"use", "serialno"} : OpenCard(s, c)
  \/ \E c \in {"reset", "serialno", "end"} : Reset(s, c)

\* What a session does in a command, once it can; a connection need not fail.
Proceed(s) ==
  \/ CardNotPresent(s) \/ Notify(s)
  \/ \E fits \in BOOLEAN : Select(s, fits)
  \/ Found(s) \/ Leave(s) \/ LeaveRemoved(s)
  \/ Work(s) \/ Renotify(s) \/ ResetStatus(s)

Next ==
  \/ \E s \in Session : Start(s) \/ Command(s) \/ ConnectFails(s) \/ Proceed(s)
  \/ Tick \/ TickNotify \/ Change

Spec == Init /\ [][Next]_vars

\* A thread that waits for a lock gets it if the lock is free again and again
\* (Pth runs its threads in turn), and clients answer when asked for a PIN.
Fairness == /\ \A s \in Session : SF_vars(Proceed(s))
            /\ SF_vars(TickNotify)
FairSpec == Spec /\ Fairness

-----------------------------------------------------------------------------
\* Counting references works although sessions release on their own: every
\* session uses the application in the lock table, which has as many
\* references as users; a saved one has none.  So no session uses freed
\* memory and release_application finds no "app mismatch".
Users(a) == {s \in Session : ctrl[s].app = a}
AppsCounted ==
  /\ \A s \in Session : ctrl[s].app \in {NoApp, tab.active}
  /\ \A a \in App : tab.ctx[a].ref = Cardinality(Users(a))
  /\ tab.active # NoApp => Users(tab.active) # {}

\* No application is lost: what is allocated is active or saved, never both.
NoLeak ==
  /\ \A a \in App : tab.ctx[a] # Free <=> a \in {tab.active, tab.last}
  /\ tab.active = NoApp \/ tab.last = NoApp

\* release_application decrements the count before it waits for the reader.
\* That does no harm: the reader is not locked when the last user releases,
\* so no session can find the application with a count of 0.  (Therefore
\* Dropped has no step for the wait.)
LastUserUndisturbed ==
  \A s, u \in Session :
    (ctrl[s].app # NoApp /\ tab.ctx[ctrl[s].app].ref = 1 /\ u # s)
      => pc[u] \notin {"probe", "busy"}

\* locked_session does not dangle, and an application marked after a reset
\* or a removal is never saved for the next session.
LockOwnerLives == locked \in sessions \cup {None}
SavedIsFresh == tab.last # NoApp => ~ tab.ctx[tab.last].noReuse

\* Every command ends, ticker and resets wait for each other never for ever.
CommandsEnd == \A s \in Session : pc[s] # "idle" ~> pc[s] = "idle"

\* SERIALNO: "the client can assume that all operations are done on the same
\* card unless he calls this function."  The application that open_card lets
\* a session go on with is on the card in the reader, unless the card has
\* changed since the reader was last asked.
SameCard ==
  \A s \in Session :
    (AwaitsCommand(s) /\ ~ ctrl[s].removed /\ Keeps(s) /\ ~ news /\ card # NoCard)
      => tab.ctx[ctrl[s].app].card = card
=============================================================================
