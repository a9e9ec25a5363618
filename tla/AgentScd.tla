----------------------------- MODULE AgentScd -----------------------------
(***************************************************************************)
(* The connections of gpg-agent to scdaemon (agent/call-scd.c).            *)
(*                                                                         *)
(* gpg-agent starts scdaemon with the first connection, a pipe; it cannot  *)
(* close that without waiting for scdaemon to end, so it stays open and    *)
(* is handed from session to session.  Others connect to a socket.         *)
(*                                                                         *)
(* A step goes from one call that lets other threads run to the next:      *)
(* acquiring start_scd_lock, connecting, a transaction with scdaemon.  A   *)
(* failed write or read on a dead connection returns at once, so a session *)
(* that talks on one is back before a new scdaemon has said hello; one     *)
(* that waits for its user is not.                                         *)
(*                                                                         *)
(* scd of a session: "off", "idle" between commands, "lock" before         *)
(* start_scd_lock, "connect" to the socket and "handshake" with a new      *)
(* scdaemon, both with that lock, "talk" in a card command, "pin" while it *)
(* asks for a PIN, "prompt" while it brings up the prompt for a reader     *)
(* with a keypad, "keypad" while that is up, "dismiss" while it is taken   *)
(* down, "restart" in the RESTART of agent_reset_scd, and "query" after    *)
(* it.  scd_local->locked is set from "lock" to "dismiss".                 *)
(*                                                                         *)
(* Left out: what the card commands are; a client that makes its session   *)
(* send BYE through the command SCD.                                       *)
(*                                                                         *)
(* Op_Slip is Op with a plausible slip in it, to show that the properties  *)
(* notice; no other definition uses it.                                    *)
(***************************************************************************)
EXTENDS AgentBase, FiniteSets, Naturals

VARIABLES
  daemon,             \* scdaemon: "none", "up", or "dead" and not waited for
  primary, reusable,  \* primary_scd_ctx is set, primary_scd_ctx_reusable
  socket,             \* socket_name is set
  startLock,          \* who has start_scd_lock
  ctx,                \* scd_local->ctx: "none", "pipe" (the primary one)
                      \* or "socket"
  scd                 \* where a session is

scdVars == <<daemon, primary, reusable, socket, startLock, ctx, scd>>
conns == <<primary, reusable, socket>>

ScdTypeOK ==
  /\ daemon \in {"none", "up", "dead"}
  /\ primary \in BOOLEAN /\ reusable \in BOOLEAN /\ socket \in BOOLEAN
  /\ startLock \in Session \cup {NoSession}
  /\ ctx \in [Session -> {"none", "pipe", "socket"}]
  /\ scd \in [Session -> {"off", "idle", "lock", "connect", "handshake", "talk",
                "pin", "prompt", "keypad", "dismiss", "restart", "query"}]

ScdInit ==
  /\ daemon = "none"
  /\ primary = FALSE /\ reusable = FALSE /\ socket = FALSE
  /\ startLock = NoSession
  /\ ctx = [s \in Session |-> "none"]
  /\ scd = [s \in Session |-> "off"]

ScdGoto(s, from, to) == scd[s] = from /\ scd' = [scd EXCEPT ![s] = to]
SetCtx(s, c) == ctx' = [ctx EXCEPT ![s] = c]

\* What the connection of s, if it still has one, is connected to.
Connected(s) == daemon = "up" /\ ctx[s] # "none"

\* Back in the thread of s before anything else can take long.
Returning(s) == scd[s] \in {"talk", "restart"} /\ ctx[s] = "none"

-----------------------------------------------------------------------------
\* A connection to gpg-agent; and a card command, which calls start_scd.
Begin(s) ==
  /\ ScdGoto(s, "off", "idle")
  /\ UNCHANGED <<daemon, conns, startLock, ctx>>

StartScd(s) ==
  /\ ScdGoto(s, "idle", IF ctx[s] # "none" THEN "talk" ELSE "lock")
  /\ UNCHANGED <<daemon, conns, startLock, ctx>>

\* Slip: leaves primary_scd_ctx_reusable set.
Reuse_Slip(s) ==
  /\ ScdGoto(s, "lock", "talk")
  /\ startLock = NoSession
  /\ primary /\ reusable
  /\ SetCtx(s, "pipe")
  /\ UNCHANGED <<daemon, conns, startLock>>

Reuse(s) ==
  /\ ScdGoto(s, "lock", "talk")
  /\ startLock = NoSession
  /\ primary /\ reusable
  /\ reusable' = FALSE
  /\ SetCtx(s, "pipe")
  /\ UNCHANGED <<daemon, primary, socket, startLock>>

\* No memory, no scdaemon, or one that "won't accept further connections"
StartFails(s) ==
  /\ ScdGoto(s, "lock", "idle")
  /\ startLock = NoSession
  /\ ~ (primary /\ reusable)
  /\ UNCHANGED <<daemon, conns, startLock, ctx>>

Connect(s) ==
  /\ ScdGoto(s, "lock", "connect")
  /\ startLock = NoSession
  /\ ~ (primary /\ reusable) /\ socket
  /\ startLock' = s
  /\ UNCHANGED <<daemon, conns, ctx>>

SocketOpen(s) ==
  /\ ScdGoto(s, "connect", "talk")
  /\ daemon = "up"
  /\ SetCtx(s, "socket")
  /\ startLock' = NoSession
  /\ UNCHANGED <<daemon, conns>>

\* Slip: returns without going to leave.
ConnectFails_Slip(s) ==
  /\ ScdGoto(s, "connect", "idle")
  /\ UNCHANGED <<daemon, conns, startLock, ctx>>

ConnectFails(s) ==
  /\ ScdGoto(s, "connect", "idle")
  /\ startLock' = NoSession
  /\ UNCHANGED <<daemon, conns, ctx>>

\* assuan_pipe_connect
Spawn(s) ==
  /\ ScdGoto(s, "lock", "handshake")
  /\ startLock = NoSession
  /\ ~ primary /\ ~ socket
  /\ daemon' = "up"
  /\ startLock' = s
  /\ UNCHANGED <<conns, ctx>>

\* Slip: gives up after a while, without waiting for scdaemon to end.
SpawnFails_Slip(s) ==
  /\ ScdGoto(s, "handshake", "idle")
  /\ startLock' = NoSession
  /\ UNCHANGED <<daemon, conns, ctx>>

\* scdaemon has died before it said hello.
SpawnFails(s) ==
  /\ ScdGoto(s, "handshake", "idle")
  /\ daemon = "dead"
  /\ daemon' = "none"
  /\ startLock' = NoSession
  /\ UNCHANGED <<conns, ctx>>

\* socket_name stays unset if there is no memory for it, or no answer.
Started(s) ==
  /\ ScdGoto(s, "handshake", "talk")
  /\ \A u \in Session : ~ Returning(u)
  /\ primary' = TRUE /\ reusable' = FALSE
  /\ socket' \in BOOLEAN
  /\ SetCtx(s, "pipe")
  /\ startLock' = NoSession
  /\ UNCHANGED daemon

-----------------------------------------------------------------------------
\* A card command: the functions agent_card_xxx and inq_needpin.
Needpin(s) ==
  /\ ScdGoto(s, "talk", "pin")
  /\ Connected(s)
  /\ UNCHANGED <<daemon, conns, startLock, ctx>>

Popup(s) ==
  /\ ScdGoto(s, "talk", "prompt")
  /\ Connected(s)
  /\ UNCHANGED <<daemon, conns, startLock, ctx>>

\* The callback returns, with or without what was asked for.
PinDone(s) ==
  /\ ScdGoto(s, "pin", "talk")
  /\ UNCHANGED <<daemon, conns, startLock, ctx>>
PopupDone(s) ==
  /\ ScdGoto(s, "prompt", "keypad")
  /\ UNCHANGED <<daemon, conns, startLock, ctx>>
PopupFails(s) ==
  /\ ScdGoto(s, "prompt", "talk")
  /\ UNCHANGED <<daemon, conns, startLock, ctx>>

Dismiss(s) ==
  /\ ScdGoto(s, "keypad", "dismiss")
  /\ Connected(s)
  /\ UNCHANGED <<daemon, conns, startLock, ctx>>
Dismissed(s) ==
  /\ ScdGoto(s, "dismiss", "talk")
  /\ UNCHANGED <<daemon, conns, startLock, ctx>>

\* scdaemon has died with the prompt up: the command returns.
KeypadLost(s) ==
  /\ ScdGoto(s, "keypad", "idle")
  /\ ~ Connected(s)
  /\ UNCHANGED <<daemon, conns, startLock, ctx>>

\* unlock_scd
Done(s) ==
  /\ ScdGoto(s, "talk", "idle")
  /\ UNCHANGED <<daemon, conns, startLock, ctx>>

\* Sessions in whose inquiry scdaemon waits for a line on the pipe
Inquired == {s \in Session : ctx[s] = "pipe" /\ scd[s] \in {"pin", "prompt", "dismiss"}}

\* The same for GPG_ERR_NOT_OPERATIONAL: scdaemon has no reader, and ends on
\* BYE from the pipe.  To an inquiry BYE is not the answer.
NotOperational(s) ==
  /\ ScdGoto(s, "talk", "idle")
  /\ Connected(s)
  /\ daemon' = IF Inquired = {} THEN "dead" ELSE "up"
  /\ UNCHANGED <<conns, startLock, ctx>>

-----------------------------------------------------------------------------
\* Slip: closes the connection and keeps the pointer.
Reset_Slip(s) ==
  /\ ScdGoto(s, "idle", IF ctx[s] = "pipe" THEN "restart" ELSE "query")
  /\ UNCHANGED <<daemon, conns, startLock, ctx>>

\* agent_reset_scd, when the session ends
Reset(s) ==
  /\ ScdGoto(s, "idle", IF ctx[s] = "pipe" THEN "restart" ELSE "query")
  /\ ctx' = IF ctx[s] = "socket" THEN [ctx EXCEPT ![s] = "none"] ELSE ctx
  /\ UNCHANGED <<daemon, conns, startLock>>

\* "we need to set the reusable flag to make sure that the aliveness check can
\* clean it up"
Restarted(s) ==
  /\ ScdGoto(s, "restart", "query")
  /\ reusable' = TRUE
  /\ SetCtx(s, "none")
  /\ UNCHANGED <<daemon, primary, socket, startLock>>

End(s) ==
  /\ ScdGoto(s, "query", "off")
  /\ UNCHANGED <<daemon, conns, startLock, ctx>>

-----------------------------------------------------------------------------
\* Slip: cleans up only the primary connection.
CheckAliveness_Slip ==
  /\ primary
  /\ startLock = NoSession
  /\ daemon = "dead"
  /\ daemon' = "none"
  /\ primary' = FALSE /\ reusable' = FALSE /\ socket' = FALSE
  /\ ctx' = [s \in Session |-> IF ctx[s] = "pipe" THEN "none" ELSE ctx[s]]
  /\ UNCHANGED <<startLock, scd>>

\* agent_scd_check_aliveness, called by the ticker
CheckAliveness ==
  /\ primary
  /\ startLock = NoSession
  /\ daemon = "dead"
  /\ daemon' = "none"
  /\ primary' = FALSE /\ reusable' = FALSE /\ socket' = FALSE
  /\ ctx' = [s \in Session |-> "none"]
  /\ UNCHANGED <<startLock, scd>>

\* scdaemon is killed or crashes.
Die ==
  /\ daemon = "up"
  /\ daemon' = "dead"
  /\ UNCHANGED <<conns, startLock, ctx, scd>>

\* start_scd, once called
Start(s) ==
  \/ Reuse(s) \/ StartFails(s) \/ Connect(s) \/ Spawn(s)
  \/ SocketOpen(s) \/ ConnectFails(s) \/ Started(s) \/ SpawnFails(s)

\* What a session does in a card command when it is not asking its user.
Talk(s) == Done(s) \/ NotOperational(s) \/ Needpin(s) \/ Popup(s)
Answer(s) ==
  \/ PinDone(s) \/ PopupDone(s) \/ PopupFails(s)
  \/ Dismiss(s) \/ Dismissed(s) \/ KeypadLost(s)

ScdNext ==
  \/ \E s \in Session :
       \/ Begin(s) \/ StartScd(s) \/ Start(s) \/ Talk(s) \/ Answer(s)
       \/ Reset(s) \/ Restarted(s) \/ End(s)
  \/ CheckAliveness \/ Die

ScdSpec == ScdInit /\ [][ScdNext]_scdVars

-----------------------------------------------------------------------------
\* No two sessions talk on the pipe, and nobody does when it may be reused:
\* also when the ticker or a new scdaemon comes in between the RESTART and the
\* flag that is set after it.
OneOnPipe ==
  /\ \A s, u \in Session : ctx[s] = "pipe" /\ ctx[u] = "pipe" => s = u
  /\ primary /\ reusable => \A s \in Session : ctx[s] # "pipe"

\* The pipe is not lost either: if it may not be reused, a session has it.
PipeNotLost == primary /\ ~ reusable => \E s \in Session : ctx[s] = "pipe"

\* The one pipe to scdaemon always has exactly one owner: a session, or the
\* flag that says it may be reused.
PipeOwned == OneOnPipe /\ PipeNotLost

\* A session that has a connection has it to the scdaemon that was started
\* last; a socket name goes with that, too.
NoStaleContext ==
  ~ primary => ~ socket /\ \A s \in Session : ctx[s] = "none"

\* gpg-agent does not forget a scdaemon that is running, and so does not start
\* a second one beside it.
NotForgotten ==
  daemon = "up" => primary \/ \E s \in Session : startLock = s /\ scd[s] = "handshake"

\* "Due to the use of the START_SCD_LOCAL we are sure that none of these
\* context are actually in use" when the ticker releases them: a session whose
\* user is asked for a PIN has the connection on which it will send that.
InUseStays == \A s \in Session : scd[s] \in {"pin", "prompt"} => ctx[s] # "none"
=============================================================================
