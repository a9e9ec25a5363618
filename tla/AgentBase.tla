----------------------------- MODULE AgentBase -----------------------------
(* The sessions of gpg-agent, for the modules about its calls to pinentry  *)
(* and scdaemon.  Each has a thread of GNU Pth and a ctrl structure; both  *)
(* are gone when the connection ends, and a later session may have its     *)
(* ctrl at the same address.                                               *)
CONSTANTS
  Session,    \* the addresses of ctrl
  NoSession,  \* a null pointer
  Ssh         \* those that serve the ssh-agent protocol

ASSUME SessionAssumption == NoSession \notin Session /\ Ssh \subseteq Session
=============================================================================
