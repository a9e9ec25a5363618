---------------------------- MODULE MCAgentCache ----------------------------
(* Instances of AgentCache, with its history, for TLC.                     *)
EXTENDS AgentCacheLast, TLC

\* PRESET_PASSPHRASE, GET_PASSPHRASE, and ssh with a default ttl of 0.
Requests == {<<"other", -1>>, <<"other", 0>>, <<"ssh", 0>>}
Default == [m \in Mode |-> IF m = "ssh" THEN 0 ELSE 1]
Maximum == [m \in Mode |-> 1]
Symmetry == Permutations(Thread) \cup Permutations(Slot) \cup Permutations(Data)
=============================================================================
