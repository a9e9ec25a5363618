----------------------------- MODULE MCKeyring -----------------------------
(* Instances of Keyring for TLC.                                           *)
EXTENDS Keyring, TLC

CONSTANTS p1, p2, k1, k2

\* p1 changes the keyring, p2 only starts, reads and ends.
OneWriter == p1 :> {"import", "delete"} @@ p2 :> {}
\* Two users of --gen-key.
Generators == p1 :> {"generate"} @@ p2 :> {"generate"}
\* Two users of --import.
Importers == p1 :> {"import"} @@ p2 :> {"import"}
=============================================================================
