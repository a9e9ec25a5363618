----------------------------- MODULE MCTrustDb -----------------------------
(* An instance of TrustDb for TLC: of four keys, three have the same first *)
(* byte of the fingerprint; u and w are ownertrusts.                       *)
EXTENDS TrustDb, TLC
CONSTANTS k1, k2, k3, k4, u, w
Hash == [k \in Key |-> IF k = k4 THEN 2 ELSE 1]
Alike == Permutations({k1, k2, k3}) \cup Permutations({u, w})
=============================================================================
