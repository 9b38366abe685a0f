--------------------------- MODULE MCHttp2Session ---------------------------
(* Http2Session with the symmetry of its connections and calls, for the runs *)
(* that check safety only.                                                   *)
EXTENDS Http2Session, TLC

Symmetry == Permutations(Conns) \cup Permutations(Calls)
=============================================================================
