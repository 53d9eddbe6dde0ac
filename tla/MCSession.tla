----------------------------- MODULE MCSession -----------------------------
(* Instances of Session for TLC. *)
EXTENDS Session, TLC

Symmetry == Permutations(Sockets) \cup Permutations(Trans) \cup Permutations(Conns)
              \cup Permutations(Sids)
=============================================================================
