------------------------------ MODULE MCSession ------------------------------
(* A big definition and a thin wrapper in another file that delegates to it. *)
EXTENDS Session, TLC
CONSTANTS c1, c2, big, thin, f, g

MCFileOf == (big :> f) @@ (thin :> g)
MCDelegate == (big :> NoKey) @@ (thin :> big)
MCSymmetry == Permutations({c1, c2})
=============================================================================
