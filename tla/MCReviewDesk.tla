---------------------------- MODULE MCReviewDesk ----------------------------
(* ReviewDesk for TLC: two tabs of one reviewer, or of two.                  *)
EXTENDS ReviewDesk, TLC

MCDesks ==
  {f \in [Tabs -> Admins] : \E a \in Admins : f = [t \in Tabs |-> a]}
    \union {f \in [Tabs -> Admins] : \A t, u \in Tabs : f[t] = f[u] => t = u}

Symmetry == Permutations(Tabs) \union Permutations(Admins)
=============================================================================
