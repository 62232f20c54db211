---------------------------- MODULE MCAdminTeam ----------------------------
(* AdminTeam for TLC: two tabs, of one administrator's browser or of two.   *)
EXTENDS AdminTeam

MCBrowsers == {b \in [Tabs -> Admins] : \E t \in Tabs : b[t] = Founder}

\* The tabs differ in nothing but the browser they belong to.
Symmetry == Permutations(Tabs)
=============================================================================
