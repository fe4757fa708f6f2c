---------------------------- MODULE MCBrowsing ----------------------------
(* Names of pages for Browsing. *)
EXTENDS Browsing, TLC

OneName == <<"a">>
NoCells == {1}
Symmetry == Permutations(Clients)

=============================================================================
