---------------------------- MODULE MCForgeAuth ----------------------------
(***************************************************************************)
(* Small instances of ForgeAuth.                                           *)
(***************************************************************************)
EXTENDS ForgeAuth, TLC

CONSTANTS c1, c2, r1, r2

TwoCodes == {c1, c2}
TwoRequests == {r1, r2}
OneRequest == {r1}
NoRequests == {}

Symmetry == Permutations(Codes) \cup Permutations(Requests)
=============================================================================
