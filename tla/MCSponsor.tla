----------------------------- MODULE MCSponsor -----------------------------
(* Values for TLC: the coins are interchangeable in a run that checks no    *)
(* liveness.                                                                *)
EXTENDS SponsorService, TLC

CoinSymmetry == Permutations(Coins)
=============================================================================
