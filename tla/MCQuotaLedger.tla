--------------------------- MODULE MCQuotaLedger ---------------------------
(* Small instance of QuotaLedger: one workspace over two months. *)
EXTENDS QuotaLedger, TLC

CONSTANTS k1, k2, k3

MCSymmetry == Permutations({k1, k2, k3})
=============================================================================
