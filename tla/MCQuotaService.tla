--------------------------- MODULE MCQuotaService ---------------------------
(* Small instances of QuotaService: one workspace, two months, two sessions *)
(* that make any call and may run the expiry job.                           *)
EXTENDS QuotaService, TLC

CONSTANTS k1, k2, s1, s2, u1, u2

MCMonth == 1..2

MCSymmetry ==
    Permutations({k1, k2}) \cup Permutations({s1, s2}) \cup Permutations({u1, u2})
=============================================================================
