----------------------------- MODULE MCRevision -----------------------------
(* One project, one user of the API and one of the web pages, for TLC. *)
EXTENDS ProjectSetup

OnePlan ==
    {[projects |-> 1, keywords |-> 2, competitors |-> 1, providers |-> {"perplexity"},
      confidence |-> TRUE, verification |-> TRUE]}
=============================================================================
