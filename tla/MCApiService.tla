---------------------------- MODULE MCApiService ----------------------------
(***************************************************************************)
(* An instance of ApiService for TLC: two requests at a time for one node, *)
(* which may be seeded, ingested or missing.                               *)
(***************************************************************************)
EXTENDS ApiService
CONSTANTS t1, t2, campaign

TwoThreads == {t1, t2}
OneId == {campaign}
=============================================================================
