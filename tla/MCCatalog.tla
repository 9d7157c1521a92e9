----------------------------- MODULE MCCatalog -----------------------------
(* A small instance of Catalog: two collections, so that a request has a     *)
(* second batch to treat.                                                    *)
EXTENDS Catalog, TLC

CONSTANTS w1, g1

MCProducts == {w1, g1}
MCKindOf == (w1 :> "webinars") @@ (g1 :> "guidesAndBooks")
=============================================================================
