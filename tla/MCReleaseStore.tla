---------------------------- MODULE MCReleaseStore ----------------------------
(* Small instances of ReleaseStore for TLC. *)
EXTENDS ReleaseStore, TLC

CONSTANTS g0, g1, g2, g3, c0, c1, k0, k1, r1

MCCatalogOf == (c0 :> k0) @@ (c1 :> k1)

MCOneCatalog == (c0 :> k0) @@ (c1 :> k0)

Interchangeable == Permutations(Generations \ {SeedGen})
=============================================================================
