------------------------------- MODULE MCCatalog --------------------------------
(* Importers are alike: no definition tells one from another.                *)
EXTENDS Catalog, TLC

Symmetry == Permutations(Importer)
================================================================================
