--------------------------- MODULE MCCatalogClient ---------------------------
(* Instances of CatalogClient for TLC.                                     *)
EXTENDS CatalogClient
=============================================================================
