--------------------------- MODULE MCCatalogCache ---------------------------
(* Instances of CatalogCache for TLC. *)
EXTENDS CatalogCache

CONSTANTS i1, t1, t2

\* Two threads of one instance.
OneInstance == [r \in {t1, t2} |-> i1]
=============================================================================
