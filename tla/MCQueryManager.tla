--------------------------- MODULE MCQueryManager ---------------------------
(* Instances of QueryManager for TLC. *)
EXTENDS QueryManager, TLC

\* A query for the nodes other than the origin.
Others == {Node \ {Origin}}
=============================================================================
