----------------------------- MODULE MCQueryForm -----------------------------
(* QueryForm on small instances.                                           *)
EXTENDS QueryForm
=============================================================================
