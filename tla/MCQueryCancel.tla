---------------------------- MODULE MCQueryCancel ----------------------------
(* QueryCancel for a worker that makes two or three queries.               *)
EXTENDS QueryCancel
=============================================================================
