------------------------------ MODULE MCRestart ------------------------------
(* Restart on small instances: a restart, and an upgrade.                  *)
EXTENDS Restart

\* The jobs share the queue of their type
OneQueue == [j \in Job |-> "restart-4cat"]
=============================================================================
