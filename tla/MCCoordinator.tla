--------------------------- MODULE MCCoordinator ---------------------------
(* Coordinator with two handlers and the repair job.                       *)
EXTENDS Coordinator
=============================================================================
