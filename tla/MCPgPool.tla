------------------------------ MODULE MCPgPool ------------------------------
(* No symmetry: the run also checks liveness. *)
EXTENDS PgPool
=============================================================================
