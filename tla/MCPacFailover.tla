------------------------------ MODULE MCPacFailover ------------------------------
(* PacFailover with enough requests to fail over and to come back.          *)
EXTENDS PacFailover

==================================================================================
